------------------------------ MODULE KlibProofs -------------------------------
(***************************************************************************)
(* The guest's C library does what ISO C says, for every width of a word   *)
(* Klib allows and for every call C defines.                               *)
(*                                                                         *)
(* Division.  The invariant of the restoring loop (Divides) is that what   *)
(* has been shifted into r, less the multiples of d taken off, is the      *)
(* remainder of what has been looked at of n; that the sign of d - r - 1   *)
(* tells whether d fits needs SignTells, which each way into the loop has  *)
(* to give (BeginIs); the short cuts are divisions by a power of two or of *)
(* single words.  The signed functions divide magnitudes, and what they    *)
(* return is right modulo the double word (ModCongruent).                  *)
(*                                                                         *)
(* Blocks.  Stores cut a block into bytes and words that tile it           *)
(* (StoresTile); after any number of them the addresses written hold what  *)
(* was at the source before the call, because none that is still to be     *)
(* read has been written (Writes), whichever end memmove starts from.      *)
(*                                                                         *)
(* Comparisons stop at the first element that decides the order of the     *)
(* two texts (OrderIs).                                                    *)
(*                                                                         *)
(* Numbers.  The digits %d prints read back, digit by digit, as the number *)
(* (Spells, Horner), and atoi reads them up to the text that follows.      *)
(***************************************************************************)
EXTENDS Klib, Recursion

------------------------------------------------------------------------------
(* The powers of two.                                                      *)
LEMMA WIs == W \in Nat /\ W >= 4 /\ W <= 32
BY KlibAssumption, SMT

LEMMA Pow2Is ==
  /\ pow2 \in [0 .. 2 * W -> Nat]
  /\ pow2 = [k \in 0 .. 2 * W |-> IF k = 0 THEN 1 ELSE 2 * pow2[k - 1]]
<1> DEFINE n == 2 * W
           G == [x \in Nat \X (1 .. n) |-> 2 * x[1]]
           D == 0 .. n
           Is(f) == f = [k \in D |-> IF k = 0 THEN 1 ELSE 2 * f[k - 1]]
<1>1. n \in Nat
  BY WIs, SMT
<1>2. G \in [Nat \X (1 .. n) -> Nat]
  <2>1. \A x \in Nat \X (1 .. n) : 2 * x[1] \in Nat
    BY SMT
  <2> QED
    BY <2>1
<1>3. PICK f \in [0 .. n -> Nat] : IsLoop(f, n, 1, G)
  <2>1. 1 \in Nat
    BY SMT
  <2> HIDE DEF n, G
  <2> QED
    BY <1>1, <1>2, <2>1, Iteration
<1>4. \A k \in D : (IF k = 0 THEN 1 ELSE G[<<f[k - 1], k>>]) = IF k = 0 THEN 1 ELSE 2 * f[k - 1]
  <2> TAKE k \in D
  <2>1. CASE k # 0
    <3>1. k - 1 \in 0 .. n /\ k \in 1 .. n
      BY <1>1, <2>1, SMT
    <3>2. <<f[k - 1], k>> \in Nat \X (1 .. n)
      BY <3>1
    <3> HIDE DEF n
    <3> QED
      BY <2>1, <3>2
  <2> QED
    BY <2>1
<1>5. Is(f)
  <2>1. f = [i \in D |-> IF i = 0 THEN 1 ELSE G[<<f[i - 1], i>>]]
    BY <1>3 DEF IsLoop
  <2> HIDE DEF G
  <2> QED
    BY <2>1, <1>4
<1>6. pow2 = CHOOSE g : Is(g)
  BY DEF pow2
<1>7. Is(pow2)
  <2> HIDE DEF Is
  <2> QED
    BY <1>5, <1>6
<1>8. pow2 \in [D -> Nat]
  <2> DEFINE S == {k \in D : pow2[k] \in Nat}
  <2>1. 0 \in S
    <3>1. 0 \in D
      BY <1>1, SMT
    <3>2. pow2[0] = 1
      BY <1>7, <3>1
    <3> HIDE DEF D
    <3> QED
      BY <3>1, <3>2
  <2>2. ASSUME NEW i \in 0 .. n - 1, i \in S
        PROVE  i + 1 \in S
    <3>1. i + 1 \in D /\ i + 1 # 0 /\ (i + 1) - 1 = i
      BY <1>1, SMT
    <3>2. pow2[i + 1] = 2 * pow2[i]
      BY <1>7, <3>1
    <3>3. pow2[i + 1] \in Nat
      BY <2>2, <3>2, SMT
    <3> HIDE DEF D
    <3> QED
      BY <3>1, <3>3
  <2>3. D \subseteq S
    <3> HIDE DEF S, n
    <3> QED
      BY <1>1, <2>1, <2>2, UpTo
  <2>4. \A k \in D : pow2[k] \in Nat
    BY <2>3
  <2>5. pow2 = [k \in D |-> pow2[k]]
    BY <1>7
  <2> HIDE DEF D
  <2> QED
    BY <2>4, <2>5
<1> QED
  BY <1>7, <1>8

LEMMA Pow2 ==
  /\ pow2[0] = 1
  /\ \A k \in 1 .. 2 * W : pow2[k] = 2 * pow2[k - 1]
  /\ \A k \in 0 .. 2 * W : pow2[k] \in Nat /\ pow2[k] >= 1
<1> DEFINE D == 0 .. 2 * W
           S == {k \in D : pow2[k] >= 1}
<1>1. 2 * W \in Nat /\ 0 \in D
  BY WIs, SMT
<1>2. pow2[0] = 1
  BY <1>1, Pow2Is
<1>3. ASSUME NEW k \in 1 .. 2 * W
      PROVE  pow2[k] = 2 * pow2[k - 1]
  <2>1. k \in D /\ k # 0
    BY <1>1, SMT
  <2> QED
    BY <2>1, Pow2Is
<1>4. \A k \in D : pow2[k] \in Nat
  BY Pow2Is
<1>5. ASSUME NEW i \in 0 .. (2 * W) - 1, i \in S
      PROVE  i + 1 \in S
  <2>1. i + 1 \in D /\ i + 1 \in 1 .. 2 * W /\ (i + 1) - 1 = i
    BY <1>1, SMT
  <2>2. pow2[i + 1] = 2 * pow2[i]
    BY <1>3, <2>1
  <2>3. pow2[i] \in Nat /\ pow2[i] >= 1
    BY <1>4, <1>5
  <2>4. pow2[i + 1] >= 1
    BY <2>2, <2>3, SMT
  <2> HIDE DEF D
  <2> QED
    BY <2>1, <2>4
<1>6. 0 \in S
  <2>1. pow2[0] >= 1
    BY <1>2, SMT
  <2> HIDE DEF D
  <2> QED
    BY <1>1, <2>1
<1>7. D \subseteq S
  <2> HIDE DEF S
  <2> QED
    BY <1>1, <1>5, <1>6, UpTo
<1> QED
  BY <1>2, <1>3, <1>4, <1>7

LEMMA Pow2Add ==
  ASSUME NEW i \in Nat, NEW j \in Nat, i + j <= 2 * W
  PROVE  pow2[i + j] = pow2[i] * pow2[j]
<1> DEFINE S == {k \in 0 .. j : pow2[i + k] = pow2[i] * pow2[k]}
<1>0. i \in 0 .. 2 * W /\ pow2[i] \in Nat
  <2>1. i \in 0 .. 2 * W
    BY WIs, SMT
  <2> QED
    BY <2>1, Pow2
<1>1. 0 \in S
  <2>1. 0 \in 0 .. j /\ i + 0 = i /\ pow2[0] = 1
    BY Pow2, SMT
  <2>2. pow2[i] = pow2[i] * 1
    BY <1>0, SMT
  <2> QED
    BY <2>1, <2>2
<1>2. ASSUME NEW k \in 0 .. j - 1, k \in S
      PROVE  k + 1 \in S
  <2>1. /\ k + 1 \in 0 .. j /\ k + 1 \in 1 .. 2 * W /\ (k + 1) - 1 = k
        /\ i + (k + 1) \in 1 .. 2 * W /\ (i + (k + 1)) - 1 = i + k
        /\ k \in 0 .. 2 * W
    BY WIs, SMT
  <2>2. pow2[i + (k + 1)] = 2 * pow2[i + k] /\ pow2[k + 1] = 2 * pow2[k] /\ pow2[k] \in Nat
    BY <2>1, Pow2
  <2>3. pow2[i + k] = pow2[i] * pow2[k]
    BY <1>2
  <2>4. 2 * (pow2[i] * pow2[k]) = pow2[i] * (2 * pow2[k])
    BY <1>0, <2>2, SMT
  <2> QED
    BY <2>1, <2>2, <2>3, <2>4
<1>3. 0 .. j \subseteq S
  <2> HIDE DEF S
  <2> QED
    BY <1>1, <1>2, UpTo
<1>4. j \in 0 .. j
  BY SMT
<1> QED
  BY <1>3, <1>4

LEMMA Pow2Less ==
  ASSUME NEW i \in Nat, NEW j \in Nat, i < j, j <= 2 * W
  PROVE  2 * pow2[i] <= pow2[j] /\ pow2[i] < pow2[j]
<1>1. i \in 0 .. 2 * W /\ i + 1 \in 1 .. 2 * W /\ i + 1 \in 0 .. 2 * W /\ j - (i + 1) \in 0 .. 2 * W
      /\ (i + 1) - 1 = i /\ i + 1 \in Nat /\ j - (i + 1) \in Nat /\ (i + 1) + (j - (i + 1)) = j
  BY WIs, SMT
<1>2. pow2[j] = pow2[i + 1] * pow2[j - (i + 1)]
  BY <1>1, Pow2Add
<1>3. pow2[i + 1] = 2 * pow2[i] /\ pow2[i] \in Nat /\ pow2[i] >= 1
      /\ pow2[j - (i + 1)] \in Nat /\ pow2[j - (i + 1)] >= 1
  BY <1>1, Pow2
<1>4. \A a, b \in Nat : a >= 1 /\ b >= 1 => (2 * a) * b >= 2 * a
  BY SMT
<1>5. (2 * pow2[i]) * pow2[j - (i + 1)] >= 2 * pow2[i]
  BY <1>3, <1>4
<1>6. pow2[j] >= 2 * pow2[i] /\ pow2[j] \in Int
  BY <1>1, <1>2, <1>3, <1>5, SMT
<1> QED
  BY <1>3, <1>6, SMT

LEMMA Words ==
  /\ B = pow2[W] /\ B \in Nat /\ B >= 16
  /\ BB = pow2[2 * W] /\ BB \in Nat /\ BB = B * B /\ BB >= 256
  /\ BB \div 2 = pow2[2 * W - 1] /\ BB = 2 * (BB \div 2) /\ BB \div 2 \in Nat
<1>1. W \in 0 .. 2 * W /\ W + W = 2 * W /\ W \in Nat /\ 2 * W \in 0 .. 2 * W
      /\ 2 * W \in 1 .. 2 * W /\ 2 * W - 1 \in 0 .. 2 * W
  BY WIs, SMT
<1>2. B = pow2[W] /\ B \in Nat /\ B >= 1
  BY <1>1, Pow2 DEF B
<1>3. BB = pow2[2 * W]
  BY <1>1, <1>2, Pow2Add, WIs DEF BB
<1>4. B >= 16
  <2>1. 0 \in Nat /\ 1 \in Nat /\ 2 \in Nat /\ 3 \in Nat /\ 4 \in Nat
    BY SMT
  <2>2. 2 * pow2[0] <= pow2[1] /\ 2 * pow2[1] <= pow2[2] /\ 2 * pow2[2] <= pow2[3]
        /\ 2 * pow2[3] <= pow2[4]
    <3>1. 0 < 1 /\ 1 < 2 /\ 2 < 3 /\ 3 < 4 /\ 4 <= 2 * W /\ 3 <= 2 * W /\ 2 <= 2 * W /\ 1 <= 2 * W
      BY WIs, SMT
    <3> QED
      BY <2>1, <3>1, Pow2Less
  <2>3. pow2[4] <= B
    <3>1. CASE W = 4
      BY <1>2, <3>1, SMT
    <3>2. CASE W # 4
      <4>1. 4 < W /\ W <= 2 * W
        BY <3>2, WIs, SMT
      <4>2. pow2[4] < pow2[W]
        BY <1>1, <2>1, <4>1, Pow2Less
      <4>3. pow2[4] \in Nat
        <5>1. 4 \in 0 .. 2 * W
          BY WIs, SMT
        <5> QED
          BY <5>1, Pow2
      <4> QED
        BY <1>2, <4>2, <4>3, SMT
    <3> QED
      BY <3>1, <3>2
  <2>4. pow2[0] = 1 /\ pow2[1] \in Nat /\ pow2[2] \in Nat /\ pow2[3] \in Nat /\ pow2[4] \in Nat
    <3>1. 1 \in 0 .. 2 * W /\ 2 \in 0 .. 2 * W /\ 3 \in 0 .. 2 * W /\ 4 \in 0 .. 2 * W
      BY WIs, SMT
    <3> QED
      BY <3>1, Pow2
  <2> QED
    BY <1>2, <2>2, <2>3, <2>4, SMT
<1>5. \A b \in Nat : b >= 16 => b * b \in Nat /\ b * b >= 256
  BY SMT
<1>6. BB \in Nat /\ BB >= 256 /\ BB = B * B
  BY <1>2, <1>4, <1>5 DEF BB
<1>7. BB = 2 * pow2[2 * W - 1] /\ pow2[2 * W - 1] \in Nat
  BY <1>1, <1>3, Pow2
<1>8. BB \div 2 = pow2[2 * W - 1]
  BY <1>6, <1>7, SMT
<1> QED
  BY <1>2, <1>3, <1>4, <1>6, <1>7, <1>8

------------------------------------------------------------------------------
(* Division.                                                               *)
LEMMA DivMod ==
  ASSUME NEW a \in Int, NEW b \in Nat, b >= 1
  PROVE  /\ a \div b \in Int /\ a % b \in Int /\ a = b * (a \div b) + (a % b)
         /\ 0 <= a % b /\ a % b < b
BY SMT

QuotRem(a, b, q, r) == a \div b = q /\ a % b = r

LEMMA DivUnique ==
  ASSUME NEW b \in Nat, b >= 1, NEW q \in Int, NEW r \in Int, 0 <= r, r < b, NEW a, a = b * q + r
  PROVE  QuotRem(a, b, q, r) /\ a \div b = q /\ a % b = r
BY SMT DEF QuotRem

LEMMA DivNat ==
  ASSUME NEW a \in Nat, NEW b \in Nat, b >= 1
  PROVE  a \div b \in Nat /\ a % b \in 0 .. b - 1 /\ b * (a \div b) <= a
BY SMT

LEMMA DivDiv ==
  ASSUME NEW a \in Nat, NEW b \in Nat, NEW c \in Nat, b >= 1, c >= 1
  PROVE  (a \div b) \div c = a \div (b * c)
<1> DEFINE q == a \div b
           r == a % b
           q2 == q \div c
           r2 == q % c
<1>1. q \in Int /\ r \in Int /\ a = b * q + r /\ 0 <= r /\ r < b
  BY DivMod
<1>2. q2 \in Int /\ r2 \in Int /\ q = c * q2 + r2 /\ 0 <= r2 /\ r2 < c
  <2> HIDE DEF q
  <2> QED
    BY <1>1, DivMod
<1> HIDE DEF q, r, q2, r2
<1>3. a = (b * c) * q2 + (b * r2 + r)
  <2>1. b * q = b * (c * q2 + r2)
    BY <1>2
  <2>2. b * (c * q2 + r2) = (b * c) * q2 + b * r2
    BY <1>2, SMT
  <2> QED
    BY <1>1, <1>2, <2>1, <2>2, SMT
<1>4. 0 <= b * r2 + r /\ b * r2 + r < b * c /\ b * r2 + r \in Int /\ b * c \in Nat /\ b * c >= 1
  <2>1. \A x, y, z \in Nat : x <= y => z * x <= z * y
    BY SMT
  <2>2. b * r2 <= b * (c - 1)
    <3>1. r2 \in Nat /\ c - 1 \in Nat /\ r2 <= c - 1
      BY <1>2, SMT
    <3> QED
      BY <2>1, <3>1
  <2>3. b * (c - 1) = b * c - b /\ b * r2 \in Nat /\ b * c \in Nat
    BY <1>2, SMT
  <2>4. b <= b * c
    <3>1. b * 1 <= b * c /\ b * 1 = b
      BY <2>1, SMT
    <3> QED
      BY <3>1
  <2> QED
    BY <1>1, <2>2, <2>3, <2>4, SMT
<1>5. a \div (b * c) = q2
  BY <1>2, <1>3, <1>4, DivUnique
<1> QED
  BY <1>5 DEF q2, q

LEMMA DivLess ==
  ASSUME NEW a \in Nat, NEW b \in Nat, NEW c \in Nat, b >= 1
  PROVE  (a \div b < c) <=> (a < b * c)
<1> DEFINE q == a \div b
           r == a % b
<1>1. q \in Int /\ r \in Int /\ a = b * q + r /\ 0 <= r /\ r < b
  BY DivMod
<1> HIDE DEF q, r
<1>2. ASSUME q < c PROVE a < b * c
  <2>1. b * (q + 1) <= b * c
    BY <1>1, <1>2, SMT
  <2>2. b * (q + 1) = b * q + b /\ b * c \in Int /\ b * q \in Int
    BY <1>1, SMT
  <2> QED
    BY <1>1, <2>1, <2>2, SMT
<1>3. ASSUME ~ (q < c) PROVE ~ (a < b * c)
  <2>1. b * c <= b * q
    BY <1>1, <1>3, SMT
  <2>2. b * c \in Int /\ b * q \in Int
    BY <1>1, SMT
  <2> QED
    BY <1>1, <2>1, <2>2, SMT
<1> QED
  BY <1>2, <1>3 DEF q

------------------------------------------------------------------------------
(* Zeros.  Of the W bits of x, m are still to be looked at and the rest    *)
(* are r zeros and the sh bits shifted out.                                *)
ZeroState == [x : Nat, r : Nat]

Leads(x, s, m) ==
  /\ s \in ZeroState /\ s.x < pow2[m]
  /\ \E sh \in 0 .. W : /\ s.x = x \div pow2[sh] /\ s.r + sh + m = W
                        /\ sh > 0 => s.x > 0

LEMMA Halves ==
  ASSUME NEW k \in {2, 4, 8, 16}, k < W
  PROVE  2 * k <= W /\ pow2[2 * k] = pow2[k] * pow2[k] /\ pow2[k] \in Nat /\ pow2[k] >= 1
<1>1. 2 * k <= W /\ k \in Nat /\ k + k = 2 * k /\ k + k <= 2 * W /\ k \in 0 .. 2 * W
  BY KlibAssumption, SMT
<1> QED
  BY <1>1, Pow2, Pow2Add

LEMMA ClzStep ==
  ASSUME NEW x \in Nat, NEW k \in {2, 4, 8, 16}, k < W, NEW s, Leads(x, s, 2 * k)
  PROVE  Leads(x, clz(s, k), k)
<1>1. s \in ZeroState /\ s.x \in Nat /\ s.r \in Nat /\ s.x < pow2[2 * k]
  BY DEF Leads, ZeroState
<1>2. PICK sh \in 0 .. W : /\ s.x = x \div pow2[sh] /\ s.r + sh + 2 * k = W
                           /\ sh > 0 => s.x > 0
  BY DEF Leads
<1>3. 2 * k <= W /\ pow2[2 * k] = pow2[k] * pow2[k] /\ pow2[k] \in Nat /\ pow2[k] >= 1 /\ k \in Nat
  BY Halves
<1>4. ~ (k >= W) /\ sh \in Nat /\ sh \in 0 .. 2 * W
  BY <1>3, WIs, SMT
<1>5. s.x \div pow2[k] \in Nat /\ s.x \div pow2[k] < pow2[k]
  <2>1. s.x \div pow2[k] \in Nat
    BY <1>1, <1>3, DivNat
  <2>2. s.x \div pow2[k] < pow2[k]
    BY <1>1, <1>3, DivLess
  <2> QED
    BY <2>1, <2>2
<1>6. CASE s.x \div pow2[k] = 0
  <2>1. clz(s, k) = [s EXCEPT !.r = @ + k]
    BY <1>4, <1>6 DEF clz, Shr
  <2>2. clz(s, k) = [x |-> s.x, r |-> s.r + k]
    BY <1>1, <2>1 DEF ZeroState
  <2>3. s.x < pow2[k]
    <3>1. s.x < pow2[k] * 1
      <4>1. s.x \div pow2[k] < 1
        BY <1>6, SMT
      <4>2. 1 \in Nat
        BY SMT
      <4> QED
        BY <1>1, <1>3, <4>1, <4>2, DivLess
    <3> QED
      BY <1>1, <1>3, <3>1, SMT
  <2>4. s.r + k \in Nat /\ (s.r + k) + sh + k = W
    BY <1>1, <1>2, <1>3, <1>4, WIs, SMT
  <2>5. clz(s, k).x = s.x /\ clz(s, k).r = s.r + k /\ clz(s, k) \in ZeroState
    BY <1>1, <2>2, <2>4 DEF ZeroState
  <2> QED
    BY <1>2, <2>3, <2>4, <2>5 DEF Leads
<1>7. CASE s.x \div pow2[k] # 0
  <2>1. clz(s, k) = [s EXCEPT !.x = s.x \div pow2[k]]
    BY <1>4, <1>7 DEF clz, Shr
  <2>2. clz(s, k) = [x |-> s.x \div pow2[k], r |-> s.r]
    BY <1>1, <2>1 DEF ZeroState
  <2>3. clz(s, k).x = s.x \div pow2[k] /\ clz(s, k).r = s.r /\ clz(s, k) \in ZeroState
    BY <1>1, <1>5, <2>2 DEF ZeroState
  <2>4. sh + k \in 0 .. W /\ s.r + (sh + k) + k = W /\ sh + k <= 2 * W
    BY <1>1, <1>2, <1>3, <1>4, WIs, SMT
  <2>5. s.x \div pow2[k] = x \div pow2[sh + k]
    <3>1. pow2[sh] \in Nat /\ pow2[sh] >= 1
      BY <1>4, Pow2
    <3>2. (x \div pow2[sh]) \div pow2[k] = x \div (pow2[sh] * pow2[k])
      BY <1>3, <3>1, DivDiv
    <3>3. pow2[sh + k] = pow2[sh] * pow2[k]
      BY <1>3, <1>4, <2>4, Pow2Add
    <3> QED
      BY <1>2, <3>2, <3>3
  <2>6. s.x \div pow2[k] > 0
    BY <1>5, <1>7, SMT
  <2> QED
    BY <1>5, <2>3, <2>4, <2>5, <2>6 DEF Leads
<1> QED
  BY <1>6, <1>7

(* The steps there are, whatever the width: m is what is left before it.   *)
Left(k) == IF k >= W THEN W ELSE k

LEMMA ClzSteps ==
  ASSUME NEW x \in Nat, NEW k \in {2, 4, 8, 16}, NEW s, Leads(x, s, Left(2 * k))
  PROVE  Leads(x, clz(s, k), Left(k))
<1>1. CASE k >= W
  <2>1. clz(s, k) = s
    BY <1>1 DEF clz
  <2>2. Left(2 * k) = W /\ Left(k) = W
    <3>1. 2 * k >= W
      BY <1>1, WIs, SMT
    <3> QED
      BY <1>1, <3>1 DEF Left
  <2> QED
    BY <2>1, <2>2
<1>2. CASE ~ (k >= W)
  <2>1. k < W
    BY <1>2, WIs, SMT
  <2>2. Left(k) = k
    BY <1>2 DEF Left
  <2>3. Left(2 * k) = 2 * k
    <3>1. 2 * k <= W
      BY <2>1, Halves
    <3>2. (2 * k >= W) => W = 2 * k
      BY <3>1, WIs, SMT
    <3> QED
      BY <3>2 DEF Left
  <2> QED
    BY <2>1, <2>2, <2>3, ClzStep
<1> QED
  BY <1>1, <1>2

LEMMA Clz ==
  ASSUME NEW x \in 1 .. B - 1
  PROVE  /\ __clzsi2(x) \in 0 .. W - 1
         /\ pow2[W - 1 - __clzsi2(x)] <= x /\ x < pow2[W - __clzsi2(x)]
<1> DEFINE s0 == [x |-> x, r |-> 0]
           s1 == clz(s0, 16)
           s2 == clz(s1, 8)
           s3 == clz(s2, 4)
           s == clz(s3, 2)
           c == __clzsi2(x)
<1>0. x \in Nat /\ x >= 1 /\ x < B /\ B = pow2[W] /\ B \in Nat
  <2>1. B \in Nat /\ B = pow2[W]
    BY Words
  <2> QED
    BY <2>1, SMT
<1>1. Leads(x, s0, Left(2 * 16))
  <2>1. Left(2 * 16) = W
    <3>1. 2 * 16 >= W
      BY WIs, SMT
    <3> QED
      BY <3>1 DEF Left
  <2>2. s0 \in ZeroState /\ s0.x = x /\ s0.r = 0
    <3>1. 0 \in Nat
      BY SMT
    <3> QED
      BY <1>0, <3>1 DEF ZeroState
  <2>3. x \div pow2[0] = x
    <3>1. pow2[0] = 1
      BY Pow2
    <3>2. x \div 1 = x
      BY <1>0, SMT
    <3> QED
      BY <3>1, <3>2
  <2>4. 0 \in 0 .. W /\ 0 + 0 + W = W /\ ~ (0 > 0)
    BY WIs, SMT
  <2> HIDE DEF s0
  <2>5. s0.x < pow2[W]
    BY <1>0, <2>2
  <2> QED
    BY <2>1, <2>2, <2>3, <2>4, <2>5 DEF Leads
<1>2. Leads(x, s1, Left(2 * 8))
  <2>1. Left(16) = Left(2 * 8)
    OBVIOUS
  <2> HIDE DEF s0
  <2> QED
    BY <1>0, <1>1, <2>1, ClzSteps
<1>3. Leads(x, s2, Left(2 * 4))
  <2>1. Left(8) = Left(2 * 4)
    OBVIOUS
  <2> HIDE DEF s1
  <2> QED
    BY <1>0, <1>2, <2>1, ClzSteps
<1>4. Leads(x, s3, Left(2 * 2))
  <2>1. Left(4) = Left(2 * 2)
    OBVIOUS
  <2> HIDE DEF s2
  <2> QED
    BY <1>0, <1>3, <2>1, ClzSteps
<1>5. Leads(x, s, 2)
  <2>1. Left(2) = 2
    <3>1. ~ (2 >= W)
      BY WIs, SMT
    <3> QED
      BY <3>1 DEF Left
  <2> HIDE DEF s3
  <2> QED
    BY <1>0, <1>4, <2>1, ClzSteps
<1>6. c = IF s.x >= 2 THEN s.r ELSE s.r + 2 - s.x
  BY DEF __clzsi2
<1> HIDE DEF s, c
<1>7. s.x \in Nat /\ s.r \in Nat /\ s.x < 4
  <2>1. s.x \in Nat /\ s.r \in Nat /\ s.x < pow2[2]
    BY <1>5 DEF Leads, ZeroState
  <2>2. pow2[2] = 4
    <3>1. 2 \in 1 .. 2 * W /\ 1 \in 1 .. 2 * W /\ 2 - 1 = 1 /\ 1 - 1 = 0
      BY WIs, SMT
    <3>2. pow2[2] = 2 * pow2[1] /\ pow2[1] = 2 * pow2[0] /\ pow2[0] = 1
      BY <3>1, Pow2
    <3> QED
      BY <3>2, SMT
  <2> QED
    BY <2>1, <2>2
<1>8. PICK sh \in 0 .. W : s.x = x \div pow2[sh] /\ s.r + sh + 2 = W /\ (sh > 0 => s.x > 0)
  BY <1>5 DEF Leads
<1>9. /\ sh \in 0 .. 2 * W /\ sh + 1 \in 1 .. 2 * W /\ sh + 2 \in 1 .. 2 * W
      /\ (sh + 1) - 1 = sh /\ (sh + 2) - 1 = sh + 1
      /\ s.r = W - 2 - sh /\ s.r \in 0 .. W - 2
  BY <1>7, <1>8, WIs, SMT
<1>10. /\ pow2[sh + 1] = 2 * pow2[sh] /\ pow2[sh + 2] = 2 * pow2[sh + 1]
       /\ pow2[sh] \in Nat /\ pow2[sh] >= 1
  BY <1>9, Pow2
<1>11. /\ x = pow2[sh] * s.x + (x % pow2[sh]) /\ x % pow2[sh] \in Int
       /\ 0 <= x % pow2[sh] /\ x % pow2[sh] < pow2[sh]
  <2>1. x \in Int
    BY <1>0, SMT
  <2>2. /\ x = pow2[sh] * (x \div pow2[sh]) + (x % pow2[sh]) /\ x % pow2[sh] \in Int
        /\ 0 <= x % pow2[sh] /\ x % pow2[sh] < pow2[sh]
    BY <1>10, <2>1, DivMod
  <2> QED
    BY <1>8, <2>2
<1>12. s.x # 0
  <2> SUFFICES ASSUME s.x = 0
               PROVE  FALSE
    OBVIOUS
  <2>1. sh = 0
    BY <1>8, SMT
  <2>2. pow2[sh] = 1
    BY <2>1, Pow2
  <2> QED
    BY <1>0, <1>11, <2>2, SMT
<1>13. CASE s.x = 1
  <2>1. c = s.r + 1
    BY <1>6, <1>7, <1>13, SMT
  <2>2. W - 1 - c = sh /\ W - c = sh + 1 /\ c \in 0 .. W - 1
    BY <1>9, <2>1, WIs, SMT
  <2>3. pow2[sh] <= x /\ x < pow2[sh + 1]
    BY <1>0, <1>10, <1>11, <1>13, SMT
  <2> QED
    BY <2>2, <2>3 DEF c
<1>14. CASE s.x \in {2, 3}
  <2>1. c = s.r
    <3>1. s.x >= 2
      BY <1>14, SMT
    <3> QED
      BY <1>6, <3>1
  <2>2. W - 1 - c = sh + 1 /\ W - c = sh + 2 /\ c \in 0 .. W - 1
    BY <1>9, <2>1, WIs, SMT
  <2>3. pow2[sh + 1] <= x /\ x < pow2[sh + 2]
    BY <1>0, <1>10, <1>11, <1>14, SMT
  <2> QED
    BY <2>2, <2>3 DEF c
<1>15. s.x = 1 \/ s.x \in {2, 3}
  BY <1>7, <1>12, SMT
<1> QED
  BY <1>13, <1>14, <1>15

(* The zeros on the right: what is left of x is not all zeros in its m     *)
(* lowest bits.                                                            *)
Trails(x, s, m) ==
  /\ s \in ZeroState /\ s.x % pow2[m] # 0
  /\ s.r + m <= W /\ x = s.x * pow2[s.r]

LEMMA CtzStep ==
  ASSUME NEW x \in Nat, NEW k \in {2, 4, 8, 16}, k < W, NEW s, Trails(x, s, 2 * k)
  PROVE  Trails(x, ctz(s, k), k)
<1>1. s \in ZeroState /\ s.x \in Nat /\ s.r \in Nat /\ s.x % pow2[2 * k] # 0
      /\ s.r + 2 * k <= W /\ x = s.x * pow2[s.r]
  BY DEF Trails, ZeroState
<1>2. 2 * k <= W /\ pow2[2 * k] = pow2[k] * pow2[k] /\ pow2[k] \in Nat /\ pow2[k] >= 1 /\ k \in Nat
  BY Halves
<1>3. ~ (k >= W)
  BY <1>2, WIs, SMT
<1>4. CASE s.x % pow2[k] # 0
  <2>1. ctz(s, k) = s
    BY <1>4 DEF ctz
  <2>2. s.r + k <= W
    BY <1>1, <1>2, WIs, SMT
  <2> QED
    BY <1>1, <1>4, <2>1, <2>2 DEF Trails
<1>5. CASE s.x % pow2[k] = 0
  <2> DEFINE y == s.x \div pow2[k]
  <2>1. ctz(s, k) = [x |-> y, r |-> s.r + k]
    BY <1>3, <1>5 DEF ctz, Shr
  <2>2. y \in Nat /\ s.x = pow2[k] * y
    <3>1. y \in Nat
      BY <1>1, <1>2, DivNat
    <3>2. s.x \in Int
      BY <1>1, SMT
    <3>3. s.x = pow2[k] * y + 0
      BY <1>2, <1>5, <3>2, DivMod
    <3> HIDE DEF y
    <3> QED
      BY <1>2, <3>1, <3>3, SMT
  <2> HIDE DEF y
  <2>3. ctz(s, k) \in ZeroState /\ ctz(s, k).x = y /\ ctz(s, k).r = s.r + k
    <3>1. s.r + k \in Nat
      BY <1>1, <1>2, SMT
    <3> QED
      BY <2>1, <2>2, <3>1 DEF ZeroState
  <2>4. (s.r + k) + k <= W /\ s.r + k <= 2 * W
    BY <1>1, <1>2, WIs, SMT
  <2>5. x = y * pow2[s.r + k]
    <3>1. pow2[s.r + k] = pow2[s.r] * pow2[k]
      BY <1>1, <1>2, <2>4, Pow2Add
    <3>2. pow2[s.r] \in Nat
      <4>1. s.r \in 0 .. 2 * W
        BY <1>1, <1>2, WIs, SMT
      <4> QED
        BY <4>1, Pow2
    <3>3. \A a, b, c \in Nat : (a * b) * c = b * (c * a)
      BY SMT
    <3>4. x = (pow2[k] * y) * pow2[s.r]
      BY <1>1, <2>2
    <3> QED
      BY <1>2, <2>2, <3>1, <3>2, <3>3, <3>4
  <2>6. y % pow2[k] # 0
    <3> SUFFICES ASSUME y % pow2[k] = 0
                 PROVE  FALSE
      OBVIOUS
    <3> DEFINE z == y \div pow2[k]
    <3>1. z \in Nat /\ y = pow2[k] * z
      <4>1. z \in Nat
        BY <1>2, <2>2, DivNat
      <4>2. y \in Int
        BY <2>2, SMT
      <4>3. y = pow2[k] * z + (y % pow2[k])
        BY <1>2, <4>2, DivMod
      <4> HIDE DEF z
      <4> QED
        BY <1>2, <4>1, <4>3, SMT
    <3> HIDE DEF z
    <3>2. s.x = (pow2[k] * pow2[k]) * z + 0
      <4>1. s.x = pow2[k] * (pow2[k] * z)
        BY <2>2, <3>1
      <4> QED
        BY <1>2, <3>1, <4>1, SMT
    <3>3. pow2[2 * k] \in Nat /\ pow2[2 * k] >= 1
      <4>1. 2 * k \in 0 .. 2 * W
        BY <1>2, WIs, SMT
      <4> QED
        BY <4>1, Pow2
    <3>4. 0 \in Int /\ z \in Int /\ 0 <= 0 /\ 0 < pow2[2 * k]
      BY <3>1, <3>3, SMT
    <3>5. s.x = pow2[2 * k] * z + 0
      BY <1>2, <3>2
    <3>6. s.x % pow2[2 * k] = 0
      BY <3>3, <3>4, <3>5, DivUnique
    <3> QED
      BY <1>1, <3>6
  <2> QED
    BY <2>3, <2>4, <2>5, <2>6 DEF Trails
<1> QED
  BY <1>4, <1>5

LEMMA CtzSteps ==
  ASSUME NEW x \in Nat, NEW k \in {2, 4, 8, 16}, NEW s, Trails(x, s, Left(2 * k))
  PROVE  Trails(x, ctz(s, k), Left(k))
<1>1. CASE k >= W
  <2>1. ctz(s, k) = s
    BY <1>1 DEF ctz
  <2>2. Left(2 * k) = W /\ Left(k) = W
    <3>1. 2 * k >= W
      BY <1>1, WIs, SMT
    <3> QED
      BY <1>1, <3>1 DEF Left
  <2> QED
    BY <2>1, <2>2
<1>2. CASE ~ (k >= W)
  <2>1. k < W
    BY <1>2, WIs, SMT
  <2>2. Left(k) = k
    BY <1>2 DEF Left
  <2>3. Left(2 * k) = 2 * k
    <3>1. 2 * k <= W
      BY <2>1, Halves
    <3>2. (2 * k >= W) => W = 2 * k
      BY <3>1, WIs, SMT
    <3> QED
      BY <3>2 DEF Left
  <2> QED
    BY <2>1, <2>2, <2>3, CtzStep
<1> QED
  BY <1>1, <1>2

LEMMA Ctz ==
  ASSUME NEW x \in 1 .. B - 1
  PROVE  /\ __ctzsi2(x) \in 0 .. W - 1
         /\ \E y \in Nat : y % 2 = 1 /\ x = y * pow2[__ctzsi2(x)]
<1> DEFINE s0 == [x |-> x, r |-> 0]
           s1 == ctz(s0, 16)
           s2 == ctz(s1, 8)
           s3 == ctz(s2, 4)
           s == ctz(s3, 2)
           c == __ctzsi2(x)
<1>0. x \in Nat /\ x >= 1 /\ x < B /\ B = pow2[W] /\ B \in Nat
  <2>1. B \in Nat /\ B = pow2[W]
    BY Words
  <2> QED
    BY <2>1, SMT
<1>1. Trails(x, s0, Left(2 * 16))
  <2>1. Left(2 * 16) = W
    <3>1. 2 * 16 >= W
      BY WIs, SMT
    <3> QED
      BY <3>1 DEF Left
  <2>2. s0 \in ZeroState /\ s0.x = x /\ s0.r = 0
    <3>1. 0 \in Nat
      BY SMT
    <3> QED
      BY <1>0, <3>1 DEF ZeroState
  <2>3. x = x * pow2[0]
    <3>1. pow2[0] = 1
      BY Pow2
    <3>2. x = x * 1
      BY <1>0, SMT
    <3> QED
      BY <3>1, <3>2
  <2>4. 0 + W <= W
    BY WIs, SMT
  <2>5. x % B # 0
    BY <1>0, SMT
  <2> HIDE DEF s0
  <2> QED
    BY <1>0, <2>1, <2>2, <2>3, <2>4, <2>5 DEF Trails
<1>2. Trails(x, s1, Left(2 * 8))
  <2>1. Left(16) = Left(2 * 8)
    OBVIOUS
  <2> HIDE DEF s0
  <2> QED
    BY <1>0, <1>1, <2>1, CtzSteps
<1>3. Trails(x, s2, Left(2 * 4))
  <2>1. Left(8) = Left(2 * 4)
    OBVIOUS
  <2> HIDE DEF s1
  <2> QED
    BY <1>0, <1>2, <2>1, CtzSteps
<1>4. Trails(x, s3, Left(2 * 2))
  <2>1. Left(4) = Left(2 * 2)
    OBVIOUS
  <2> HIDE DEF s2
  <2> QED
    BY <1>0, <1>3, <2>1, CtzSteps
<1>5. Trails(x, s, 2)
  <2>1. Left(2) = 2
    <3>1. ~ (2 >= W)
      BY WIs, SMT
    <3> QED
      BY <3>1 DEF Left
  <2> HIDE DEF s3
  <2> QED
    BY <1>0, <1>4, <2>1, CtzSteps
<1>6. c = IF s.x % 2 = 1 THEN s.r ELSE s.r + 2 - (s.x % 4) \div 2
  BY DEF __ctzsi2
<1> HIDE DEF s, c
<1>7. s.x \in Nat /\ s.r \in Nat /\ s.x % 4 # 0 /\ s.r + 2 <= W /\ x = s.x * pow2[s.r]
  <2>1. pow2[2] = 4
    <3>1. 2 \in 1 .. 2 * W /\ 1 \in 1 .. 2 * W /\ 2 - 1 = 1 /\ 1 - 1 = 0
      BY WIs, SMT
    <3>2. pow2[2] = 2 * pow2[1] /\ pow2[1] = 2 * pow2[0] /\ pow2[0] = 1
      BY <3>1, Pow2
    <3> QED
      BY <3>2, SMT
  <2> QED
    BY <1>5, <2>1 DEF Trails, ZeroState
<1>8. CASE s.x % 2 = 1
  <2>1. c = s.r
    BY <1>6, <1>8
  <2>2. s.r \in 0 .. W - 1
    BY <1>7, WIs, SMT
  <2> QED
    BY <1>7, <1>8, <2>1, <2>2 DEF c
<1>9. CASE s.x % 2 # 1
  <2> DEFINE y == s.x \div 2
  <2>1. s.x = 2 * y /\ y \in Nat /\ y % 2 = 1 /\ (s.x % 4) \div 2 = 1
    BY <1>7, <1>9, SMT
  <2> HIDE DEF y
  <2>2. c = s.r + 1
    <3>1. s.r + 2 - 1 = s.r + 1
      BY <1>7, SMT
    <3> QED
      BY <1>6, <1>9, <2>1, <3>1
  <2>3. s.r + 1 \in 0 .. W - 1 /\ s.r + 1 \in 1 .. 2 * W /\ (s.r + 1) - 1 = s.r
        /\ s.r \in 0 .. 2 * W
    BY <1>7, WIs, SMT
  <2>4. pow2[s.r + 1] = 2 * pow2[s.r] /\ pow2[s.r] \in Nat
    BY <2>3, Pow2
  <2>5. x = y * pow2[s.r + 1]
    <3>1. \A a, b \in Nat : (2 * a) * b = a * (2 * b)
      BY SMT
    <3> QED
      BY <1>7, <2>1, <2>4, <3>1
  <2> QED
    BY <2>1, <2>2, <2>3, <2>5 DEF c
<1> QED
  BY <1>8, <1>9

------------------------------------------------------------------------------
(* The restoring loop.  With k steps to go, m are the low k bits of n, and *)
(* what is above them is r plus d times the quotient so far: 2l and the    *)
(* carry.  q holds m on top of l.                                          *)
LoopState == [q : 0 .. BB - 1, r : 0 .. BB - 1, carry : {0, 1}]

Divides(n, d, k, s, m, l) ==
  /\ s \in LoopState /\ s.r < d
  /\ n = (s.r + d * (2 * l + s.carry)) * pow2[k] + m /\ m < pow2[k]
  /\ s.q = m * pow2[2 * W - k] + l /\ l < pow2[2 * W - k]

Divided(n, d, k, s) == \E m, l \in Nat : Divides(n, d, k, s, m, l)

(* The sign of d - r - 1 is right: d is at most half a double word, or     *)
(* there is one step and r will be n, which is at least half of one.       *)
SignTells(n, d, sr) == d <= BB \div 2 \/ (sr = 1 /\ n >= BB \div 2)

LEMMA ModSmall ==
  ASSUME NEW x \in Nat, x < BB
  PROVE  x % BB = x
<1>1. BB \in Nat
  BY Words
<1> QED
  BY <1>1, SMT

LEMMA SignTest ==
  ASSUME NEW d \in Nat, NEW r \in Nat,
         -(BB \div 2) <= d - r - 1, d - r - 1 < BB \div 2
  PROVE  ((d - r - 1) % BB >= BB \div 2) <=> r >= d
<1> DEFINE H == BB \div 2
           t == d - r - 1
<1>1. BB = 2 * H /\ H \in Nat /\ BB \in Nat /\ BB >= 256
  BY Words
<1>2. t \in Int /\ -H <= t /\ t < H /\ (t < 0 <=> r >= d)
  <2> HIDE DEF H
  <2> QED
    BY <1>1, SMT DEF H
<1> HIDE DEF H, t
<1>3. CASE t < 0
  <2> DEFINE q == 0 - 1
             u == t + BB
  <2>1. t = BB * q + u /\ u \in Int /\ 0 <= u /\ u < BB /\ u >= H /\ q \in Int /\ BB >= 1
    BY <1>1, <1>2, <1>3, SMT
  <2> HIDE DEF q, u
  <2>2. t % BB = u
    BY <1>1, <2>1, DivUnique
  <2> QED
    BY <1>2, <1>3, <2>1, <2>2 DEF t, H
<1>4. CASE ~ (t < 0)
  <2>1. t \in Nat /\ t < BB /\ ~ (t >= H)
    BY <1>1, <1>2, <1>4, SMT
  <2>2. t % BB = t
    BY <2>1, ModSmall
  <2> QED
    BY <1>2, <1>4, <2>1, <2>2 DEF t, H
<1> QED
  BY <1>3, <1>4

LEMMA SubtractIs ==
  ASSUME NEW q, NEW r \in Nat, NEW d \in Nat, r < BB,
         -(BB \div 2) <= d - r - 1, d - r - 1 < BB \div 2
  PROVE  Subtract(q, r, d) = IF r >= d THEN [q |-> q, r |-> r - d, carry |-> 1]
                                       ELSE [q |-> q, r |-> r, carry |-> 0]
<1>1. ((d - r - 1) % BB >= BB \div 2) <=> r >= d
  BY SignTest
<1>2. CASE r >= d
  <2>1. r - d \in Nat /\ r - d < BB
    <3>1. BB \in Nat
      BY Words
    <3> QED
      BY <1>2, <3>1, SMT
  <2>2. (r - d) % BB = r - d
    BY <2>1, ModSmall
  <2> QED
    BY <1>1, <1>2, <2>2 DEF Subtract
<1>3. CASE ~ (r >= d)
  BY <1>1, <1>3 DEF Subtract
<1> QED
  BY <1>2, <1>3

(* The top bit of m, and what is below it, are those of q.                 *)
LEMMA TopBit ==
  ASSUME NEW k \in 1 .. 2 * W, NEW m \in Nat, m < pow2[k], NEW l \in Nat, l < pow2[2 * W - k],
         NEW c \in {0, 1}
  PROVE  \E b \in {0, 1}, m2 \in Nat :
           /\ m = b * pow2[k - 1] + m2 /\ m2 < pow2[k - 1]
           /\ (m * pow2[2 * W - k] + l) \div (BB \div 2) = b
           /\ ((m * pow2[2 * W - k] + l) * 2 + c) % BB = m2 * pow2[2 * W - (k - 1)] + (2 * l + c)
           /\ 2 * l + c < pow2[2 * W - (k - 1)] /\ 2 * l + c \in Nat
<1> DEFINE P == pow2[k - 1]
           R == pow2[2 * W - k]
           H == BB \div 2
           b == IF m >= P THEN 1 ELSE 0
           m2 == IF m >= P THEN m - P ELSE m
           rest == m2 * R + l
<1>1. /\ k - 1 \in 0 .. 2 * W /\ 2 * W - k \in 0 .. 2 * W
      /\ 2 * W - (k - 1) \in 1 .. 2 * W /\ (2 * W - (k - 1)) - 1 = 2 * W - k
      /\ k - 1 \in Nat /\ 2 * W - k \in Nat /\ (k - 1) + (2 * W - k) = 2 * W - 1
      /\ 2 * W - 1 <= 2 * W
  BY WIs, SMT
<1>2. P \in Nat /\ R \in Nat /\ P >= 1 /\ R >= 1
  BY <1>1, Pow2
<1>3. pow2[k] = 2 * P /\ pow2[2 * W - (k - 1)] = 2 * R
  BY <1>1, Pow2
<1>4. H = P * R /\ BB = 2 * H /\ H \in Nat /\ BB \in Nat
  <2>1. pow2[2 * W - 1] = P * R
    BY <1>1, Pow2Add
  <2> QED
    BY <2>1, Words
<1> HIDE DEF P, R, H
<1>5. b \in {0, 1} /\ m2 \in Nat /\ m = b * P + m2 /\ m2 < P
  <2>1. CASE m >= P
    BY <1>2, <1>3, <2>1, SMT
  <2>2. CASE ~ (m >= P)
    BY <1>2, <1>3, <2>2, SMT
  <2> QED
    BY <2>1, <2>2
<1> HIDE DEF b, m2
<1>6. rest \in Nat /\ rest < H /\ m * R + l = H * b + rest
  <2>1. m2 * R \in Nat /\ m2 * R <= (P - 1) * R /\ (P - 1) * R = P * R - R
    <3>1. \A x, y, z \in Nat : x <= y => x * z <= y * z
      BY SMT
    <3>2. P - 1 \in Nat /\ m2 <= P - 1
      BY <1>2, <1>5, SMT
    <3>3. m2 * R <= (P - 1) * R
      BY <1>2, <1>5, <3>1, <3>2
    <3>4. m2 * R \in Nat /\ (P - 1) * R = P * R - R
      BY <1>2, <1>5, SMT
    <3> QED
      BY <3>3, <3>4
  <2>2. l < R
    BY DEF R
  <2>3. rest \in Nat /\ rest < H
    BY <1>2, <1>4, <2>1, <2>2, SMT
  <2>4. m * R + l = (P * R) * b + (m2 * R + l)
    <3>1. (b * P + m2) * R = (P * R) * b + m2 * R
      <4>1. CASE b = 0
        BY <1>2, <1>5, <4>1, SMT
      <4>2. CASE b = 1
        BY <1>2, <1>5, <4>2, SMT
      <4> QED
        BY <1>5, <4>1, <4>2
    <3>2. m * R = (b * P + m2) * R
      BY <1>5
    <3>3. (P * R) * b \in Int /\ m2 * R \in Int
      BY <1>2, <1>5, SMT
    <3> QED
      BY <3>1, <3>2, <3>3, SMT
  <2> QED
    BY <1>4, <2>3, <2>4
<1> DEFINE x == m * R + l
<1> HIDE DEF rest, x
<1>7. x \div H = b
  <2>1. x = H * b + rest /\ H >= 1
    BY <1>4, <1>6, Words, SMT DEF x, H
  <2>2. b \in Int /\ rest \in Int /\ 0 <= rest
    BY <1>5, <1>6, SMT
  <2> QED
    BY <1>4, <1>6, <2>1, <2>2, DivUnique
<1>8. (x * 2 + c) % BB = 2 * rest + c
  <2>1. x * 2 + c = BB * b + (2 * rest + c) /\ 2 * rest + c \in Int /\ 0 <= 2 * rest + c
        /\ 2 * rest + c < BB
    <3>1. x = H * b + rest
      BY <1>6 DEF x
    <3>2. CASE b = 0
      BY <1>4, <1>6, <3>1, <3>2, SMT
    <3>3. CASE b = 1
      BY <1>4, <1>6, <3>1, <3>3, SMT
    <3> QED
      BY <1>5, <3>2, <3>3
  <2>2. b \in Int /\ BB >= 1
    BY <1>4, <1>5, Words, SMT
  <2> QED
    BY <1>4, <2>1, <2>2, DivUnique
<1>9. 2 * rest + c = m2 * (2 * R) + (2 * l + c) /\ 2 * l + c < 2 * R /\ 2 * l + c \in Nat
  <2>1. 2 * (m2 * R + l) = m2 * (2 * R) + 2 * l
    BY <1>2, <1>5, SMT
  <2>2. l < R /\ m2 * (2 * R) \in Int
    <3>1. l < R
      BY DEF R
    <3> QED
      BY <1>2, <1>5, <3>1, SMT
  <2>3. 2 * rest = m2 * (2 * R) + 2 * l
    BY <2>1 DEF rest
  <2> QED
    BY <1>2, <1>6, <2>2, <2>3, SMT
<1> QED
  <2>1. m = b * pow2[k - 1] + m2 /\ m2 < pow2[k - 1]
    BY <1>5 DEF P
  <2>2. (m * pow2[2 * W - k] + l) \div (BB \div 2) = b
    BY <1>7 DEF x, H, R
  <2>3. ((m * pow2[2 * W - k] + l) * 2 + c) % BB = m2 * pow2[2 * W - (k - 1)] + (2 * l + c)
    BY <1>3, <1>8, <1>9 DEF x, R
  <2>4. 2 * l + c < pow2[2 * W - (k - 1)] /\ 2 * l + c \in Nat
    BY <1>3, <1>9
  <2> QED
    BY <1>5, <2>1, <2>2, <2>3, <2>4

LEMMA LoopStep ==
  ASSUME NEW n \in 0 .. BB - 1, NEW d \in 1 .. BB - 1, NEW sr \in 1 .. 2 * W - 1,
         NEW k \in 1 .. sr, NEW s, Divided(n, d, k, s), SignTells(n, d, sr)
  PROVE  ShiftLeft(s, d) \in LoopState /\ Divided(n, d, k - 1, ShiftLeft(s, d))
<1> DEFINE H == BB \div 2
           P == pow2[k - 1]
<1>0. /\ n \in Nat /\ n < BB /\ d \in Nat /\ d >= 1 /\ d < BB
      /\ k \in 1 .. 2 * W /\ k \in Nat /\ k - 1 \in 0 .. 2 * W /\ k >= 1
  <2>1. BB \in Nat
    BY Words
  <2> QED
    BY <2>1, WIs, SMT
<1>1. BB = 2 * H /\ H \in Nat /\ BB \in Nat
  BY Words
<1>2. PICK m, l \in Nat : Divides(n, d, k, s, m, l)
  BY DEF Divided
<1> DEFINE c == s.carry
           Q == 2 * l + c
<1>3. /\ s \in LoopState /\ s.r < d
      /\ n = (s.r + d * Q) * pow2[k] + m /\ m < pow2[k]
      /\ s.q = m * pow2[2 * W - k] + l /\ l < pow2[2 * W - k]
  BY <1>2 DEF Divides
<1>4. s.q \in 0 .. BB - 1 /\ s.r \in 0 .. BB - 1 /\ c \in {0, 1}
  BY <1>3 DEF LoopState
<1> HIDE DEF c
<1>5. PICK b \in {0, 1}, m2 \in Nat :
        /\ m = b * pow2[k - 1] + m2 /\ m2 < pow2[k - 1]
        /\ (m * pow2[2 * W - k] + l) \div (BB \div 2) = b
        /\ ((m * pow2[2 * W - k] + l) * 2 + c) % BB = m2 * pow2[2 * W - (k - 1)] + (2 * l + c)
        /\ 2 * l + c < pow2[2 * W - (k - 1)] /\ 2 * l + c \in Nat
  <2>1. k \in 1 .. 2 * W /\ m < pow2[k] /\ l < pow2[2 * W - k] /\ c \in {0, 1}
    BY <1>0, <1>3, <1>4
  <2> QED
    BY ONLY <2>1, TopBit, m \in Nat, l \in Nat
<1>6. pow2[k] = 2 * P /\ P \in Nat /\ P >= 1
  BY <1>0, Pow2
<1>7. s.r \in Nat /\ Q \in Nat /\ b \in Nat
  BY <1>1, <1>4, <1>5, SMT
<1> DEFINE r2 == s.r * 2 + b
           y == s.r + d * Q
<1> HIDE DEF Q, P, H
<1>8. y \in Nat /\ n = (2 * y + b) * P + m2 /\ y >= s.r /\ 2 * y + b <= n /\ (Q >= 1 => y >= d)
  <2>1. d * Q \in Nat /\ (Q >= 1 => d * Q >= d)
    BY <1>0, <1>7, SMT
  <2>2. y \in Nat /\ y >= s.r /\ (Q >= 1 => y >= d)
    BY <1>0, <1>7, <2>1, SMT
  <2> HIDE DEF y
  <2>3. n = y * (2 * P) + (b * P + m2)
    BY <1>3, <1>5, <1>6 DEF y, Q, P
  <2>4. y * (2 * P) + (b * P + m2) = (2 * y + b) * P + m2
    BY <1>5, <1>6, <1>7, <2>2, SMT
  <2>5. (2 * y + b) * P >= 2 * y + b
    <3>1. 2 * y + b \in Nat
      BY <1>7, <2>2, SMT
    <3>2. \A u, v \in Nat : v >= 1 => u * v \in Nat /\ u * v >= u
      BY SMT
    <3> QED
      BY <1>6, <3>1, <3>2
  <2>6. 2 * y + b <= n
    <3>1. (2 * y + b) * P \in Int /\ 2 * y + b \in Int
      BY <1>6, <1>7, <2>2, SMT
    <3> QED
      BY <2>3, <2>4, <2>5, <3>1, SMT
  <2> QED
    BY <2>2, <2>3, <2>4, <2>6
<1>9. r2 \in Nat /\ r2 < 2 * d /\ r2 < BB
  <2>1. r2 \in Nat /\ r2 < 2 * d
    BY <1>0, <1>3, <1>5, <1>7, SMT
  <2>2. r2 <= 2 * y + b
    BY <1>7, <1>8, SMT
  <2> HIDE DEF r2, y
  <2> QED
    BY <1>0, <1>1, <1>7, <1>8, <2>1, <2>2, SMT
<1>10. -H <= d - r2 - 1 /\ d - r2 - 1 < H
  <2>1. CASE d <= H
    <3> HIDE DEF r2
    <3> QED
      BY <1>0, <1>1, <1>9, <2>1, SMT
  <2>2. CASE sr = 1 /\ n >= H /\ ~ (d <= H)
    <3>1. k = 1
      BY <1>0, <2>2, SMT
    <3>2. P = 1
      <4>1. k - 1 = 0
        BY <3>1, SMT
      <4> QED
        BY <4>1, Pow2 DEF P
    <3>3. m2 = 0
      <4>1. m2 < P
        BY <1>5 DEF P
      <4> QED
        BY <3>2, <4>1, SMT
    <3>4. Q = 0
      <4> SUFFICES ASSUME Q # 0
                   PROVE  FALSE
        OBVIOUS
      <4>1. Q >= 1
        BY <1>7, SMT
      <4>2. y >= d
        BY <1>8, <4>1
      <4> HIDE DEF y
      <4> QED
        BY <1>0, <1>1, <1>7, <1>8, <2>2, <4>2, SMT
    <3>5. y = s.r
      BY <1>0, <1>7, <3>4, SMT
    <3>6. n = r2
      <4>1. n = (2 * s.r + b) * 1 + 0
        BY <1>8, <3>2, <3>3, <3>5
      <4> QED
        BY <1>7, <4>1, SMT
    <3> HIDE DEF r2
    <3> QED
      BY <1>0, <1>1, <2>2, <3>6, SMT
  <2>3. d <= H \/ (sr = 1 /\ n >= H)
    BY DEF SignTells, H
  <2> QED
    BY <2>1, <2>2, <2>3
<1> DEFINE l2 == 2 * l + c
           q2 == m2 * pow2[2 * W - (k - 1)] + l2
           t == ShiftLeft(s, d)
<1>11. t = IF r2 >= d THEN [q |-> q2, r |-> r2 - d, carry |-> 1]
                      ELSE [q |-> q2, r |-> r2, carry |-> 0]
  <2>1. (s.q * 2 + c) % BB = q2 /\ s.q \div H = b
    BY <1>3, <1>5 DEF H
  <2>2. (s.r * 2 + s.q \div H) % BB = r2
    BY <1>9, <2>1, ModSmall
  <2>3. t = Subtract(q2, r2, d)
    BY <2>1, <2>2 DEF ShiftLeft, H, c
  <2> HIDE DEF r2, q2, t
  <2> QED
    BY <1>0, <1>9, <1>10, <2>3, SubtractIs DEF H
<1> HIDE DEF t, r2
<1>12. q2 \in 0 .. BB - 1
  <2>1. (s.q * 2 + c) % BB = q2
    BY <1>3, <1>5
  <2>2. s.q * 2 + c \in Int /\ BB >= 1
    BY <1>1, <1>4, Words, SMT
  <2>3. (s.q * 2 + c) % BB \in Int /\ 0 <= (s.q * 2 + c) % BB /\ (s.q * 2 + c) % BB < BB
    BY <1>1, <2>2, DivMod
  <2> HIDE DEF q2
  <2> QED
    BY <1>1, <2>1, <2>3, SMT
<1> HIDE DEF q2
<1>13. /\ t \in LoopState /\ t.r < d /\ t.q = q2
       /\ t.carry \in {0, 1} /\ t.r \in Nat /\ r2 = t.r + d * t.carry
  <2>1. CASE r2 >= d
    <3>1. t = [q |-> q2, r |-> r2 - d, carry |-> 1]
      BY <1>11, <2>1
    <3>2. r2 - d \in 0 .. BB - 1 /\ r2 - d < d /\ r2 - d \in Nat /\ r2 = (r2 - d) + d * 1
      BY <1>0, <1>1, <1>9, <2>1, SMT
    <3>3. t \in LoopState
      BY <1>12, <3>1, <3>2 DEF LoopState
    <3>4. t.q = q2 /\ t.r = r2 - d /\ t.carry = 1
      BY <3>1
    <3> QED
      BY <3>2, <3>3, <3>4
  <2>2. CASE ~ (r2 >= d)
    <3>1. t = [q |-> q2, r |-> r2, carry |-> 0]
      BY <1>11, <2>2
    <3>2. r2 \in 0 .. BB - 1 /\ r2 < d /\ r2 = r2 + d * 0
      BY <1>0, <1>1, <1>9, <2>2, SMT
    <3>3. t \in LoopState
      BY <1>12, <3>1, <3>2 DEF LoopState
    <3>4. t.q = q2 /\ t.r = r2 /\ t.carry = 0
      BY <3>1
    <3> QED
      BY <1>9, <3>2, <3>3, <3>4
  <2> QED
    BY <2>1, <2>2
<1>14. n = (t.r + d * (2 * l2 + t.carry)) * P + m2
  <2>1. l2 = Q
    BY DEF Q
  <2>2. 2 * y + b = t.r + d * (2 * Q + t.carry)
    <3>1. s.r * 2 + b = t.r + d * t.carry
      BY <1>13 DEF r2
    <3>2. t.carry \in Nat
      BY <1>13, SMT
    <3>3. 2 * (s.r + d * Q) + b = (s.r * 2 + b) + d * (2 * Q)
      BY <1>0, <1>7, SMT
    <3>4. (t.r + d * t.carry) + d * (2 * Q) = t.r + d * (2 * Q + t.carry)
      BY <1>0, <1>7, <1>13, <3>2, SMT
    <3> QED
      BY <3>1, <3>3, <3>4
  <2> QED
    BY <1>8, <2>1, <2>2
<1> QED
  <2>1. l2 \in Nat /\ l2 < pow2[2 * W - (k - 1)] /\ m2 < P
    BY <1>5 DEF P
  <2>2. t.q = m2 * pow2[2 * W - (k - 1)] + l2
    BY <1>13 DEF q2
  <2>3. Divides(n, d, k - 1, t, m2, l2)
    <3> HIDE DEF l2
    <3> QED
      BY <1>13, <1>14, <2>1, <2>2 DEF Divides, P
  <2>4. Divided(n, d, k - 1, t)
    <3> HIDE DEF l2
    <3> QED
      BY <2>1, <2>3 DEF Divided
  <2> QED
    BY <1>13, <2>4 DEF t

LEMMA ModRange ==
  ASSUME NEW x \in Int
  PROVE  x % BB \in 0 .. BB - 1
<1>1. BB \in Nat /\ BB >= 1
  BY Words, SMT
<1>2. x % BB \in Int /\ 0 <= x % BB /\ x % BB < BB
  BY <1>1, DivMod
<1> QED
  BY <1>1, <1>2, SMT

LEMMA ShiftLeftState ==
  ASSUME NEW s \in LoopState, NEW d \in Nat
  PROVE  ShiftLeft(s, d) \in LoopState
<1>1. s.q \in Int /\ s.r \in Int /\ s.carry \in Int
  <2>1. s.q \in 0 .. BB - 1 /\ s.r \in 0 .. BB - 1 /\ s.carry \in {0, 1}
    BY DEF LoopState
  <2>2. BB \in Nat
    BY Words
  <2> QED
    BY <2>1, <2>2, SMT
<1> DEFINE q2 == (s.q * 2 + s.carry) % BB
           r2 == (s.r * 2 + s.q \div (BB \div 2)) % BB
<1>2. q2 \in 0 .. BB - 1
  <2>1. s.q * 2 + s.carry \in Int
    BY <1>1, SMT
  <2> QED
    BY <2>1, ModRange
<1>3. r2 \in 0 .. BB - 1
  <2>1. BB \div 2 \in Nat /\ BB \div 2 >= 1
    BY Words, SMT
  <2>2. s.q \div (BB \div 2) \in Int
    BY <1>1, <2>1, DivMod
  <2>3. s.r * 2 + s.q \div (BB \div 2) \in Int
    BY <1>1, <2>2, SMT
  <2> QED
    BY <2>3, ModRange
<1> HIDE DEF q2, r2
<1>4. (r2 - d) % BB \in 0 .. BB - 1
  <2>1. BB \in Nat
    BY Words
  <2>2. r2 - d \in Int
    BY <1>3, <2>1, SMT
  <2> QED
    BY <2>2, ModRange
<1>5. Subtract(q2, r2, d) \in LoopState
  BY <1>2, <1>3, <1>4 DEF Subtract, LoopState
<1> QED
  BY <1>5 DEF ShiftLeft, q2, r2

LEMMA RestoringIs ==
  ASSUME NEW n \in 0 .. BB - 1, NEW d \in 1 .. BB - 1, NEW sr \in 1 .. 2 * W - 1,
         SignTells(n, d, sr), n \div pow2[sr] < d,
         NEW q, q = (n % pow2[sr]) * pow2[2 * W - sr], NEW r, r = n \div pow2[sr]
  PROVE  Restoring(q, r, d, sr) = [q |-> n \div d, r |-> n % d]
<1> DEFINE s0 == [q |-> q, r |-> r, carry |-> 0]
           V == LoopState
           G == [x \in V \X (1 .. sr) |-> ShiftLeft(x[1], d)]
           D == 0 .. sr
           Is(f) == f = [i \in D |-> IF i = 0 THEN s0 ELSE ShiftLeft(f[i - 1], d)]
           after == CHOOSE f : Is(f)
<1>0. /\ n \in Nat /\ n < BB /\ d \in Nat /\ d >= 1 /\ d < BB /\ sr \in Nat
      /\ sr \in 0 .. 2 * W /\ 2 * W - sr \in 0 .. 2 * W /\ sr \in Nat /\ 2 * W - sr \in Nat
      /\ sr + (2 * W - sr) = 2 * W /\ BB \in Nat
  <2>1. BB \in Nat
    BY Words
  <2> QED
    BY <2>1, WIs, SMT
<1>1. /\ pow2[sr] \in Nat /\ pow2[sr] >= 1
      /\ pow2[2 * W - sr] \in Nat /\ pow2[2 * W - sr] >= 1
      /\ BB = pow2[sr] * pow2[2 * W - sr]
  <2>1. pow2[2 * W] = pow2[sr] * pow2[2 * W - sr]
    <3>1. pow2[sr + (2 * W - sr)] = pow2[sr] * pow2[2 * W - sr]
      <4>1. sr + (2 * W - sr) <= 2 * W
        BY <1>0, SMT
      <4> QED
        BY <1>0, <4>1, Pow2Add
    <3> QED
      BY <1>0, <3>1
  <2> QED
    BY <1>0, <2>1, Pow2, Words
<1> DEFINE m == n % pow2[sr]
<1>2. m \in 0 .. pow2[sr] - 1 /\ m \in Nat /\ m < pow2[sr] /\ r \in Nat
      /\ n = pow2[sr] * r + m
  <2>1. m \in 0 .. pow2[sr] - 1 /\ r \in Nat
    BY <1>0, <1>1, DivNat
  <2>2. n = pow2[sr] * r + m
    <3>1. n \in Int
      BY <1>0, SMT
    <3> QED
      BY <1>1, <3>1, DivMod
  <2> HIDE DEF m
  <2> QED
    BY <1>1, <2>1, <2>2, SMT
<1> HIDE DEF m
<1>3. q \in 0 .. BB - 1 /\ q = m * pow2[2 * W - sr] + 0
  <2>1. \A x, y, z \in Nat : x < y /\ z >= 1 => x * z < y * z /\ x * z \in Nat
    BY SMT
  <2>2. m * pow2[2 * W - sr] < BB /\ m * pow2[2 * W - sr] \in Nat
    BY <1>1, <1>2, <2>1
  <2>3. q = m * pow2[2 * W - sr]
    BY DEF m
  <2> QED
    BY <1>0, <2>2, <2>3, SMT
<1>4. s0 \in V /\ s0.q = q /\ s0.r = r /\ s0.carry = 0
  <2>1. r \in 0 .. BB - 1
    BY <1>0, <1>2, SMT
  <2> QED
    BY <1>3, <2>1 DEF LoopState
<1>5. Divided(n, d, sr, s0)
  <2>1. 0 \in Nat
    BY SMT
  <2>2. n = (r + d * (2 * 0 + 0)) * pow2[sr] + m
    BY <1>0, <1>1, <1>2, SMT
  <2>3. 0 < pow2[2 * W - sr]
    BY <1>1, SMT
  <2>4. s0 \in LoopState
    BY <1>4
  <2> HIDE DEF s0
  <2>5. Divides(n, d, sr, s0, m, 0)
    BY <1>2, <1>3, <1>4, <2>2, <2>3, <2>4 DEF Divides
  <2> QED
    BY <1>2, <2>1, <2>5 DEF Divided
<1> HIDE DEF s0
<1>6. \E f : Is(f)
  <2>1. G \in [V \X (1 .. sr) -> V]
    <3>1. \A x \in V \X (1 .. sr) : ShiftLeft(x[1], d) \in V
      BY <1>0, ShiftLeftState
    <3> QED
      BY <3>1
  <2>2. PICK f \in [0 .. sr -> V] : IsLoop(f, sr, s0, G)
    <3> HIDE DEF G, V
    <3> QED
      BY <1>0, <1>4, <2>1, Iteration
  <2>3. \A i \in D : (IF i = 0 THEN s0 ELSE G[<<f[i - 1], i>>])
                       = IF i = 0 THEN s0 ELSE ShiftLeft(f[i - 1], d)
    <3> TAKE i \in D
    <3>1. CASE i # 0
      <4>1. i - 1 \in 0 .. sr /\ i \in 1 .. sr
        BY <1>0, <3>1, SMT
      <4>2. <<f[i - 1], i>> \in V \X (1 .. sr)
        BY <4>1
      <4> HIDE DEF V
      <4> QED
        BY <3>1, <4>2
    <3> QED
      BY <3>1
  <2>4. f = [i \in D |-> IF i = 0 THEN s0 ELSE G[<<f[i - 1], i>>]]
    BY <2>2 DEF IsLoop
  <2>5. Is(f)
    <3> HIDE DEF G
    <3> QED
      BY <2>3, <2>4
  <2> HIDE DEF Is
  <2> QED
    BY <2>5
<1>7. Is(after)
  <2> HIDE DEF Is
  <2> QED
    BY <1>6
<1> HIDE DEF after
<1>8. after[0] = s0 /\ \A i \in 1 .. sr : after[i] = ShiftLeft(after[i - 1], d)
  <2>1. \A i \in 1 .. sr : i \in D /\ i # 0
    BY <1>0, SMT
  <2>2. 0 \in D
    BY <1>0, SMT
  <2> HIDE DEF D
  <2> QED
    BY <1>7, <2>1, <2>2
<1> DEFINE S == {i \in 0 .. sr : Divided(n, d, sr - i, after[i])}
<1>9. 0 .. sr \subseteq S
  <2>1. 0 \in S
    <3>1. 0 \in 0 .. sr /\ sr - 0 = sr
      BY <1>0, SMT
    <3> QED
      BY <1>5, <1>8, <3>1
  <2>2. ASSUME NEW i \in 0 .. sr - 1, i \in S
        PROVE  i + 1 \in S
    <3>1. i + 1 \in 0 .. sr /\ i + 1 \in 1 .. sr /\ (i + 1) - 1 = i
          /\ sr - i \in 1 .. sr /\ (sr - i) - 1 = sr - (i + 1)
      BY <1>0, SMT
    <3>2. after[i + 1] = ShiftLeft(after[i], d)
      BY <1>8, <3>1
    <3>3. Divided(n, d, sr - i, after[i])
      BY <2>2
    <3>4. Divided(n, d, (sr - i) - 1, ShiftLeft(after[i], d))
      BY <3>1, <3>3, LoopStep
    <3>5. Divided(n, d, sr - (i + 1), after[i + 1])
      BY <3>1, <3>2, <3>4
    <3> QED
      BY <3>1, <3>5
  <2> HIDE DEF S
  <2> QED
    BY <1>0, <2>1, <2>2, UpTo
<1>10. Divided(n, d, 0, after[sr])
  <2>1. sr \in 0 .. sr /\ sr - sr = 0
    BY <1>0, SMT
  <2>2. Divided(n, d, sr - sr, after[sr])
    BY <1>9, <2>1
  <2> QED
    BY <2>1, <2>2
<1> DEFINE s == after[sr]
<1>11. PICK m2, l \in Nat : Divides(n, d, 0, s, m2, l)
  BY <1>10 DEF Divided
<1>12. /\ s \in LoopState /\ s.r < d /\ m2 < pow2[0]
       /\ n = (s.r + d * (2 * l + s.carry)) * pow2[0] + m2
       /\ s.q = m2 * pow2[2 * W - 0] + l
  BY <1>11 DEF Divides
<1>13. pow2[0] = 1
  BY Pow2
<1>14. s.q \in 0 .. BB - 1 /\ s.r \in 0 .. BB - 1 /\ s.carry \in {0, 1}
  BY <1>12 DEF LoopState
<1> HIDE DEF s
<1>15. s.r \in Nat /\ s.carry \in Nat
  BY <1>0, <1>14, SMT
<1> DEFINE Q == 2 * l + s.carry
<1>16. Q \in Nat
  BY <1>15, SMT
<1> HIDE DEF Q
<1>17. m2 = 0 /\ s.q = l
  <2>1. m2 = 0
    BY <1>12, <1>13, SMT
  <2>2. 2 * W - 0 = 2 * W /\ pow2[2 * W] \in Nat
    BY <1>0, Words, WIs, SMT
  <2> QED
    BY <1>12, <2>1, <2>2, SMT
<1>18. n = d * Q + s.r
  <2>1. n = (s.r + d * Q) * 1 + 0
    BY <1>12, <1>13, <1>17 DEF Q
  <2>2. d * Q \in Nat
    BY <1>0, <1>16, SMT
  <2> QED
    BY <1>15, <2>1, <2>2, SMT
<1>19. n \div d = Q /\ n % d = s.r
  <2>1. Q \in Int /\ s.r \in Int /\ 0 <= s.r
    BY <1>15, <1>16, SMT
  <2>2. d \in Nat /\ d >= 1 /\ s.r < d
    BY <1>0, <1>12
  <2>3. QuotRem(n, d, Q, s.r)
    BY <1>18, <2>1, <2>2, DivUnique
  <2> QED
    BY <2>3 DEF QuotRem
<1>20. (s.q * 2 + s.carry) % BB = Q
  <2>1. s.q * 2 + s.carry = Q
    BY <1>15, <1>17, SMT DEF Q
  <2>2. Q <= n
    <3>1. d * Q >= Q /\ d * Q \in Nat
      BY <1>0, <1>16, SMT
    <3> QED
      BY <1>15, <1>16, <1>18, <3>1, SMT
  <2>3. Q < BB
    BY <1>0, <1>16, <2>2, SMT
  <2> QED
    BY <1>16, <2>1, <2>3, ModSmall
<1>21. Restoring(q, r, d, sr) = [q |-> (s.q * 2 + s.carry) % BB, r |-> s.r]
  BY DEF Restoring, s, after, s0
<1> QED
  BY <1>19, <1>20, <1>21

LEMMA HighLow ==
  ASSUME NEW n \in 0 .. BB - 1
  PROVE  /\ High(n) \in 0 .. B - 1 /\ Low(n) \in 0 .. B - 1 /\ n = B * High(n) + Low(n)
         /\ High(n) \in Nat /\ Low(n) \in Nat /\ High(n) < B /\ Low(n) < B /\ n \in Nat /\ n < BB
<1>1. B \in Nat /\ B >= 1 /\ BB \in Nat /\ BB = B * B
  BY Words, SMT
<1>2. n \in Nat /\ n < BB
  BY <1>1, SMT
<1>3. High(n) \in Nat /\ Low(n) \in 0 .. B - 1
  BY <1>1, <1>2, DivNat DEF High, Low
<1>4. High(n) < B
  <2>1. n < B * B
    BY <1>1, <1>2
  <2> QED
    BY <1>1, <1>2, <2>1, DivLess DEF High
<1>5. n = B * High(n) + Low(n)
  <2>1. n \in Int
    BY <1>2, SMT
  <2> QED
    BY <1>1, <2>1, DivMod DEF High, Low
<1>6. High(n) \in 0 .. B - 1 /\ Low(n) \in Nat /\ Low(n) < B
  BY <1>1, <1>3, <1>4, SMT
<1> QED
  BY <1>2, <1>3, <1>4, <1>5, <1>6

(* What a shift to the left keeps are the low bits.                        *)
LEMMA ShlIs ==
  ASSUME NEW x \in Nat, NEW k \in 1 .. W - 1
  PROVE  /\ Shl(x, W - k) = (x % pow2[k]) * pow2[W - k]
         /\ x = pow2[k] * (x \div pow2[k]) + (x % pow2[k])
         /\ x \div pow2[k] \in Nat /\ x % pow2[k] \in Nat /\ x % pow2[k] < pow2[k]
         /\ pow2[k] \in Nat /\ pow2[k] >= 1 /\ pow2[W - k] \in Nat /\ pow2[W - k] >= 1
         /\ B = pow2[k] * pow2[W - k]
         /\ Shr(x, k) = x \div pow2[k]
<1> DEFINE P == pow2[k]
           R == pow2[W - k]
           u == x \div P
           v == x % P
<1>0. /\ k \in Nat /\ W - k \in Nat /\ k + (W - k) = W /\ k + (W - k) <= 2 * W
      /\ k \in 0 .. 2 * W /\ W - k \in 0 .. 2 * W
  BY WIs, SMT
<1>1. P \in Nat /\ P >= 1 /\ R \in Nat /\ R >= 1 /\ B = P * R
  <2>1. pow2[k + (W - k)] = P * R
    BY <1>0, Pow2Add
  <2> QED
    BY <1>0, <2>1, Pow2, Words
<1> HIDE DEF P, R
<1>2. x = P * u + v /\ u \in Nat /\ v \in Nat /\ v < P
  <2>1. u \in Nat /\ v \in 0 .. P - 1
    BY <1>1, DivNat
  <2>2. x \in Int
    BY SMT
  <2>3. x = P * u + v
    BY <1>1, <2>2, DivMod
  <2> HIDE DEF u, v
  <2> QED
    BY <1>1, <2>1, <2>3, SMT
<1> HIDE DEF u, v
<1>3. (x * R) % B = v * R
  <2>1. x * R = B * u + v * R
    <3>1. (P * u + v) * R = (P * R) * u + v * R
      BY <1>1, <1>2, SMT
    <3> QED
      BY <1>1, <1>2, <3>1
  <2>2. v * R \in Nat /\ v * R < B
    <3>1. \A a, b, c \in Nat : a < b /\ c >= 1 => a * c < b * c /\ a * c \in Nat
      BY SMT
    <3> QED
      BY <1>1, <1>2, <3>1
  <2>3. B \in Nat /\ B >= 1 /\ u \in Int /\ v * R \in Int /\ 0 <= v * R
    BY <1>2, <2>2, Words, SMT
  <2>4. QuotRem(x * R, B, u, v * R)
    BY <2>1, <2>2, <2>3, DivUnique
  <2> QED
    BY <2>4 DEF QuotRem
<1>4. Shl(x, W - k) = v * R
  BY <1>3 DEF Shl, R
<1> QED
  BY <1>1, <1>2, <1>4 DEF P, R, u, v, Shr

LEMMA BeginIs ==
  ASSUME NEW n \in 0 .. BB - 1, NEW d, NEW sr \in 1 .. 2 * W - 1
  PROVE  Begin(High(n), Low(n), d, sr)
           = Restoring((n % pow2[sr]) * pow2[2 * W - sr], n \div pow2[sr], d, sr)
<1> DEFINE nh == High(n)
           nl == Low(n)
<1>0. /\ nh \in Nat /\ nl \in Nat /\ nh < B /\ nl < B /\ n = B * nh + nl /\ n \in Nat
      /\ B \in Nat /\ B >= 1 /\ B = pow2[W]
  BY HighLow, Words, SMT
<1> HIDE DEF nh, nl
<1>1. CASE sr < W
  <2> DEFINE P == pow2[sr]
             R == pow2[W - sr]
             s == nh \div P
             t == nh % P
             u == nl \div P
             v == nl % P
  <2>1. sr \in 1 .. W - 1 /\ 2 * W - sr = (W - sr) + W /\ W - sr \in Nat /\ W \in Nat
        /\ (W - sr) + W <= 2 * W
    BY <1>1, WIs, SMT
  <2>2. Shl(nl, W - sr) = v * R /\ nl = P * u + v /\ u \in Nat /\ v \in Nat /\ v < P
        /\ P \in Nat /\ P >= 1 /\ R \in Nat /\ R >= 1 /\ B = P * R /\ Shr(nl, sr) = u
    BY <1>0, <2>1, ShlIs
  <2>3. Shl(nh, W - sr) = t * R /\ nh = P * s + t /\ s \in Nat /\ t \in Nat /\ t < P
        /\ Shr(nh, sr) = s
    BY <1>0, <2>1, ShlIs
  <2>4. pow2[2 * W - sr] = R * B
    BY <1>0, <2>1, Pow2Add
  <2> HIDE DEF P, R, s, t, u, v
  <2>5. n = P * (nh * R + u) + v
    <3>1. n = (P * R) * nh + (P * u + v)
      BY <1>0, <2>2
    <3>2. (P * R) * nh + (P * u + v) = P * (nh * R + u) + v
      BY <1>0, <2>2, SMT
    <3> QED
      BY <3>1, <3>2
  <2>6. n \div P = nh * R + u /\ n % P = v
    <3>1. nh * R + u \in Int /\ v \in Int /\ 0 <= v
      BY <1>0, <2>2, SMT
    <3>2. QuotRem(n, P, nh * R + u, v)
      BY <2>2, <2>5, <3>1, DivUnique
    <3> QED
      BY <3>2 DEF QuotRem
  <2>7. s * B + t * R + u = nh * R + u
    <3>1. s * (P * R) + t * R = (P * s + t) * R
      BY <2>2, <2>3, SMT
    <3> QED
      BY <2>2, <2>3, <3>1
  <2>8. (v * R) * B = v * (R * B)
    BY <1>0, <2>2, SMT
  <2>9. Begin(nh, nl, d, sr) = Restoring((v * R) * B, s * B + t * R + u, d, sr)
    BY <1>1, <2>2, <2>3 DEF Begin
  <2>10. n % pow2[sr] = v /\ n \div pow2[sr] = nh * R + u
    BY <2>6 DEF P
  <2> QED
    BY <2>4, <2>7, <2>8, <2>9, <2>10 DEF nh, nl
<1>2. CASE sr = W
  <2>1. 2 * W - sr = W /\ ~ (sr < W)
    BY <1>2, WIs, SMT
  <2>2. n \div B = nh /\ n % B = nl
    BY DEF nh, nl, High, Low
  <2>3. Begin(nh, nl, d, sr) = Restoring(nl * B, nh, d, sr)
    BY <1>2, <2>1 DEF Begin
  <2> QED
    BY <1>0, <1>2, <2>1, <2>2, <2>3 DEF nh, nl
<1>3. CASE sr > W
  <2> DEFINE k == sr - W
             P == pow2[k]
             R == pow2[W - k]
             s == nh \div P
             t == nh % P
             u == nl \div P
             v == nl % P
  <2>1. k \in 1 .. W - 1 /\ 2 * W - sr = W - k /\ sr = k + W /\ k \in Nat /\ W \in Nat
        /\ k + W <= 2 * W /\ ~ (sr < W) /\ ~ (sr = W)
    BY <1>3, WIs, SMT
  <2> HIDE DEF k
  <2>2. Shl(nl, W - k) = v * R /\ nl = P * u + v /\ u \in Nat /\ v \in Nat /\ v < P
        /\ P \in Nat /\ P >= 1 /\ R \in Nat /\ R >= 1 /\ B = P * R /\ Shr(nl, k) = u
    BY <1>0, <2>1, ShlIs
  <2>3. Shl(nh, W - k) = t * R /\ nh = P * s + t /\ s \in Nat /\ t \in Nat /\ t < P
        /\ Shr(nh, k) = s
    BY <1>0, <2>1, ShlIs
  <2>4. pow2[sr] = P * B
    <3>1. pow2[k + W] = P * B
      BY <1>0, <2>1, Pow2Add
    <3> QED
      BY <2>1, <3>1
  <2>5. pow2[2 * W - sr] = R
    BY <2>1
  <2> HIDE DEF P, R, s, t, u, v
  <2>6. n = (P * B) * s + (t * B + nl)
    <3>1. B * (P * s + t) + nl = (P * B) * s + (t * B + nl)
      BY <1>0, <2>2, <2>3, SMT
    <3> QED
      BY <1>0, <2>3, <3>1
  <2>7. t * B + nl \in Nat /\ t * B + nl < P * B /\ P * B \in Nat /\ P * B >= 1
    <3>1. \A a, b, c \in Nat : a <= b => a * c <= b * c /\ a * c \in Nat
      BY SMT
    <3>2. t \in Nat /\ P - 1 \in Nat /\ t <= P - 1
      BY <2>2, <2>3, SMT
    <3>3. t * B <= (P - 1) * B /\ t * B \in Nat
      BY <1>0, <3>1, <3>2
    <3>4. (P - 1) * B = P * B - B /\ P * B \in Nat
      BY <1>0, <2>2, SMT
    <3>5. t * B + nl \in Nat /\ t * B + nl < P * B
      BY <1>0, <3>3, <3>4, SMT
    <3> QED
      BY <3>4, <3>5, SMT
  <2>8. n \div (P * B) = s /\ n % (P * B) = t * B + nl
    <3>1. s \in Int /\ t * B + nl \in Int /\ 0 <= t * B + nl
      BY <2>3, <2>7, SMT
    <3>2. QuotRem(n, P * B, s, t * B + nl)
      BY <2>6, <2>7, <3>1, DivUnique
    <3> QED
      BY <3>2 DEF QuotRem
  <2>9. (t * B + nl) * R = (t * R + u) * B + v * R
    <3>1. (t * B + (P * u + v)) * R = (t * R) * B + (P * R) * u + v * R
      BY <1>0, <2>2, <2>3, SMT
    <3>2. (t * R + u) * B + v * R = (t * R) * B + B * u + v * R
      BY <1>0, <2>2, <2>3, SMT
    <3> QED
      BY <2>2, <3>1, <3>2
  <2>10. Begin(nh, nl, d, sr) = Restoring((t * R + u) * B + v * R, s, d, sr)
    <3>1. Shl(nh, 2 * W - sr) = t * R /\ Shl(nl, 2 * W - sr) = v * R
      BY <2>1, <2>2, <2>3
    <3>2. Shr(nl, sr - W) = u /\ Shr(nh, sr - W) = s
      BY <2>2, <2>3 DEF k
    <3>3. Begin(nh, nl, d, sr)
            = Restoring((Shl(nh, 2 * W - sr) + Shr(nl, sr - W)) * B + Shl(nl, 2 * W - sr),
                        Shr(nh, sr - W), d, sr)
      BY <2>1 DEF Begin
    <3> QED
      BY <3>1, <3>2, <3>3
  <2> QED
    BY <2>4, <2>5, <2>8, <2>9, <2>10 DEF nh, nl
<1>4. sr < W \/ sr = W \/ sr > W
  BY WIs, SMT
<1> QED
  BY <1>1, <1>2, <1>3, <1>4

------------------------------------------------------------------------------
(* The cases of the division.                                              *)
QR(n, d) == [q |-> n \div d, r |-> n % d]

LEMMA LeadingBounds ==
  ASSUME NEW n \in 0 .. BB - 1, High(n) # 0
  PROVE  /\ High(n) \in 1 .. B - 1 /\ __clzsi2(High(n)) \in 0 .. W - 1
         /\ pow2[2 * W - 1 - __clzsi2(High(n))] <= n
         /\ n < pow2[2 * W - __clzsi2(High(n))]
<1> DEFINE h == High(n)
           c == __clzsi2(h)
           P == pow2[W - 1 - c]
           R == pow2[W - c]
<1>1. /\ h \in Nat /\ Low(n) \in Nat /\ Low(n) < B /\ n = B * h + Low(n) /\ h < B /\ h >= 1
      /\ B \in Nat /\ B = pow2[W] /\ n \in Nat
  <2>1. h \in Nat /\ Low(n) \in Nat /\ Low(n) < B /\ n = B * h + Low(n) /\ h < B /\ n \in Nat
    BY HighLow
  <2>2. h >= 1
    BY <2>1, SMT
  <2> QED
    BY <2>1, <2>2, Words
<1> HIDE DEF h
<1>2. h \in 1 .. B - 1
  BY <1>1, SMT
<1>3. c \in 0 .. W - 1 /\ P <= h /\ h < R
  BY <1>2, Clz
<1> HIDE DEF c
<1>4. /\ W - 1 - c \in Nat /\ W - c \in Nat /\ W \in Nat
      /\ W + (W - 1 - c) = 2 * W - 1 - c /\ W + (W - c) = 2 * W - c
      /\ W + (W - 1 - c) <= 2 * W /\ W + (W - c) <= 2 * W
      /\ W - 1 - c \in 0 .. 2 * W /\ W - c \in 0 .. 2 * W
  BY <1>3, WIs, SMT
<1>5. /\ pow2[2 * W - 1 - c] = B * P /\ pow2[2 * W - c] = B * R /\ P \in Nat /\ R \in Nat
  <2>1. pow2[W + (W - 1 - c)] = B * P /\ pow2[W + (W - c)] = B * R
    BY <1>1, <1>4, Pow2Add
  <2> QED
    BY <1>4, <2>1, Pow2
<1> HIDE DEF P, R
<1>6. \A x, y, z \in Nat : x <= y => z * x <= z * y
  BY SMT
<1>7. B * P <= n
  <2>1. B * P <= B * h /\ B * P \in Nat /\ B * h \in Nat
    BY <1>1, <1>3, <1>5, <1>6, SMT
  <2> QED
    BY <1>1, <2>1, SMT
<1>8. n < B * R
  <2>1. h + 1 \in Nat /\ h + 1 <= R
    BY <1>1, <1>3, <1>5, SMT
  <2>2. B * (h + 1) <= B * R
    BY <1>1, <1>5, <1>6, <2>1
  <2>3. B * (h + 1) = B * h + B /\ B * R \in Nat /\ B * h \in Nat
    BY <1>1, <1>5, SMT
  <2> QED
    BY <1>1, <2>2, <2>3, SMT
<1> QED
  BY <1>2, <1>3, <1>5, <1>7, <1>8 DEF h, c

LEMMA SmallerThan ==
  ASSUME NEW n \in Nat, NEW d \in Nat, n < d
  PROVE  QR(n, d) = [q |-> 0, r |-> n]
<1>1. n = d * 0 + n /\ 0 \in Int /\ n \in Int /\ 0 <= n /\ d >= 1
  BY SMT
<1>2. QuotRem(n, d, 0, n)
  BY <1>1, DivUnique
<1> QED
  BY <1>2 DEF QuotRem, QR

LEMMA Pow2Leq ==
  ASSUME NEW i \in Nat, NEW j \in Nat, i <= j, j <= 2 * W
  PROVE  pow2[i] <= pow2[j]
<1>1. i \in 0 .. 2 * W /\ j \in 0 .. 2 * W
  BY WIs, SMT
<1>2. pow2[i] \in Nat /\ pow2[j] \in Nat
  BY <1>1, Pow2
<1>3. CASE i < j
  <2>1. pow2[i] < pow2[j]
    BY <1>3, Pow2Less
  <2> QED
    BY <1>2, <2>1, SMT
<1>4. CASE i = j
  BY <1>2, <1>4, SMT
<1> QED
  BY <1>3, <1>4, SMT

LEMMA RangeOf ==
  ASSUME NEW d \in 1 .. BB - 1
  PROVE  d \in 0 .. BB - 1 /\ d \in Nat /\ d >= 1 /\ d < BB
<1>1. BB \in Nat
  BY Words
<1> QED
  BY <1>1, SMT

LEMMA LargeDivisorIs ==
  ASSUME NEW n \in 0 .. BB - 1, NEW d \in 1 .. BB - 1, High(n) # 0, High(d) # 0,
         NEW most, most = W - 1 \/ (most = W - 2 /\ __clzsi2(High(d)) # W - 1)
  PROVE  LargeDivisor(n, d, __clzsi2(High(d)) - __clzsi2(High(n)), most) = QR(n, d)
<1> DEFINE cn == __clzsi2(High(n))
           cd == __clzsi2(High(d))
           sr == cd - cn
<1>0. n \in Nat /\ d \in Nat /\ d \in 0 .. BB - 1 /\ d < BB /\ BB \in Nat
  BY RangeOf, HighLow, Words
<1>1. cn \in 0 .. W - 1 /\ pow2[2 * W - 1 - cn] <= n /\ n < pow2[2 * W - cn]
  BY LeadingBounds
<1>2. cd \in 0 .. W - 1 /\ pow2[2 * W - 1 - cd] <= d /\ d < pow2[2 * W - cd]
  BY <1>0, LeadingBounds
<1>3. cd # W - 1 \/ most = W - 1
  OBVIOUS
<1> HIDE DEF cn, cd
<1>4. /\ sr \in Int /\ ~ (sr > most) /\ sr \in -W .. W - 1
      /\ 2 * W - cn \in Nat /\ 2 * W - 1 - cd \in Nat /\ 2 * W - cd \in Nat
      /\ 2 * W - 1 - cd <= 2 * W /\ 2 * W - cd <= 2 * W /\ 2 * W - cn <= 2 * W
      /\ 2 * W - cn \in 0 .. 2 * W /\ 2 * W - 1 - cd \in 0 .. 2 * W
      /\ 2 * W - cd \in 0 .. 2 * W
  BY <1>1, <1>2, <1>3, WIs, SMT
<1>5. pow2[2 * W - cn] \in Nat /\ pow2[2 * W - 1 - cd] \in Nat /\ pow2[2 * W - cd] \in Nat
  BY <1>4, Pow2
<1>6. CASE sr < 0
  <2>1. 2 * W - cn <= 2 * W - 1 - cd
    BY <1>1, <1>2, <1>6, WIs, SMT
  <2>2. pow2[2 * W - cn] <= pow2[2 * W - 1 - cd]
    BY <1>4, <2>1, Pow2Leq
  <2>3. n < d
    BY <1>0, <1>1, <1>2, <1>5, <2>2, SMT
  <2>4. LargeDivisor(n, d, sr, most) = [q |-> 0, r |-> n]
    BY <1>6 DEF LargeDivisor
  <2> QED
    BY <1>0, <2>3, <2>4, SmallerThan DEF cn, cd
<1>7. CASE ~ (sr < 0)
  <2> DEFINE k == sr + 1
  <2>1. /\ k \in 1 .. 2 * W - 1 /\ k \in Nat /\ k + (2 * W - 1 - cd) = 2 * W - cn
        /\ k + (2 * W - 1 - cd) <= 2 * W /\ k \in 0 .. 2 * W
    BY <1>1, <1>2, <1>4, <1>7, WIs, SMT
  <2>2. LargeDivisor(n, d, sr, most) = Begin(High(n), Low(n), d, k)
    BY <1>4, <1>7 DEF LargeDivisor
  <2>3. ASSUME cd = 0
        PROVE  SignTells(n, d, k)
    <3>1. cn = 0 /\ k = 1
      BY <1>1, <1>2, <1>7, <2>3, WIs, SMT
    <3>2. 2 * W - 1 - cn = 2 * W - 1
      BY <3>1, WIs, SMT
    <3>3. pow2[2 * W - 1 - cn] = BB \div 2
      BY <3>2, Words
    <3>4. n >= BB \div 2
      <4>1. BB \div 2 <= n /\ BB \div 2 \in Nat
        BY <1>1, <3>3, Words
      <4> QED
        BY <1>0, <4>1, SMT
    <3> QED
      BY <3>1, <3>4 DEF SignTells
  <2>4. SignTells(n, d, k)
    <3>1. CASE cd # 0
      <4>1. 2 * W - cd <= 2 * W - 1 /\ 2 * W - 1 \in Nat /\ 2 * W - 1 <= 2 * W
        BY <1>2, <3>1, WIs, SMT
      <4>2. pow2[2 * W - cd] <= pow2[2 * W - 1]
        BY <1>4, <4>1, Pow2Leq
      <4>3. BB \div 2 = pow2[2 * W - 1] /\ BB \div 2 \in Nat
        BY Words
      <4>4. d <= BB \div 2
        BY <1>0, <1>2, <1>5, <4>2, <4>3, SMT
      <4> QED
        BY <4>4 DEF SignTells
    <3> QED
      BY <2>3, <3>1
  <2> HIDE DEF k
  <2>5. n \div pow2[k] < d
    <3>1. pow2[k] \in Nat /\ pow2[k] >= 1
      BY <2>1, Pow2
    <3>2. pow2[k + (2 * W - 1 - cd)] = pow2[k] * pow2[2 * W - 1 - cd]
      BY <1>4, <2>1, Pow2Add
    <3>3. n < pow2[k] * pow2[2 * W - 1 - cd]
      BY <1>1, <2>1, <3>2
    <3>4. n \div pow2[k] < pow2[2 * W - 1 - cd]
      BY <1>0, <1>5, <3>1, <3>3, DivLess
    <3>5. n \div pow2[k] \in Nat
      BY <1>0, <3>1, DivNat
    <3> QED
      BY <1>0, <1>2, <1>5, <3>4, <3>5, SMT
  <2>6. Begin(High(n), Low(n), d, k)
          = Restoring((n % pow2[k]) * pow2[2 * W - k], n \div pow2[k], d, k)
    BY <2>1, BeginIs
  <2>7. Restoring((n % pow2[k]) * pow2[2 * W - k], n \div pow2[k], d, k) = QR(n, d)
    BY <2>1, <2>4, <2>5, RestoringIs DEF QR
  <2> QED
    BY <2>2, <2>6, <2>7 DEF cn, cd
<1> QED
  BY <1>6, <1>7

LEMMA CtzOfPower ==
  ASSUME NEW k \in 0 .. W - 1
  PROVE  /\ pow2[k] \in 1 .. B - 1 /\ __ctzsi2(pow2[k]) = k
<1> DEFINE x == pow2[k]
           c == __ctzsi2(x)
<1>1. k \in Nat /\ k \in 0 .. 2 * W /\ W \in Nat /\ k < W /\ W <= 2 * W
  BY WIs, SMT
<1>2. x \in Nat /\ x >= 1 /\ x < B /\ B \in Nat
  BY <1>1, Pow2, Pow2Less, Words
<1>3. x \in 1 .. B - 1
  BY <1>2, SMT
<1>4. c \in 0 .. W - 1 /\ \E y \in Nat : y % 2 = 1 /\ x = y * pow2[c]
  BY <1>3, Ctz
<1>5. PICK y \in Nat : y % 2 = 1 /\ x = y * pow2[c]
  BY <1>4
<1> HIDE DEF c
<1>6. c \in Nat /\ c \in 0 .. 2 * W /\ c <= 2 * W /\ c < W
  BY <1>4, WIs, SMT
<1>7. pow2[c] \in Nat /\ pow2[c] >= 1
  BY <1>6, Pow2
<1>8. CASE c < k
  <2> DEFINE j == k - c
             z == pow2[j - 1]
  <2>1. j \in Nat /\ j \in 1 .. 2 * W /\ c + j = k /\ c + j <= 2 * W /\ j - 1 \in 0 .. 2 * W
    BY <1>1, <1>6, <1>8, WIs, SMT
  <2>2. x = pow2[c] * pow2[j]
    <3>1. pow2[c + j] = pow2[c] * pow2[j]
      BY <1>6, <2>1, Pow2Add
    <3> QED
      BY <2>1, <3>1
  <2>3. pow2[j] = 2 * z /\ z \in Nat
    BY <2>1, Pow2
  <2> HIDE DEF j, z, x
  <2>4. y = 2 * z
    <3>1. y * pow2[c] = (2 * z) * pow2[c]
      <4>1. pow2[c] * (2 * z) = (2 * z) * pow2[c]
        BY <1>7, <2>3, SMT
      <4> QED
        BY <1>5, <2>2, <2>3, <4>1
    <3>2. \A u, v, w \in Nat : w >= 1 /\ u * w = v * w => u = v
      BY SMT
    <3>3. 2 * z \in Nat
      BY <2>3, SMT
    <3> QED
      BY <1>7, <3>1, <3>2, <3>3
  <2> QED
    BY <1>5, <2>3, <2>4, SMT
<1>9. CASE k < c
  <2>1. x < pow2[c]
    BY <1>1, <1>6, <1>9, Pow2Less
  <2>2. y >= 1
    BY <1>5, SMT
  <2>3. y * pow2[c] >= pow2[c]
    BY <1>7, <2>2, SMT
  <2> HIDE DEF x
  <2> QED
    BY <1>2, <1>5, <1>7, <2>1, <2>3, SMT
<1>10. CASE c = k
  BY <1>3, <1>10 DEF c
<1>11. c < k \/ k < c \/ c = k
  BY <1>1, <1>6, SMT
<1> QED
  BY <1>8, <1>9, <1>10, <1>11

(* A word that is no power of two has fewer than W - 1 leading zeros.      *)
LEMMA NotPower ==
  ASSUME NEW x \in 1 .. B - 1, ~ PowerOf2(x)
  PROVE  __clzsi2(x) # W - 1
<1> SUFFICES ASSUME __clzsi2(x) = W - 1
             PROVE  FALSE
  OBVIOUS
<1>1. W - 1 - (W - 1) = 0 /\ W - (W - 1) = 1 /\ 1 \in 1 .. 2 * W /\ 1 - 1 = 0 /\ 0 \in 0 .. W - 1
  BY WIs, SMT
<1>2. pow2[0] <= x /\ x < pow2[1]
  <2>1. pow2[W - 1 - __clzsi2(x)] <= x /\ x < pow2[W - __clzsi2(x)]
    BY Clz
  <2> QED
    BY <1>1, <2>1
<1>3. pow2[0] = 1 /\ pow2[1] = 2 * pow2[0]
  BY <1>1, Pow2
<1>4. x = 1
  <2>1. x \in Int
    BY Words, SMT
  <2> QED
    BY <1>2, <1>3, <2>1, SMT
<1> QED
  BY <1>1, <1>3, <1>4 DEF PowerOf2

LEMMA divide_K_K0Is ==
  ASSUME NEW n \in 0 .. BB - 1, NEW d \in 1 .. BB - 1, High(n) # 0, High(d) # 0, Low(d) = 0
  PROVE  divide_K_K0(n, d) = QR(n, d)
<1> DEFINE nh == High(n)
           nl == Low(n)
           dh == High(d)
           q == nh \div dh
           r == nh % dh
<1>0. d \in 0 .. BB - 1 /\ d \in Nat /\ d >= 1
  BY RangeOf
<1>1. nh \in Nat /\ nl \in Nat /\ nh < B /\ nl < B /\ n = B * nh + nl
  BY HighLow
<1>2. dh \in Nat /\ dh < B /\ d = B * dh + 0 /\ dh >= 1 /\ B \in Nat /\ B >= 1
  <2>1. dh \in Nat /\ dh < B /\ d = B * dh + 0
    BY <1>0, HighLow
  <2>2. dh >= 1
    BY <2>1, SMT
  <2> QED
    BY <2>1, <2>2, Words, SMT
<1>3. nh = dh * q + r /\ q \in Nat /\ r \in Nat /\ r < dh
  <2> HIDE DEF nh, dh
  <2>1. q \in Nat /\ r \in 0 .. dh - 1
    BY <1>1, <1>2, DivNat
  <2>2. nh \in Int
    BY <1>1, SMT
  <2>3. nh = dh * q + r
    BY <1>2, <2>2, DivMod
  <2> HIDE DEF q, r
  <2> QED
    BY <1>2, <2>1, <2>3, SMT
<1> HIDE DEF nh, nl, dh, q, r
<1>4. n \div d = q /\ n % d = r * B + nl
  <2>1. n = d * q + (r * B + nl)
    <3>1. B * (dh * q + r) + nl = (B * dh + 0) * q + (r * B + nl)
      BY <1>1, <1>2, <1>3, SMT
    <3> QED
      BY <1>1, <1>2, <1>3, <3>1
  <2>2. r * B + nl \in Nat /\ r * B + nl < d
    <3>1. \A a, b, c \in Nat : a <= b => a * c <= b * c /\ a * c \in Nat
      BY SMT
    <3>2. r <= dh - 1 /\ dh - 1 \in Nat
      BY <1>2, <1>3, SMT
    <3>3. r * B <= (dh - 1) * B /\ r * B \in Nat
      BY <1>2, <1>3, <3>1, <3>2
    <3>4. (dh - 1) * B = B * dh - B /\ B * dh \in Nat
      BY <1>2, SMT
    <3> QED
      BY <1>1, <1>2, <3>3, <3>4, SMT
  <2>3. q \in Int /\ r * B + nl \in Int /\ 0 <= r * B + nl
    BY <1>3, <2>2, SMT
  <2>4. QuotRem(n, d, q, r * B + nl)
    BY <1>0, <2>1, <2>2, <2>3, DivUnique
  <2> QED
    BY <2>4 DEF QuotRem
<1>5. QR(n, d) = [q |-> q, r |-> r * B + nl]
  BY <1>4 DEF QR
<1>6. CASE nl = 0
  <2>1. divide_K_K0(n, d) = [q |-> q, r |-> r * B]
    BY <1>6 DEF divide_K_K0, q, r, nh, dh, nl
  <2>2. r * B + nl = r * B
    BY <1>2, <1>3, <1>6, SMT
  <2> QED
    BY <1>5, <2>1, <2>2
<1>7. CASE nl # 0 /\ PowerOf2(dh)
  <2>1. PICK k \in 0 .. W - 1 : dh = pow2[k]
    BY <1>7 DEF PowerOf2
  <2>2. __ctzsi2(dh) = k
    BY <2>1, CtzOfPower
  <2>3. Shr(nh, __ctzsi2(dh)) = q
    BY <2>1, <2>2 DEF Shr, q
  <2>4. divide_K_K0(n, d) = [q |-> Shr(nh, __ctzsi2(dh)), r |-> r * B + nl]
    BY <1>7 DEF divide_K_K0, r, nh, dh, nl
  <2> QED
    BY <1>5, <2>3, <2>4
<1>8. CASE nl # 0 /\ ~ PowerOf2(dh)
  <2>1. dh \in 1 .. B - 1
    BY <1>2, SMT
  <2>2. __clzsi2(dh) # W - 1
    BY <1>8, <2>1, NotPower
  <2>3. divide_K_K0(n, d) = LargeDivisor(n, d, __clzsi2(High(d)) - __clzsi2(High(n)), W - 2)
    BY <1>8 DEF divide_K_K0, nl, dh
  <2>4. LargeDivisor(n, d, __clzsi2(High(d)) - __clzsi2(High(n)), W - 2) = QR(n, d)
    BY <2>2, LargeDivisorIs DEF dh
  <2> QED
    BY <2>3, <2>4
<1> QED
  BY <1>6, <1>7, <1>8

LEMMA divide_K_0KIs ==
  ASSUME NEW n \in 0 .. BB - 1, NEW d \in 1 .. B - 1, High(n) # 0
  PROVE  divide_K_0K(n, d) = QR(n, d)
<1> DEFINE nh == High(n)
           nl == Low(n)
<1>0. /\ d \in Nat /\ d >= 1 /\ d < B /\ B \in Nat /\ B >= 16 /\ B <= BB \div 2 /\ BB = B * B
      /\ d \in 1 .. BB - 1 /\ d <= BB \div 2
  <2>1. /\ B \in Nat /\ B >= 16 /\ BB = B * B
        /\ BB \in Nat /\ BB = 2 * (BB \div 2) /\ BB \div 2 \in Nat
    BY Words
  <2>2. d \in Nat /\ d >= 1 /\ d < B
    BY <2>1, SMT
  <2>3. B * B >= 16 * B
    BY <2>1, SMT
  <2>4. B <= BB \div 2
    BY <2>1, <2>3, SMT
  <2> QED
    BY <2>1, <2>2, <2>4, SMT
<1>1. /\ nh \in Nat /\ nl \in Nat /\ nh < B /\ nl < B /\ n = B * nh + nl /\ n \in Nat
  BY HighLow
<1> HIDE DEF nh, nl
<1>2. CASE PowerOf2(d)
  <2>1. PICK k \in 0 .. W - 1 : d = pow2[k]
    BY <1>2 DEF PowerOf2
  <2>2. __ctzsi2(d) = k
    BY <2>1, CtzOfPower
  <2>3. Shr(n, __ctzsi2(d)) = n \div d
    BY <2>1, <2>2 DEF Shr
  <2> DEFINE R == pow2[W - k]
             u == nl \div d
             v == nl % d
  <2>4. R \in Nat /\ B = d * R
    <3>1. k \in Nat /\ W - k \in Nat /\ k + (W - k) = W /\ k + (W - k) <= 2 * W
          /\ W - k \in 0 .. 2 * W
      BY WIs, SMT
    <3>2. pow2[k + (W - k)] = pow2[k] * pow2[W - k]
      BY <3>1, Pow2Add
    <3> QED
      BY <2>1, <3>1, <3>2, Pow2, Words
  <2>5. nl = d * u + v /\ u \in Nat /\ v \in Nat /\ v < d
    <3>1. u \in Nat /\ v \in 0 .. d - 1
      BY <1>0, <1>1, DivNat
    <3>2. nl \in Int
      BY <1>1, SMT
    <3>3. nl = d * u + v
      BY <1>0, <3>2, DivMod
    <3> HIDE DEF u, v
    <3> QED
      BY <1>0, <3>1, <3>3, SMT
  <2> HIDE DEF R, u, v
  <2>6. n % d = v
    <3>1. n = d * (R * nh + u) + v
      <4>1. (d * R) * nh + (d * u + v) = d * (R * nh + u) + v
        BY <1>0, <1>1, <2>4, <2>5, SMT
      <4> QED
        BY <1>1, <2>4, <2>5, <4>1
    <3>2. R * nh + u \in Int /\ v \in Int /\ 0 <= v
      BY <1>1, <2>4, <2>5, SMT
    <3>3. QuotRem(n, d, R * nh + u, v)
      BY <1>0, <2>5, <3>1, <3>2, DivUnique
    <3> QED
      BY <3>3 DEF QuotRem
  <2>7. divide_K_0K(n, d) = [q |-> Shr(n, __ctzsi2(d)), r |-> nl % d]
    BY <1>2 DEF divide_K_0K, nl
  <2> QED
    BY <2>3, <2>6, <2>7 DEF QR, v
<1>3. CASE ~ PowerOf2(d)
  <2> DEFINE cn == __clzsi2(High(n))
             cd == __clzsi2(d)
             sr == 1 + W + cd - cn
  <2>1. cn \in 0 .. W - 1 /\ n < pow2[2 * W - cn]
    BY LeadingBounds
  <2>2. cd \in 0 .. W - 1 /\ cd # W - 1 /\ pow2[W - 1 - cd] <= d
    BY <1>3, Clz, NotPower
  <2> HIDE DEF cn, cd
  <2>3. /\ sr \in 1 .. 2 * W - 1 /\ sr \in Nat /\ sr \in 0 .. 2 * W /\ W - 1 - cd \in Nat
        /\ sr + (W - 1 - cd) = 2 * W - cn /\ sr + (W - 1 - cd) <= 2 * W
        /\ W - 1 - cd \in 0 .. 2 * W
    BY <2>1, <2>2, WIs, SMT
  <2> HIDE DEF sr
  <2>4. n \div pow2[sr] < d
    <3>1. pow2[sr] \in Nat /\ pow2[sr] >= 1 /\ pow2[W - 1 - cd] \in Nat
      BY <2>3, Pow2
    <3>2. n < pow2[sr] * pow2[W - 1 - cd]
      <4>1. pow2[sr + (W - 1 - cd)] = pow2[sr] * pow2[W - 1 - cd]
        BY <2>3, Pow2Add
      <4> QED
        BY <2>1, <2>3, <4>1
    <3>3. n \div pow2[sr] < pow2[W - 1 - cd]
      BY <1>1, <3>1, <3>2, DivLess
    <3>4. n \div pow2[sr] \in Nat
      BY <1>1, <3>1, DivNat
    <3> QED
      BY <1>0, <2>2, <3>1, <3>3, <3>4, SMT
  <2>5. SignTells(n, d, sr)
    BY <1>0 DEF SignTells
  <2>6. Restoring((n % pow2[sr]) * pow2[2 * W - sr], n \div pow2[sr], d, sr) = QR(n, d)
    BY <1>0, <2>3, <2>4, <2>5, RestoringIs DEF QR
  <2>7. divide_K_0K(n, d) = Begin(High(n), Low(n), d, sr)
    BY <1>3 DEF divide_K_0K, sr, cn, cd
  <2>8. Begin(High(n), Low(n), d, sr)
          = Restoring((n % pow2[sr]) * pow2[2 * W - sr], n \div pow2[sr], d, sr)
    BY <2>3, BeginIs
  <2> QED
    BY <2>6, <2>7, <2>8
<1> QED
  BY <1>2, <1>3

(* The 64-bit division of int64.c, for a machine of W-bit words, is the    *)
(* division of numbers, in each of its cases.                              *)
THEOREM DivisionIs ==
  ASSUME NEW n \in 0 .. BB - 1, NEW d \in 1 .. BB - 1
  PROVE  __udivmoddi4(n, d) = QR(n, d)
<1>0. /\ d \in 0 .. BB - 1 /\ d \in Nat /\ d >= 1
      /\ n \in Nat /\ B \in Nat /\ B >= 16
      /\ High(n) \in Nat /\ Low(n) \in Nat /\ Low(n) < B /\ n = B * High(n) + Low(n)
      /\ High(d) \in Nat /\ Low(d) \in Nat /\ Low(d) < B /\ d = B * High(d) + Low(d)
  <2>1. d \in 0 .. BB - 1 /\ d \in Nat /\ d >= 1
    BY RangeOf
  <2> QED
    BY <2>1, HighLow, Words
<1>1. ASSUME High(n) = 0 PROVE n = Low(n)
  BY <1>0, <1>1, SMT
<1>2. ASSUME High(d) = 0 PROVE d = Low(d) /\ Low(d) \in 1 .. B - 1
  BY <1>0, <1>2, SMT
<1>3. CASE High(n) = 0 /\ High(d) = 0
  <2>1. __udivmoddi4(n, d) = [q |-> Low(n) \div Low(d), r |-> Low(n) % Low(d)]
    BY <1>3 DEF __udivmoddi4
  <2> QED
    BY <1>1, <1>2, <1>3, <2>1 DEF QR
<1>4. CASE High(n) = 0 /\ High(d) # 0
  <2>1. __udivmoddi4(n, d) = [q |-> 0, r |-> Low(n)]
    BY <1>4 DEF __udivmoddi4
  <2>2. n < d
    <3>1. High(d) >= 1
      BY <1>0, <1>4, SMT
    <3>2. B * High(d) >= B /\ B * High(d) \in Nat
      BY <1>0, <3>1, SMT
    <3> QED
      BY <1>0, <1>1, <1>4, <3>2, SMT
  <2> QED
    BY <1>0, <1>1, <1>4, <2>1, <2>2, SmallerThan
<1>5. CASE High(n) # 0 /\ Low(d) = 0
  <2>1. High(d) # 0
    BY <1>0, <1>5, SMT
  <2> QED
    BY <1>5, <2>1, divide_K_K0Is DEF __udivmoddi4
<1>6. CASE High(n) # 0 /\ Low(d) # 0 /\ High(d) = 0
  <2>1. d \in 1 .. B - 1
    BY <1>2, <1>6
  <2> QED
    BY <1>6, <2>1, divide_K_0KIs DEF __udivmoddi4
<1>7. CASE High(n) # 0 /\ Low(d) # 0 /\ High(d) # 0
  <2>1. LargeDivisor(n, d, __clzsi2(High(d)) - __clzsi2(High(n)), W - 1) = QR(n, d)
    BY <1>7, LargeDivisorIs
  <2> QED
    BY <1>7, <2>1 DEF __udivmoddi4, divide_K_KK
<1> QED
  BY <1>3, <1>4, <1>5, <1>6, <1>7

------------------------------------------------------------------------------
(* Signed division: the magnitudes are divided, and what they give gets    *)
(* its sign.                                                               *)
LEMMA Magnitude ==
  ASSUME NEW x \in 0 .. BB - 1
  PROVE  /\ SignedOf(x) \in Int /\ Neg(x) = (SignedOf(x) < 0)
         /\ Negate(x, Neg(x)) = Abs(SignedOf(x))
         /\ Abs(SignedOf(x)) \in 0 .. BB \div 2
         /\ SignedOf(x) = (IF Neg(x) THEN - Abs(SignedOf(x)) ELSE Abs(SignedOf(x)))
         /\ \E e \in Int : x = SignedOf(x) + e * BB
         /\ x # 0 => Abs(SignedOf(x)) \in 1 .. BB - 1
<1> DEFINE H == BB \div 2
<1>1. BB = 2 * H /\ H \in Nat /\ BB \in Nat /\ BB >= 256
  BY Words
<1>2. x \in Nat /\ x < BB
  BY <1>1, SMT
<1> HIDE DEF H
<1>3. CASE x >= H
  <2> DEFINE y == BB - x
  <2>1. SignedOf(x) = x - BB /\ Neg(x)
    BY <1>3 DEF SignedOf, Neg, H
  <2>2. /\ x - BB \in Int /\ x - BB < 0 /\ y \in 1 .. H /\ y \in 0 .. H /\ y \in 1 .. BB - 1
        /\ -(x - BB) = y /\ x - BB = -y /\ x = (x - BB) + 1 * BB /\ 1 \in Int
        /\ y \in Nat /\ y < BB
    BY <1>1, <1>2, <1>3, SMT
  <2>3. Abs(x - BB) = y
    BY <2>2 DEF Abs
  <2>4. (-x) % BB = y
    <3> DEFINE m == 0 - 1
    <3>1. -x = BB * m + y /\ m \in Int /\ y \in Int /\ 0 <= y /\ BB >= 1
      BY <1>1, <1>2, <2>2, SMT
    <3> HIDE DEF m, y
    <3>2. QuotRem(-x, BB, m, y)
      BY <1>1, <2>2, <3>1, DivUnique
    <3> QED
      BY <3>2 DEF QuotRem
  <2>5. Negate(x, Neg(x)) = y
    BY <2>1, <2>4 DEF Negate
  <2>6. Neg(x) = (SignedOf(x) < 0)
    BY <2>1, <2>2, SMT DEF Neg
  <2> HIDE DEF y
  <2>7. \E e \in Int : x = SignedOf(x) + e * BB
    BY <2>1, <2>2
  <2> QED
    BY <2>1, <2>2, <2>3, <2>5, <2>6, <2>7 DEF H
<1>4. CASE ~ (x >= H)
  <2>1. SignedOf(x) = x /\ ~ Neg(x)
    BY <1>4 DEF SignedOf, Neg, H
  <2>2. /\ x \in Int /\ ~ (x < 0) /\ x \in 0 .. H /\ (x # 0 => x \in 1 .. BB - 1)
        /\ x = x + 0 * BB /\ 0 \in Int
    BY <1>1, <1>2, <1>4, SMT
  <2>3. Abs(x) = x
    BY <2>2 DEF Abs
  <2>4. Negate(x, Neg(x)) = x
    BY <2>1 DEF Negate
  <2>5. Neg(x) = (SignedOf(x) < 0)
    BY <2>1, <2>2, SMT DEF Neg
  <2>6. \E e \in Int : x = SignedOf(x) + e * BB
    BY <2>1, <2>2
  <2> QED
    BY <2>1, <2>2, <2>3, <2>4, <2>5, <2>6 DEF H
<1> QED
  BY <1>3, <1>4

LEMMA ModCongruent ==
  ASSUME NEW x \in Int, NEW y \in Int, NEW e \in Int, x = y + e * BB
  PROVE  x % BB = y % BB
<1> DEFINE q == y \div BB
           r == y % BB
<1>1. BB \in Nat /\ BB >= 1
  BY Words, SMT
<1>2. q \in Int /\ r \in Int /\ y = BB * q + r /\ 0 <= r /\ r < BB
  BY <1>1, DivMod
<1> HIDE DEF q, r
<1>3. x = BB * (q + e) + r /\ q + e \in Int
  <2>1. (BB * q + r) + e * BB = BB * (q + e) + r
    BY <1>1, <1>2, SMT
  <2> QED
    BY <1>2, <2>1
<1>4. QuotRem(x, BB, q + e, r)
  BY <1>1, <1>2, <1>3, DivUnique
<1> QED
  BY <1>4 DEF QuotRem, r

LEMMA SignedDivision ==
  ASSUME NEW a \in 0 .. BB - 1, NEW b \in 1 .. BB - 1
  PROVE  LET x == SignedOf(a)
             y == SignedOf(b)
             q == Trunc(x, y)
         IN  /\ q \in Int /\ x \in Int /\ y \in Int
             /\ __divdi3(a, b) = q % BB
             /\ __moddi3(a, b) = (x - q * y) % BB
<1> DEFINE x == SignedOf(a)
           y == SignedOf(b)
           X == Abs(x)
           Y == Abs(y)
           q0 == X \div Y
           r0 == X % Y
           q == Trunc(x, y)
<1>0. b \in 0 .. BB - 1 /\ b # 0 /\ BB \in Nat /\ BB >= 256 /\ BB = 2 * (BB \div 2)
      /\ BB \div 2 \in Nat
  BY RangeOf, Words, SMT
<1>1. /\ x \in Int /\ Neg(a) = (x < 0) /\ Negate(a, Neg(a)) = X /\ X \in 0 .. BB \div 2
      /\ x = (IF Neg(a) THEN -X ELSE X)
  BY Magnitude
<1>2. /\ y \in Int /\ Neg(b) = (y < 0) /\ Negate(b, Neg(b)) = Y /\ Y \in 0 .. BB \div 2
      /\ y = (IF Neg(b) THEN -Y ELSE Y) /\ Y \in 1 .. BB - 1
  BY <1>0, Magnitude
<1> HIDE DEF X, Y, x, y
<1>3. X \in 0 .. BB - 1 /\ X \in Nat /\ Y \in Nat /\ Y >= 1 /\ X < BB /\ Y < BB
  BY <1>0, <1>1, <1>2, SMT
<1>4. __udivmoddi4(X, Y) = [q |-> q0, r |-> r0]
  BY <1>2, <1>3, DivisionIs DEF QR
<1>5. /\ X = Y * q0 + r0 /\ q0 \in Nat /\ r0 \in Nat /\ r0 < Y /\ q0 < BB /\ r0 < BB
  <2>1. q0 \in Nat /\ r0 \in 0 .. Y - 1
    BY <1>3, DivNat
  <2>2. X \in Int
    BY <1>3, SMT
  <2>3. X = Y * q0 + r0
    BY <1>3, <2>2, DivMod
  <2> HIDE DEF q0, r0
  <2>4. Y * q0 >= q0 /\ Y * q0 \in Nat
    BY <1>3, <2>1, SMT
  <2> QED
    BY <1>0, <1>3, <2>1, <2>3, <2>4, SMT
<1>6. q = IF (x < 0) = (y < 0) THEN q0 ELSE -q0
  BY DEF Trunc, X, Y
<1>7. /\ __divdi3(a, b) = Negate(q0, Neg(a) # Neg(b))
      /\ __moddi3(a, b) = Negate(r0, Neg(a))
  BY <1>1, <1>2, <1>4 DEF __divdi3, __moddi3
<1> HIDE DEF q0, r0, q
<1>8. q0 % BB = q0 /\ r0 % BB = r0
  BY <1>5, ModSmall
<1>9. __divdi3(a, b) = q % BB
  <2>1. CASE Neg(a) = Neg(b)
    <3>1. q = q0
      BY <1>1, <1>2, <1>6, <2>1
    <3>2. Negate(q0, Neg(a) # Neg(b)) = q0
      BY <2>1 DEF Negate
    <3> QED
      BY <1>7, <1>8, <3>1, <3>2
  <2>2. CASE Neg(a) # Neg(b)
    <3>1. q = -q0
      BY <1>1, <1>2, <1>6, <2>2
    <3>2. Negate(q0, Neg(a) # Neg(b)) = (-q0) % BB
      BY <2>2 DEF Negate
    <3> QED
      BY <1>7, <3>1, <3>2
  <2> QED
    BY <2>1, <2>2
<1>10. q \in Int /\ x - q * y = IF Neg(a) THEN -r0 ELSE r0
  <2>1. CASE Neg(a) /\ Neg(b)
    <3>1. x = -X /\ y = -Y /\ q = q0
      BY <1>1, <1>2, <1>6, <2>1
    <3>2. (-(Y * q0 + r0)) - q0 * (-Y) = -r0
      BY <1>3, <1>5, SMT
    <3>3. q0 \in Int
      BY <1>5, SMT
    <3> QED
      BY <1>5, <2>1, <3>1, <3>2, <3>3
  <2>2. CASE Neg(a) /\ ~ Neg(b)
    <3>1. x = -X /\ y = Y /\ q = -q0
      BY <1>1, <1>2, <1>6, <2>2
    <3>2. (-(Y * q0 + r0)) - (-q0) * Y = -r0
      BY <1>3, <1>5, SMT
    <3>3. -q0 \in Int
      BY <1>5, SMT
    <3> QED
      BY <1>5, <2>2, <3>1, <3>2, <3>3
  <2>3. CASE ~ Neg(a) /\ Neg(b)
    <3>1. x = X /\ y = -Y /\ q = -q0
      BY <1>1, <1>2, <1>6, <2>3
    <3>2. (Y * q0 + r0) - (-q0) * (-Y) = r0
      BY <1>3, <1>5, SMT
    <3>3. -q0 \in Int
      BY <1>5, SMT
    <3> QED
      BY <1>5, <2>3, <3>1, <3>2, <3>3
  <2>4. CASE ~ Neg(a) /\ ~ Neg(b)
    <3>1. x = X /\ y = Y /\ q = q0
      BY <1>1, <1>2, <1>6, <2>4
    <3>2. (Y * q0 + r0) - q0 * Y = r0
      BY <1>3, <1>5, SMT
    <3>3. q0 \in Int
      BY <1>5, SMT
    <3> QED
      BY <1>5, <2>4, <3>1, <3>2, <3>3
  <2> QED
    BY <2>1, <2>2, <2>3, <2>4
<1>11. __moddi3(a, b) = (x - q * y) % BB
  <2>1. CASE Neg(a)
    BY <1>7, <1>10, <2>1 DEF Negate
  <2>2. CASE ~ Neg(a)
    BY <1>7, <1>8, <1>10, <2>2 DEF Negate
  <2> QED
    BY <2>1, <2>2
<1> QED
  BY <1>1, <1>2, <1>9, <1>10, <1>11 DEF q, x, y

LEMMA RemainderIs ==
  ASSUME NEW a \in 0 .. BB - 1, NEW b \in 1 .. BB - 1
  PROVE  LET x == SignedOf(a)
             y == SignedOf(b)
         IN  (a - __divdi3(a, b) * b) % BB = (x - Trunc(x, y) * y) % BB
<1> DEFINE x == SignedOf(a)
           y == SignedOf(b)
           q == Trunc(x, y)
           p == __divdi3(a, b)
<1>0. b \in 0 .. BB - 1 /\ BB \in Nat /\ BB >= 1 /\ a \in Int /\ b \in Int
  BY RangeOf, Words, SMT
<1>1. PICK e1 \in Int : a = x + e1 * BB
  BY Magnitude
<1>2. PICK e2 \in Int : b = y + e2 * BB
  BY <1>0, Magnitude
<1>3. q \in Int /\ x \in Int /\ y \in Int /\ p = q % BB
  BY SignedDivision
<1> HIDE DEF x, y, q, p
<1>4. PICK e3 \in Int : p = q + e3 * BB
  <2> DEFINE u == q \div BB
  <2>1. u \in Int /\ q % BB \in Int /\ q = BB * u + (q % BB)
    BY <1>0, <1>3, DivMod
  <2> HIDE DEF u
  <2>2. p = q + (0 - u) * BB /\ 0 - u \in Int
    BY <1>0, <1>3, <2>1, SMT
  <2> QED
    BY <2>2
<1> DEFINE e == e1 - (q * e2 + e3 * y + e3 * e2 * BB)
<1>5. a - p * b = (x - q * y) + e * BB
  <2>1. (x + e1 * BB) - (q + e3 * BB) * (y + e2 * BB) = (x - q * y) + e * BB
    BY <1>0, <1>3, SMT
  <2> QED
    BY <1>1, <1>2, <1>4, <2>1
<1>6. e \in Int /\ a - p * b \in Int /\ x - q * y \in Int
  <2>1. p \in Int
    BY <1>0, <1>3, <1>4, SMT
  <2> QED
    BY <1>0, <1>3, <2>1, SMT
<1> HIDE DEF e
<1>7. (a - p * b) % BB = (x - q * y) % BB
  BY <1>5, <1>6, ModCongruent
<1> QED
  BY <1>7 DEF p, q, x, y

------------------------------------------------------------------------------
(* The zeros of a double word.                                             *)
LEMMA MaxIs ==
  ASSUME NEW S \in SUBSET Int, NEW m \in S, \A i \in S : i <= m
  PROVE  Max(S) = m
<1>1. m \in S /\ \A i \in S : m >= i
  BY SMT
<1>2. Max(S) \in S /\ \A i \in S : Max(S) >= i
  BY <1>1 DEF Max
<1>3. Max(S) >= m /\ m >= Max(S) /\ Max(S) \in Int /\ m \in Int
  BY <1>1, <1>2
<1> QED
  BY <1>3, SMT

LEMMA MinIs ==
  ASSUME NEW S \in SUBSET Int, NEW m \in S, \A i \in S : m <= i
  PROVE  Min(S) = m
<1>1. m \in S /\ \A i \in S : m =< i
  BY SMT
<1>2. Min(S) \in S /\ \A i \in S : Min(S) =< i
  BY <1>1 DEF Min
<1>3. Min(S) =< m /\ m =< Min(S) /\ Min(S) \in Int /\ m \in Int
  BY <1>1, <1>2
<1> QED
  BY <1>3, SMT

LEMMA ClzDouble ==
  ASSUME NEW a \in 1 .. BB - 1
  PROVE  /\ __clzdi2(a) \in 0 .. 2 * W - 1
         /\ pow2[2 * W - 1 - __clzdi2(a)] <= a /\ a < pow2[2 * W - __clzdi2(a)]
<1>0. a \in 0 .. BB - 1 /\ a \in Nat /\ a >= 1
  BY RangeOf
<1>1. CASE High(a) # 0
  <2>1. __clzdi2(a) = __clzsi2(High(a))
    BY <1>1 DEF __clzdi2
  <2>2. /\ __clzsi2(High(a)) \in 0 .. W - 1
        /\ pow2[2 * W - 1 - __clzsi2(High(a))] <= a /\ a < pow2[2 * W - __clzsi2(High(a))]
    BY <1>0, <1>1, LeadingBounds
  <2>3. __clzsi2(High(a)) \in 0 .. 2 * W - 1
    BY <2>2, WIs, SMT
  <2> QED
    BY <2>1, <2>2, <2>3
<1>2. CASE High(a) = 0
  <2> DEFINE c == __clzsi2(Low(a))
  <2>1. __clzdi2(a) = W + c
    BY <1>2 DEF __clzdi2
  <2>2. Low(a) \in 1 .. B - 1 /\ a = Low(a)
    <3>1. Low(a) \in Nat /\ Low(a) < B /\ a = B * High(a) + Low(a) /\ B \in Nat
      BY <1>0, HighLow, Words
    <3> QED
      BY <1>0, <1>2, <3>1, SMT
  <2>3. c \in 0 .. W - 1 /\ pow2[W - 1 - c] <= a /\ a < pow2[W - c]
    BY <2>2, Clz
  <2> HIDE DEF c
  <2>4. W + c \in 0 .. 2 * W - 1 /\ 2 * W - 1 - (W + c) = W - 1 - c /\ 2 * W - (W + c) = W - c
    BY <2>3, WIs, SMT
  <2> QED
    BY <2>1, <2>3, <2>4
<1> QED
  BY <1>1, <1>2

LEMMA CtzDouble ==
  ASSUME NEW a \in 1 .. BB - 1
  PROVE  /\ __ctzdi2(a) \in 0 .. 2 * W - 1
         /\ \E y \in Nat : y % 2 = 1 /\ a = y * pow2[__ctzdi2(a)]
<1> DEFINE h == High(a)
           l == Low(a)
<1>0. /\ a \in 0 .. BB - 1 /\ a \in Nat /\ a >= 1
      /\ h \in Nat /\ l \in Nat /\ h < B /\ l < B /\ a = B * h + l /\ B \in Nat /\ B = pow2[W]
  BY RangeOf, HighLow, Words
<1> HIDE DEF h, l
<1>1. CASE l = 0
  <2> DEFINE c == __ctzsi2(h)
  <2>1. __ctzdi2(a) = W + c
    BY <1>1 DEF __ctzdi2, h, l
  <2>2. h \in 1 .. B - 1
    BY <1>0, <1>1, SMT
  <2>3. c \in 0 .. W - 1 /\ \E y \in Nat : y % 2 = 1 /\ h = y * pow2[c]
    BY <2>2, Ctz
  <2>4. PICK y \in Nat : y % 2 = 1 /\ h = y * pow2[c]
    BY <2>3
  <2> HIDE DEF c
  <2>5. W + c \in 0 .. 2 * W - 1 /\ c \in Nat /\ W \in Nat /\ W + c <= 2 * W /\ c \in 0 .. 2 * W
    BY <2>3, WIs, SMT
  <2>6. pow2[W + c] = B * pow2[c] /\ pow2[c] \in Nat
    BY <1>0, <2>5, Pow2, Pow2Add
  <2>7. a = y * pow2[W + c]
    <3>1. B * (y * pow2[c]) + 0 = y * (B * pow2[c])
      BY <1>0, <2>6, SMT
    <3> QED
      BY <1>0, <1>1, <2>4, <2>6, <3>1
  <2> QED
    BY <2>1, <2>4, <2>5, <2>7
<1>2. CASE l # 0
  <2> DEFINE c == __ctzsi2(l)
  <2>1. __ctzdi2(a) = c
    BY <1>2 DEF __ctzdi2, l
  <2>2. l \in 1 .. B - 1
    BY <1>0, <1>2, SMT
  <2>3. c \in 0 .. W - 1 /\ \E y \in Nat : y % 2 = 1 /\ l = y * pow2[c]
    BY <2>2, Ctz
  <2>4. PICK y \in Nat : y % 2 = 1 /\ l = y * pow2[c]
    BY <2>3
  <2> HIDE DEF c
  <2> DEFINE R == pow2[W - c - 1]
  <2>5. /\ c \in 0 .. 2 * W - 1 /\ c \in Nat /\ W - c \in Nat /\ (W - c) + c = W /\ W <= 2 * W
        /\ c \in 0 .. 2 * W /\ W - c \in 1 .. 2 * W /\ W - c - 1 \in 0 .. 2 * W
    BY <2>3, WIs, SMT
  <2>6. B = (2 * R) * pow2[c] /\ R \in Nat /\ pow2[c] \in Nat
    <3>1. pow2[(W - c) + c] = pow2[W - c] * pow2[c]
      BY <2>5, Pow2Add
    <3>2. pow2[W - c] = 2 * R
      BY <2>5, Pow2
    <3> QED
      BY <1>0, <2>5, <3>1, <3>2, Pow2
  <2> HIDE DEF R
  <2> DEFINE z == 2 * (R * h) + y
  <2>7. a = z * pow2[c]
    <3>1. ((2 * R) * pow2[c]) * h + y * pow2[c] = z * pow2[c]
      BY <1>0, <2>6, SMT
    <3> QED
      BY <1>0, <2>4, <2>6, <3>1
  <2>8. z \in Nat /\ z % 2 = 1
    <3>1. R * h \in Nat
      BY <1>0, <2>6, SMT
    <3> QED
      BY <2>4, <3>1, SMT
  <2> HIDE DEF z
  <2> QED
    BY <2>1, <2>5, <2>7, <2>8
<1> QED
  BY <1>1, <1>2

LEMMA ZerosAre ==
  ASSUME NEW a \in 1 .. BB - 1
  PROVE  LET ones == {i \in 0 .. 2 * W - 1 : (a \div pow2[i]) % 2 = 1}
         IN  <<__clzdi2(a), __ctzdi2(a)>> = <<2 * W - 1 - Max(ones), Min(ones)>>
<1> DEFINE ones == {i \in 0 .. 2 * W - 1 : (a \div pow2[i]) % 2 = 1}
           h == 2 * W - 1 - __clzdi2(a)
           c == __ctzdi2(a)
<1>0. a \in Nat /\ a >= 1 /\ ones \in SUBSET Int
  <2>1. \A i \in 0 .. 2 * W - 1 : i \in Int
    BY SMT
  <2> QED
    BY <2>1, RangeOf
<1>1. __clzdi2(a) \in 0 .. 2 * W - 1 /\ pow2[h] <= a /\ a < pow2[2 * W - __clzdi2(a)]
  BY ClzDouble
<1>2. /\ h \in 0 .. 2 * W - 1 /\ h \in Nat /\ h + 1 = 2 * W - __clzdi2(a)
      /\ h \in 0 .. 2 * W /\ h + 1 \in 1 .. 2 * W /\ (h + 1) - 1 = h
      /\ __clzdi2(a) = 2 * W - 1 - h
  BY <1>1, WIs, SMT
<1> HIDE DEF h
<1>3. pow2[h + 1] = 2 * pow2[h] /\ pow2[h] \in Nat /\ pow2[h] >= 1
  BY <1>2, Pow2
<1>4. a < 2 * pow2[h]
  BY <1>1, <1>2, <1>3
<1>5. h \in ones
  <2> DEFINE P == pow2[h]
             one == a - P
  <2>1. a = P * 1 + one /\ one \in Int /\ 0 <= one /\ one < P /\ 1 \in Int
    BY <1>0, <1>1, <1>3, <1>4, SMT
  <2> HIDE DEF one, P
  <2>2. QuotRem(a, P, 1, one)
    <3>1. P \in Nat /\ P >= 1
      BY <1>3 DEF P
    <3> QED
      BY <2>1, <3>1, DivUnique
  <2>3. a \div pow2[h] = 1
    BY <2>2 DEF QuotRem, P
  <2>4. 1 % 2 = 1
    BY SMT
  <2> QED
    BY <1>2, <2>3, <2>4
<1>6. \A i \in ones : i <= h
  <2> SUFFICES ASSUME NEW i \in 0 .. 2 * W - 1, ~ (i <= h)
               PROVE  (a \div pow2[i]) % 2 # 1
    BY DEF ones
  <2>1. i \in Nat /\ h + 1 <= i /\ i <= 2 * W /\ i \in 0 .. 2 * W /\ h + 1 \in Nat
    BY <1>2, WIs, SMT
  <2>2. pow2[h + 1] <= pow2[i] /\ pow2[i] \in Nat /\ pow2[i] >= 1
    BY <2>1, Pow2, Pow2Leq
  <2>3. a < pow2[i]
    BY <1>0, <1>3, <1>4, <2>2, SMT
  <2>4. a \div pow2[i] = 0
    <3>1. QR(a, pow2[i]) = [q |-> 0, r |-> a]
      BY <1>0, <2>2, <2>3, SmallerThan
    <3> QED
      BY <3>1 DEF QR
  <2> QED
    BY <2>4, SMT
<1>7. Max(ones) = h
  <2> HIDE DEF ones
  <2> QED
    BY <1>0, <1>5, <1>6, MaxIs
<1>8. c \in 0 .. 2 * W - 1 /\ \E y \in Nat : y % 2 = 1 /\ a = y * pow2[c]
  BY CtzDouble
<1>9. PICK y \in Nat : y % 2 = 1 /\ a = y * pow2[c]
  BY <1>8
<1> HIDE DEF c
<1>10. c \in Nat /\ c \in 0 .. 2 * W /\ c <= 2 * W
  BY <1>8, WIs, SMT
<1>11. pow2[c] \in Nat /\ pow2[c] >= 1
  BY <1>10, Pow2
<1>12. c \in ones
  <2> DEFINE P == pow2[c]
  <2>1. a = P * y + 0 /\ 0 \in Int /\ 0 <= 0 /\ 0 < P /\ y \in Int /\ P \in Nat /\ P >= 1
    <3>1. \A u, v \in Nat : u * v = v * u + 0
      BY SMT
    <3>2. a = P * y + 0
      BY <1>9, <1>11, <3>1
    <3>3. 0 \in Int /\ 0 <= 0 /\ 0 < P /\ y \in Int
      BY <1>9, <1>11, SMT
    <3> QED
      BY <1>11, <3>2, <3>3
  <2> HIDE DEF P
  <2>2. QuotRem(a, P, y, 0)
    BY <2>1, DivUnique
  <2>3. a \div pow2[c] = y
    BY <2>2 DEF QuotRem, P
  <2> QED
    BY <1>8, <1>9, <2>3
<1>13. \A i \in ones : c <= i
  <2> SUFFICES ASSUME NEW i \in 0 .. 2 * W - 1, ~ (c <= i)
               PROVE  (a \div pow2[i]) % 2 # 1
    BY DEF ones
  <2> DEFINE P == pow2[i]
             R == pow2[c - i - 1]
  <2>1. /\ i \in Nat /\ c - i \in Nat /\ i + (c - i) = c /\ i \in 0 .. 2 * W
        /\ c - i \in 1 .. 2 * W /\ c - i - 1 \in 0 .. 2 * W
    BY <1>10, WIs, SMT
  <2>2. pow2[c] = P * (2 * R) /\ P \in Nat /\ P >= 1 /\ R \in Nat
    <3>1. pow2[i + (c - i)] = P * pow2[c - i]
      BY <1>10, <2>1, Pow2Add
    <3>2. pow2[c - i] = 2 * R
      BY <2>1, Pow2
    <3> QED
      BY <2>1, <3>1, <3>2, Pow2
  <2> HIDE DEF P, R
  <2> DEFINE z == y * R
  <2>3. a = P * (2 * z) + 0 /\ z \in Nat
    <3>1. y * (P * (2 * R)) = P * (2 * z) + 0
      BY <2>2, SMT
    <3>2. z \in Nat
      BY <2>2, SMT
    <3> QED
      BY <1>9, <2>2, <3>1, <3>2
  <2> HIDE DEF z
  <2>4. QuotRem(a, P, 2 * z, 0)
    <3>1. 0 \in Int /\ 0 <= 0 /\ 0 < P /\ 2 * z \in Int
      BY <2>2, <2>3, SMT
    <3> QED
      BY <2>2, <2>3, <3>1, DivUnique
  <2>5. a \div pow2[i] = 2 * z
    BY <2>4 DEF QuotRem, P
  <2> QED
    BY <2>3, <2>5, SMT
<1>14. Min(ones) = c
  <2> HIDE DEF ones
  <2> QED
    BY <1>0, <1>12, <1>13, MinIs
<1> QED
  BY <1>2, <1>7, <1>14 DEF c

------------------------------------------------------------------------------
(* Blocks.  The stores tile the block from one offset to another: p are    *)
(* the offsets between them.                                               *)
Tiles(st, from, to, p) ==
  /\ st \in Seq(Int \X Int) /\ p \in [0 .. Len(st) -> from .. to]
  /\ p[0] = from /\ p[Len(st)] = to
  /\ \A i \in 1 .. Len(st) : st[i][1] = p[i - 1] /\ p[i] = p[i - 1] + st[i][2] /\ st[i][2] \in Nat

Tiled(st, from, to) == \E p : Tiles(st, from, to, p)

LEMMA TiledByBytes ==
  ASSUME NEW from \in Int, NEW to \in Int, from <= to
  PROVE  Tiled(ByBytes(from, to), from, to)
<1> DEFINE st == ByBytes(from, to)
           n == to - from
           p == [i \in 0 .. n |-> from + i]
<1>1. n \in Nat
  BY SMT
<1>2. st = [i \in 1 .. n |-> <<from + i - 1, 1>>]
  BY DEF ByBytes
<1>3. \A i \in 1 .. n : from + i - 1 \in Int /\ 1 \in Int
  BY SMT
<1>4. st \in [1 .. n -> Int \X Int]
  <2> HIDE DEF st, n
  <2> QED
    BY <1>2, <1>3
<1>5. st \in Seq(Int \X Int) /\ Len(st) = n
  <2> HIDE DEF st, n
  <2> QED
    BY <1>1, <1>4
<1>6. \A i \in 0 .. n : from + i \in from .. to
  BY SMT
<1>7. p \in [0 .. n -> from .. to] /\ p[0] = from /\ p[n] = to
  <2>1. 0 \in 0 .. n /\ n \in 0 .. n /\ from + 0 = from /\ from + n = to
    BY SMT
  <2> HIDE DEF n
  <2> QED
    BY <1>6, <2>1
<1>8. ASSUME NEW i \in 1 .. n
      PROVE  st[i][1] = p[i - 1] /\ p[i] = p[i - 1] + st[i][2] /\ st[i][2] \in Nat
  <2>1. i - 1 \in 0 .. n /\ i \in 0 .. n /\ from + (i - 1) = from + i - 1 /\ 1 \in Nat
        /\ from + i = (from + (i - 1)) + 1
    BY <1>1, SMT
  <2>2. st[i] = <<from + i - 1, 1>>
    BY <1>2
  <2>3. p[i - 1] = from + (i - 1) /\ p[i] = from + i
    BY <2>1
  <2> HIDE DEF st, p
  <2> QED
    BY <2>1, <2>2, <2>3
<1> HIDE DEF st, n, p
<1> QED
  BY <1>5, <1>7, <1>8 DEF Tiles, Tiled, st

LEMMA TiledByWords ==
  ASSUME NEW from \in Int, NEW to \in Int, from <= to, (to - from) % 4 = 0
  PROVE  Tiled(ByWords(from, to), from, to)
<1> DEFINE st == ByWords(from, to)
           n == (to - from) \div 4
           p == [i \in 0 .. n |-> from + 4 * i]
<1>1. n \in Nat /\ to - from = 4 * n
  BY SMT
<1>2. st = [i \in 1 .. n |-> <<from + 4 * (i - 1), 4>>]
  BY DEF ByWords
<1> HIDE DEF n
<1>3. \A i \in 1 .. n : from + 4 * (i - 1) \in Int /\ 4 \in Int
  BY SMT
<1>4. st \in [1 .. n -> Int \X Int]
  <2> HIDE DEF st
  <2> QED
    BY <1>2, <1>3
<1>5. st \in Seq(Int \X Int) /\ Len(st) = n
  <2> HIDE DEF st
  <2> QED
    BY <1>1, <1>4
<1>6. \A i \in 0 .. n : from + 4 * i \in from .. to
  BY <1>1, SMT
<1>7. p \in [0 .. n -> from .. to] /\ p[0] = from /\ p[n] = to
  <2>1. 0 \in 0 .. n /\ n \in 0 .. n /\ from + 4 * 0 = from /\ from + 4 * n = to
    BY <1>1, SMT
  <2> QED
    BY <1>6, <2>1
<1>8. ASSUME NEW i \in 1 .. n
      PROVE  st[i][1] = p[i - 1] /\ p[i] = p[i - 1] + st[i][2] /\ st[i][2] \in Nat
  <2>1. i - 1 \in 0 .. n /\ i \in 0 .. n /\ 4 \in Nat /\ from + 4 * i = (from + 4 * (i - 1)) + 4
    BY <1>1, SMT
  <2>2. st[i] = <<from + 4 * (i - 1), 4>>
    BY <1>2
  <2>3. p[i - 1] = from + 4 * (i - 1) /\ p[i] = from + 4 * i
    BY <2>1
  <2> HIDE DEF st, p
  <2> QED
    BY <2>1, <2>2, <2>3
<1> HIDE DEF st, p
<1> QED
  BY <1>5, <1>7, <1>8 DEF Tiles, Tiled, st

LEMMA TiledConcat ==
  ASSUME NEW s, NEW t, NEW a \in Int, NEW b \in Int, NEW c \in Int, a <= b, b <= c,
         Tiled(s, a, b), Tiled(t, b, c)
  PROVE  Tiled(s \o t, a, c)
<1>1. PICK p : Tiles(s, a, b, p)
  BY DEF Tiled
<1>2. PICK q : Tiles(t, b, c, q)
  BY DEF Tiled
<1> DEFINE m == Len(s)
           n == Len(t)
           u == s \o t
           r == [i \in 0 .. m + n |-> IF i <= m THEN p[i] ELSE q[i - m]]
<1>3. /\ s \in Seq(Int \X Int) /\ p \in [0 .. m -> a .. b] /\ p[0] = a /\ p[m] = b
      /\ \A i \in 1 .. m : s[i][1] = p[i - 1] /\ p[i] = p[i - 1] + s[i][2] /\ s[i][2] \in Nat
  BY <1>1 DEF Tiles
<1>4. /\ t \in Seq(Int \X Int) /\ q \in [0 .. n -> b .. c] /\ q[0] = b /\ q[n] = c
      /\ \A i \in 1 .. n : t[i][1] = q[i - 1] /\ q[i] = q[i - 1] + t[i][2] /\ t[i][2] \in Nat
  BY <1>2 DEF Tiles
<1>5. m \in Nat /\ n \in Nat /\ u \in Seq(Int \X Int) /\ Len(u) = m + n
  BY <1>3, <1>4
<1>6. /\ \A i \in 1 .. m : u[i] = s[i]
      /\ \A i \in m + 1 .. m + n : u[i] = t[i - m]
  BY <1>3, <1>4
<1> HIDE DEF m, n, u
<1>7. \A i \in 0 .. m : r[i] = p[i]
  BY <1>5, SMT
<1>8. \A i \in m .. m + n : r[i] = q[i - m]
  <2> TAKE i \in m .. m + n
  <2>1. i \in 0 .. m + n /\ i - m \in 0 .. n /\ (i <= m <=> i = m) /\ m - m = 0
    BY <1>5, SMT
  <2>2. r[i] = IF i <= m THEN p[i] ELSE q[i - m]
    BY <2>1
  <2> HIDE DEF r
  <2> QED
    BY <1>3, <1>4, <2>1, <2>2
<1> HIDE DEF r
<1>9. r \in [0 .. m + n -> a .. c]
  <2>1. \A x \in a .. b : x \in a .. c
    BY SMT
  <2>2. \A x \in b .. c : x \in a .. c
    BY SMT
  <2>3. \A i \in 0 .. m + n : r[i] \in a .. c
    <3> TAKE i \in 0 .. m + n
    <3>1. CASE i <= m
      <4>1. i \in 0 .. m
        BY <1>5, <3>1, SMT
      <4>2. p[i] \in a .. b
        BY <1>3, <4>1
      <4> QED
        BY <1>7, <2>1, <4>1, <4>2
    <3>2. CASE ~ (i <= m)
      <4>1. i \in m .. m + n /\ i - m \in 0 .. n
        BY <1>5, <3>2, SMT
      <4>2. q[i - m] \in b .. c
        BY <1>4, <4>1
      <4> QED
        BY <1>8, <2>2, <4>1, <4>2
    <3> QED
      BY <3>1, <3>2
  <2>4. r = [i \in 0 .. m + n |-> r[i]]
    BY DEF r
  <2> QED
    BY <2>3, <2>4
<1>10. r[0] = a /\ r[m + n] = c
  <2>1. 0 \in 0 .. m /\ m + n \in m .. m + n /\ (m + n) - m = n
    BY <1>5, SMT
  <2> QED
    BY <1>3, <1>4, <1>7, <1>8, <2>1
<1>11. ASSUME NEW i \in 1 .. m + n
       PROVE  u[i][1] = r[i - 1] /\ r[i] = r[i - 1] + u[i][2] /\ u[i][2] \in Nat
  <2>1. CASE i <= m
    <3>1. i \in 1 .. m /\ i \in 0 .. m /\ i - 1 \in 0 .. m
      BY <1>5, <2>1, SMT
    <3> QED
      BY <1>3, <1>6, <1>7, <3>1
  <2>2. CASE ~ (i <= m)
    <3>1. /\ i \in m + 1 .. m + n /\ i - m \in 1 .. n /\ i \in m .. m + n /\ i - 1 \in m .. m + n
          /\ (i - 1) - m = (i - m) - 1
      BY <1>5, <2>2, SMT
    <3>2. u[i] = t[i - m] /\ r[i] = q[i - m] /\ r[i - 1] = q[(i - m) - 1]
      BY <1>6, <1>8, <3>1
    <3> QED
      BY <1>4, <3>1, <3>2
  <2> QED
    BY <2>1, <2>2
<1>12. Tiles(u, a, c, r)
  BY <1>5, <1>9, <1>10, <1>11 DEF Tiles
<1> QED
  BY <1>12 DEF Tiled, u

LEMMA StoresTile ==
  ASSUME NEW s \in Nat, NEW n \in Nat
  PROVE  Tiled(Stores(s, n), 0, n)
<1> DEFINE al == ((s + 3) \div 4) * 4 - s
           ae == ((s + n) \div 4) * 4 - s
<1>1. /\ al \in Int /\ ae \in Int /\ 0 <= al /\ ae <= n /\ (ae - al) % 4 = 0
      /\ 0 \in Int /\ n \in Int /\ 0 <= n
  BY SMT
<1>2. Stores(s, n) = IF al > ae THEN ByBytes(0, n)
                     ELSE (ByBytes(0, al) \o ByWords(al, ae)) \o ByBytes(ae, n)
  BY DEF Stores
<1> HIDE DEF al, ae
<1>3. CASE al > ae
  BY <1>1, <1>2, <1>3, TiledByBytes
<1>4. CASE ~ (al > ae)
  <2>1. al <= ae /\ 0 <= ae
    BY <1>1, <1>4, SMT
  <2>2. Tiled(ByBytes(0, al), 0, al) /\ Tiled(ByBytes(ae, n), ae, n)
    BY <1>1, TiledByBytes
  <2>3. Tiled(ByWords(al, ae), al, ae)
    BY <1>1, <2>1, TiledByWords
  <2>4. Tiled(ByBytes(0, al) \o ByWords(al, ae), 0, ae)
    BY <1>1, <2>1, <2>2, <2>3, TiledConcat
  <2>5. Tiled((ByBytes(0, al) \o ByWords(al, ae)) \o ByBytes(ae, n), 0, n)
    BY <1>1, <2>1, <2>2, <2>4, TiledConcat
  <2> QED
    BY <1>2, <1>4, <2>5
<1> QED
  BY <1>3, <1>4

------------------------------------------------------------------------------
(* The block operations.  A is the set of the addresses that have been     *)
(* written; none that is still to be read may be in it.                    *)
Copied(mem, dst, src, A) ==
  [a \in DOMAIN mem |-> IF a \in A THEN mem[src + a - dst] ELSE mem[a]]

LEMMA CopyStep ==
  ASSUME NEW mem, NEW dst \in Nat, NEW src \in Nat, NEW n \in Nat, Within(mem, src, n),
         NEW o \in Nat, NEW l \in Nat, o + l <= n, NEW A,
         \A i \in src + o .. src + o + l - 1 : i \notin A
  PROVE  Store(Copied(mem, dst, src, A), dst + o, src + o, l)
           = Copied(mem, dst, src, A \cup (dst + o .. dst + o + l - 1))
<1> DEFINE m == Copied(mem, dst, src, A)
           D == DOMAIN mem
           K == dst + o .. dst + o + l - 1
<1>1. DOMAIN m = D
  BY DEF Copied
<1>2. Store(m, dst + o, src + o, l)
        = [a \in D |-> IF a \in K THEN m[(src + o) + a - (dst + o)] ELSE m[a]]
  BY <1>1 DEF Store
<1>3. Copied(mem, dst, src, A \cup K)
        = [a \in D |-> IF a \in A \cup K THEN mem[src + a - dst] ELSE mem[a]]
  BY DEF Copied
<1>4. \A a \in D : m[a] = IF a \in A THEN mem[src + a - dst] ELSE mem[a]
  BY DEF Copied
<1>5. ASSUME NEW a \in D
      PROVE  (IF a \in K THEN m[(src + o) + a - (dst + o)] ELSE m[a])
               = IF a \in A \cup K THEN mem[src + a - dst] ELSE mem[a]
  <2>1. CASE a \in K
    <3>1. /\ (src + o) + a - (dst + o) = src + a - dst
          /\ src + a - dst \in src + o .. src + o + l - 1
          /\ src + a - dst \in src .. src + n - 1
      BY <2>1, SMT
    <3>2. src + a - dst \in D /\ src + a - dst \notin A
      BY <3>1 DEF Within
    <3>3. m[src + a - dst] = mem[src + a - dst]
      BY <1>4, <3>2
    <3> HIDE DEF m, K, D
    <3> QED
      BY <2>1, <3>1, <3>3
  <2>2. CASE a \notin K
    <3> HIDE DEF m, K, D
    <3> QED
      BY <1>4, <2>2
  <2> QED
    BY <2>1, <2>2
<1> HIDE DEF m, K, D
<1>6. Store(m, dst + o, src + o, l) = Copied(mem, dst, src, A \cup K)
  BY <1>2, <1>3, <1>5
<1> QED
  BY <1>6 DEF m, K

(* The stores st, one after the other, write A[i] up to the i-th.          *)
Writes(dst, src, n, st, A) ==
  /\ st \in Seq(Int \X Int)
  /\ A[0] = {}
  /\ \A i \in 1 .. Len(st) :
       /\ st[i][1] \in Nat /\ st[i][2] \in Nat /\ st[i][1] + st[i][2] <= n
       /\ A[i] = A[i - 1] \cup (dst + st[i][1] .. dst + st[i][1] + st[i][2] - 1)
       /\ \A k \in src + st[i][1] .. src + st[i][1] + st[i][2] - 1 : k \notin A[i - 1]

LEMMA StoreInMemory ==
  ASSUME NEW D, NEW mem \in [D -> Byte], NEW dst \in Nat, NEW src \in Nat, NEW l \in Nat,
         Within(mem, src, l)
  PROVE  Store(mem, dst, src, l) \in [D -> Byte]
<1>1. Store(mem, dst, src, l)
        = [a \in D |-> IF a \in dst .. dst + l - 1 THEN mem[src + a - dst] ELSE mem[a]]
  BY DEF Store
<1>2. ASSUME NEW a \in D
      PROVE  (IF a \in dst .. dst + l - 1 THEN mem[src + a - dst] ELSE mem[a]) \in Byte
  <2>1. CASE a \in dst .. dst + l - 1
    <3>1. src + a - dst \in src .. src + l - 1
      BY <2>1, SMT
    <3>2. src + a - dst \in DOMAIN mem
      BY <3>1 DEF Within
    <3>3. mem[src + a - dst] \in Byte
      BY <3>2
    <3> QED
      BY <2>1, <3>3
  <2>2. CASE a \notin dst .. dst + l - 1
    BY <2>2
  <2> QED
    BY <2>1, <2>2
<1> QED
  BY <1>1, <1>2

LEMMA PartOfBlock ==
  ASSUME NEW a \in Nat, NEW p \in Nat, NEW l \in Nat, NEW n \in Nat, p + l <= n
  PROVE  \A k \in a + p .. a + p + l - 1 : k \in a .. a + n - 1
BY SMT

LEMMA CopyIs ==
  ASSUME NEW D, NEW mem \in [D -> Byte], NEW dst \in Nat, NEW src \in Nat, NEW n \in Nat,
         Within(mem, src, n), NEW st, NEW A, Writes(dst, src, n, st, A)
  PROVE  Copy(mem, dst, src, st) = Copied(mem, dst, src, A[Len(st)])
<1> DEFINE N == Len(st)
           V == [D -> Byte]
           I == 0 .. N
           Next(m, i) == Store(m, dst + st[i][1], src + st[i][1], st[i][2])
           G == [x \in V \X (1 .. N) |-> Next(x[1], x[2])]
           Is(f) == f = [i \in I |-> IF i = 0 THEN mem ELSE Next(f[i - 1], i)]
           after == CHOOSE f : Is(f)
<1>1. /\ N \in Nat
      /\ \A i \in 1 .. N : st[i][1] \in Nat /\ st[i][2] \in Nat /\ st[i][1] + st[i][2] <= n
  BY DEF Writes
<1>2. ASSUME NEW m \in V, NEW i \in 1 .. N
      PROVE  Next(m, i) \in V
  <2>1. dst + st[i][1] \in Nat /\ src + st[i][1] \in Nat /\ st[i][2] \in Nat
    BY <1>1, SMT
  <2>2. Within(m, src + st[i][1], st[i][2])
    <3>1. /\ st[i][1] \in Nat /\ st[i][2] \in Nat /\ st[i][1] + st[i][2] <= n
          /\ src \in Nat /\ n \in Nat
      BY <1>1
    <3>2. \A k \in src + st[i][1] .. src + st[i][1] + st[i][2] - 1 : k \in src .. src + n - 1
      BY ONLY <3>1, PartOfBlock, SMTT(30)
    <3> QED
      BY <3>2 DEF Within
  <2> QED
    BY <2>1, <2>2, StoreInMemory
<1>3. \E f : Is(f)
  <2>1. G \in [V \X (1 .. N) -> V]
    <3>1. \A x \in V \X (1 .. N) : x[1] \in V /\ x[2] \in 1 .. N
      OBVIOUS
    <3>2. \A x \in V \X (1 .. N) : Next(x[1], x[2]) \in V
      <4> HIDE DEF V, Next, N
      <4> QED
        BY <1>2, <3>1
    <3> HIDE DEF V, Next, N
    <3> QED
      BY <3>2
  <2>2. PICK f \in [0 .. N -> V] : IsLoop(f, N, mem, G)
    <3>1. mem \in V
      OBVIOUS
    <3> HIDE DEF G, V, N
    <3> QED
      BY <1>1, <2>1, <3>1, Iteration
  <2>3. \A i \in I : (IF i = 0 THEN mem ELSE G[<<f[i - 1], i>>])
                       = IF i = 0 THEN mem ELSE Next(f[i - 1], i)
    <3> TAKE i \in I
    <3>1. CASE i # 0
      <4>1. i - 1 \in 0 .. N /\ i \in 1 .. N
        BY <1>1, <3>1, SMT
      <4>2. <<f[i - 1], i>> \in V \X (1 .. N)
        BY <4>1
      <4> HIDE DEF V, N, Next
      <4> QED
        BY <3>1, <4>2
    <3> QED
      BY <3>1
  <2>4. f = [i \in I |-> IF i = 0 THEN mem ELSE G[<<f[i - 1], i>>]]
    BY <2>2 DEF IsLoop
  <2>5. Is(f)
    <3> HIDE DEF G, Next, I
    <3> QED
      BY <2>3, <2>4
  <2> HIDE DEF Is
  <2> QED
    BY <2>5
<1>4. Is(after)
  <2> HIDE DEF Is
  <2> QED
    BY <1>3
<1>5. Copy(mem, dst, src, st) = after[N]
  BY DEF Copy
<1> HIDE DEF after
<1>6. after[0] = mem /\ \A i \in 1 .. N : after[i] = Next(after[i - 1], i)
  <2>1. \A i \in 1 .. N : i \in I /\ i # 0
    BY <1>1, SMT
  <2>2. 0 \in I
    BY <1>1, SMT
  <2> HIDE DEF I, Next, N
  <2> QED
    BY <1>4, <2>1, <2>2
<1> DEFINE S == {i \in 0 .. N : after[i] = Copied(mem, dst, src, A[i])}
<1>7. 0 .. N \subseteq S
  <2>1. 0 \in S
    <3>1. mem = [a \in D |-> mem[a]] /\ DOMAIN mem = D /\ A[0] = {}
      BY DEF Writes
    <3>2. Copied(mem, dst, src, {}) = mem
      BY <3>1 DEF Copied
    <3>3. 0 \in 0 .. N
      BY <1>1, SMT
    <3> QED
      BY <1>6, <3>1, <3>2, <3>3
  <2>2. ASSUME NEW i \in 0 .. N - 1, i \in S
        PROVE  i + 1 \in S
    <3> DEFINE o == st[i + 1][1]
               l == st[i + 1][2]
    <3>1. i + 1 \in 0 .. N /\ i + 1 \in 1 .. N /\ (i + 1) - 1 = i
      BY <1>1, SMT
    <3>2. after[i + 1] = Store(Copied(mem, dst, src, A[i]), dst + o, src + o, l)
      BY <1>6, <2>2, <3>1
    <3>3. /\ o \in Nat /\ l \in Nat /\ o + l <= n
          /\ A[i + 1] = A[i] \cup (dst + o .. dst + o + l - 1)
          /\ \A k \in src + o .. src + o + l - 1 : k \notin A[i]
      BY <3>1 DEF Writes
    <3> HIDE DEF o, l, N
    <3>4. after[i + 1] = Copied(mem, dst, src, A[i + 1])
      BY <3>2, <3>3, CopyStep
    <3> QED
      BY <3>1, <3>4
  <2> HIDE DEF S, N
  <2> QED
    BY <1>1, <2>1, <2>2, UpTo
<1>8. N \in 0 .. N
  BY <1>1, SMT
<1>9. after[N] = Copied(mem, dst, src, A[N])
  BY <1>7, <1>8
<1> QED
  BY <1>5, <1>9

LEMMA AllCopied ==
  ASSUME NEW mem, NEW dst, NEW src, NEW n
  PROVE  Copied(mem, dst, src, dst .. dst + n - 1) = Store(mem, dst, src, n)
BY DEF Copied, Store

(* A block written from its start on, read at lower addresses than it is   *)
(* written never, or apart.                                                *)
LEMMA Forward ==
  ASSUME NEW D, NEW mem \in [D -> Byte], NEW dst \in Nat, NEW src \in Nat, NEW n \in Nat,
         Within(mem, src, n), dst <= src \/ NoOverlap(dst, src, n)
  PROVE  memcpy(mem, dst, src, n) = Store(mem, dst, src, n)
<1> DEFINE st == Stores(dst, n)
           N == Len(st)
<1>1. PICK p : Tiles(st, 0, n, p)
  BY StoresTile DEF Tiled
<1>2. /\ st \in Seq(Int \X Int) /\ p \in [0 .. N -> 0 .. n] /\ p[0] = 0 /\ p[N] = n
      /\ \A i \in 1 .. N : st[i][1] = p[i - 1] /\ p[i] = p[i - 1] + st[i][2] /\ st[i][2] \in Nat
  BY <1>1 DEF Tiles
<1> DEFINE A == [i \in 0 .. N |-> dst .. dst + p[i] - 1]
<1>3. N \in Nat
  BY <1>2
<1>4. \A x \in 0 .. N : A[x] = dst .. dst + p[x] - 1
  OBVIOUS
<1> HIDE DEF st, N, A
<1>5. A[0] = {}
  <2>1. 0 \in 0 .. N /\ dst .. dst + 0 - 1 = {}
    BY <1>3, SMT
  <2> QED
    BY <1>2, <1>4, <2>1
<1>6. ASSUME NEW i \in 1 .. N
      PROVE  /\ st[i][1] \in Nat /\ st[i][2] \in Nat /\ st[i][1] + st[i][2] <= n
             /\ A[i] = A[i - 1] \cup (dst + st[i][1] .. dst + st[i][1] + st[i][2] - 1)
             /\ \A k \in src + st[i][1] .. src + st[i][1] + st[i][2] - 1 : k \notin A[i - 1]
  <2> DEFINE o == st[i][1]
             l == st[i][2]
  <2>1. i \in 0 .. N /\ i - 1 \in 0 .. N
    BY <1>3, SMT
  <2>2. o = p[i - 1] /\ p[i] = o + l /\ l \in Nat /\ o \in 0 .. n /\ o + l \in 0 .. n
    <3>1. p[i - 1] \in 0 .. n /\ p[i] \in 0 .. n
      BY <1>2, <2>1
    <3> QED
      BY <1>2, <3>1
  <2>3. A[i] = dst .. dst + (o + l) - 1 /\ A[i - 1] = dst .. dst + o - 1
    BY <1>4, <2>1, <2>2
  <2> HIDE DEF o, l
  <2>4. o \in Nat /\ l \in Nat /\ o + l <= n
    BY <2>2, SMT
  <2>5. dst .. dst + (o + l) - 1 = (dst .. dst + o - 1) \cup (dst + o .. dst + o + l - 1)
    BY <2>4, SMT
  <2>6. \A k \in src + o .. src + o + l - 1 : k \notin dst .. dst + o - 1
    <3>1. CASE dst <= src
      BY <2>4, <3>1, SMT
    <3>2. CASE NoOverlap(dst, src, n)
      <4>1. dst + n <= src \/ src + n <= dst
        BY <3>2 DEF NoOverlap
      <4> QED
        BY <2>4, <4>1, SMT
    <3> QED
      BY <3>1, <3>2
  <2>7. o \in Nat /\ l \in Nat /\ o + l <= n
        /\ A[i] = A[i - 1] \cup (dst + o .. dst + o + l - 1)
        /\ \A k \in src + o .. src + o + l - 1 : k \notin A[i - 1]
    BY <2>3, <2>4, <2>5, <2>6
  <2> QED
    BY <2>7 DEF o, l
<1>7. Writes(dst, src, n, st, A)
  BY <1>2, <1>5, <1>6 DEF Writes, N
<1>8. Copy(mem, dst, src, st) = Copied(mem, dst, src, A[N])
  BY <1>7, CopyIs DEF N
<1>9. A[N] = dst .. dst + n - 1
  <2>1. N \in 0 .. N
    BY <1>3, SMT
  <2> QED
    BY <1>2, <1>4, <2>1
<1> QED
  BY <1>8, <1>9, AllCopied DEF memcpy, st

(* And one written from its end on.                                        *)
LEMMA Backward ==
  ASSUME NEW D, NEW mem \in [D -> Byte], NEW dst \in Nat, NEW src \in Nat, NEW n \in Nat,
         Within(mem, src, n), dst > src
  PROVE  Copy(mem, dst, src, Reverse(ByBytes(0, n))) = Store(mem, dst, src, n)
<1> DEFINE st == Reverse(ByBytes(0, n))
           A == [i \in 0 .. n |-> dst + n - i .. dst + n - 1]
           by == [i \in 1 .. n |-> <<i - 1, 1>>]
<1>1. ByBytes(0, n) = by
  <2>1. ByBytes(0, n) = [i \in 1 .. n - 0 |-> <<0 + i - 1, 1>>]
    BY DEF ByBytes
  <2>2. n - 0 = n /\ \A i \in 1 .. n : 0 + i - 1 = i - 1
    BY SMT
  <2> QED
    BY <2>1, <2>2
<1>2. Len(by) = n /\ \A i \in 1 .. n : by[i] = <<i - 1, 1>>
  <2>1. \A i \in 1 .. n : i - 1 \in Int /\ 1 \in Int
    BY SMT
  <2>2. by \in [1 .. n -> Int \X Int]
    BY <2>1
  <2>3. Len(by) = n
    <3> HIDE DEF by
    <3> QED
      BY <2>2
  <2> QED
    BY <2>3
<1>3. st = [i \in 1 .. n |-> <<n - i, 1>>]
  <2>1. st = [i \in 1 .. n |-> by[n - i + 1]]
    <3> HIDE DEF by
    <3> QED
      BY <1>1, <1>2 DEF Reverse
  <2>2. \A i \in 1 .. n : n - i + 1 \in 1 .. n /\ (n - i + 1) - 1 = n - i
    BY SMT
  <2>3. \A i \in 1 .. n : by[n - i + 1] = <<n - i, 1>>
    <3> HIDE DEF by
    <3> QED
      BY <1>2, <2>2
  <2> HIDE DEF st, by
  <2> QED
    BY <2>1, <2>3
<1>4. st \in Seq(Int \X Int) /\ Len(st) = n
  <2>1. \A i \in 1 .. n : n - i \in Int /\ 1 \in Int
    BY SMT
  <2>2. st \in [1 .. n -> Int \X Int]
    <3> HIDE DEF st
    <3> QED
      BY <1>3, <2>1
  <2> HIDE DEF st
  <2> QED
    BY <2>2
<1>5. \A x \in 0 .. n : A[x] = dst + n - x .. dst + n - 1
  OBVIOUS
<1>6. \A i \in 1 .. n : st[i] = <<n - i, 1>>
  <2> HIDE DEF st
  <2> QED
    BY <1>3
<1> HIDE DEF st, A, by
<1>7. A[0] = {}
  <2>1. 0 \in 0 .. n /\ dst + n - 0 .. dst + n - 1 = {}
    BY SMT
  <2> QED
    BY <1>5, <2>1
<1>8. ASSUME NEW i \in 1 .. n
      PROVE  /\ st[i][1] \in Nat /\ st[i][2] \in Nat /\ st[i][1] + st[i][2] <= n
             /\ A[i] = A[i - 1] \cup (dst + st[i][1] .. dst + st[i][1] + st[i][2] - 1)
             /\ \A k \in src + st[i][1] .. src + st[i][1] + st[i][2] - 1 : k \notin A[i - 1]
  <2>1. st[i][1] = n - i /\ st[i][2] = 1
    BY <1>6
  <2>2. i \in 0 .. n /\ i - 1 \in 0 .. n /\ n - i \in Nat /\ 1 \in Nat /\ (n - i) + 1 <= n
    BY SMT
  <2>3. A[i] = dst + n - i .. dst + n - 1 /\ A[i - 1] = dst + n - (i - 1) .. dst + n - 1
    BY <1>5, <2>2
  <2>4. dst + n - i .. dst + n - 1
          = (dst + n - (i - 1) .. dst + n - 1) \cup (dst + (n - i) .. dst + (n - i) + 1 - 1)
    BY SMT
  <2>5. \A k \in src + (n - i) .. src + (n - i) + 1 - 1 : k \notin dst + n - (i - 1) .. dst + n - 1
    BY SMT
  <2> QED
    BY <2>1, <2>2, <2>3, <2>4, <2>5
<1>9. Writes(dst, src, n, st, A)
  BY <1>4, <1>7, <1>8 DEF Writes
<1>10. Copy(mem, dst, src, st) = Copied(mem, dst, src, A[n])
  BY <1>4, <1>9, CopyIs
<1>11. A[n] = dst .. dst + n - 1
  <2>1. n \in 0 .. n /\ dst + n - n = dst
    BY SMT
  <2> QED
    BY <1>5, <2>1
<1> QED
  BY <1>10, <1>11, AllCopied DEF st

LEMMA MemmoveIs ==
  ASSUME NEW D, NEW mem \in [D -> Byte], NEW dst \in Nat, NEW src \in Nat, NEW n \in Nat,
         Within(mem, src, n)
  PROVE  memmove(mem, dst, src, n) = Store(mem, dst, src, n)
<1>1. CASE dst > src
  BY <1>1, Backward DEF memmove
<1>2. CASE dst < src
  <2>1. dst <= src /\ ~ (dst > src)
    BY <1>2, SMT
  <2> QED
    BY <1>2, <2>1, Forward DEF memmove
<1>3. CASE dst = src
  <2>1. ~ (dst > src) /\ ~ (dst < src)
    BY <1>3, SMT
  <2>2. memmove(mem, dst, src, n) = mem
    BY <2>1 DEF memmove
  <2>3. Store(mem, dst, src, n)
          = [a \in D |-> IF a \in dst .. dst + n - 1 THEN mem[src + a - dst] ELSE mem[a]]
    BY DEF Store
  <2>4. \A a \in dst .. dst + n - 1 : src + a - dst = a
    BY <1>3, SMT
  <2>5. mem = [a \in D |-> mem[a]]
    OBVIOUS
  <2> QED
    BY <2>2, <2>3, <2>4, <2>5
<1>4. dst > src \/ dst < src \/ dst = src
  BY SMT
<1> QED
  BY <1>1, <1>2, <1>3, <1>4

LEMMA SetStep ==
  ASSUME NEW mem, NEW dst \in Nat, NEW c, NEW o \in Nat, NEW l \in Nat
  PROVE  Set(Set(mem, dst, o, c), dst + o, l, c) = Set(mem, dst, o + l, c)
<1> DEFINE D == DOMAIN mem
           m == Set(mem, dst, o, c)
           I == dst .. dst + o - 1
           K == dst + o .. (dst + o) + l - 1
           J == dst .. dst + (o + l) - 1
<1>1. m = [a \in D |-> IF a \in I THEN c ELSE mem[a]]
  BY DEF Set
<1>2. Set(m, dst + o, l, c) = [a \in DOMAIN m |-> IF a \in K THEN c ELSE m[a]]
  BY DEF Set
<1>3. Set(mem, dst, o + l, c) = [a \in D |-> IF a \in J THEN c ELSE mem[a]]
  BY DEF Set
<1>4. J = I \cup K
  BY SMT
<1> HIDE DEF D, I, K, J, m
<1>5. DOMAIN m = D /\ \A a \in D : m[a] = IF a \in I THEN c ELSE mem[a]
  BY <1>1
<1>6. \A a \in D : (IF a \in K THEN c ELSE m[a]) = IF a \in J THEN c ELSE mem[a]
  BY <1>4, <1>5
<1>7. Set(m, dst + o, l, c) = Set(mem, dst, o + l, c)
  BY <1>2, <1>3, <1>5, <1>6
<1> QED
  BY <1>7 DEF m

LEMMA MemsetIs ==
  ASSUME NEW D, NEW mem \in [D -> Byte], NEW s \in Nat, NEW c \in Byte, NEW n \in Nat
  PROVE  memset(mem, s, c, n) = Set(mem, s, n, c)
<1> DEFINE st == Stores(s, n)
           N == Len(st)
           V == [D -> Byte]
           I == 0 .. N
           Next(m, i) == Set(m, s + st[i][1], st[i][2], c)
           G == [x \in V \X (1 .. N) |-> Next(x[1], x[2])]
           Is(f) == f = [i \in I |-> IF i = 0 THEN mem ELSE Next(f[i - 1], i)]
           after == CHOOSE f : Is(f)
<1>0. PICK p : Tiles(st, 0, n, p)
  BY StoresTile DEF Tiled
<1>1. /\ st \in Seq(Int \X Int) /\ p \in [0 .. N -> 0 .. n] /\ p[0] = 0 /\ p[N] = n
      /\ \A i \in 1 .. N : st[i][1] = p[i - 1] /\ p[i] = p[i - 1] + st[i][2] /\ st[i][2] \in Nat
      /\ N \in Nat
  BY <1>0 DEF Tiles
<1>2. ASSUME NEW m \in V, NEW i \in 1 .. N
      PROVE  Next(m, i) \in V
  BY DEF Set
<1>3. \E f : Is(f)
  <2>1. G \in [V \X (1 .. N) -> V]
    <3>1. \A x \in V \X (1 .. N) : x[1] \in V /\ x[2] \in 1 .. N
      OBVIOUS
    <3>2. \A x \in V \X (1 .. N) : Next(x[1], x[2]) \in V
      <4> HIDE DEF V, Next, N
      <4> QED
        BY <1>2, <3>1
    <3> HIDE DEF V, Next, N
    <3> QED
      BY <3>2
  <2>2. PICK f \in [0 .. N -> V] : IsLoop(f, N, mem, G)
    <3>1. mem \in V
      OBVIOUS
    <3> HIDE DEF G, V, N
    <3> QED
      BY <1>1, <2>1, <3>1, Iteration
  <2>3. \A i \in I : (IF i = 0 THEN mem ELSE G[<<f[i - 1], i>>])
                       = IF i = 0 THEN mem ELSE Next(f[i - 1], i)
    <3> TAKE i \in I
    <3>1. CASE i # 0
      <4>1. i - 1 \in 0 .. N /\ i \in 1 .. N
        BY <1>1, <3>1, SMT
      <4>2. <<f[i - 1], i>> \in V \X (1 .. N)
        BY <4>1
      <4> HIDE DEF V, N, Next
      <4> QED
        BY <3>1, <4>2
    <3> QED
      BY <3>1
  <2>4. f = [i \in I |-> IF i = 0 THEN mem ELSE G[<<f[i - 1], i>>]]
    BY <2>2 DEF IsLoop
  <2>5. Is(f)
    <3> HIDE DEF G, Next, I
    <3> QED
      BY <2>3, <2>4
  <2> HIDE DEF Is
  <2> QED
    BY <2>5
<1>4. Is(after)
  <2> HIDE DEF Is
  <2> QED
    BY <1>3
<1>5. memset(mem, s, c, n) = after[N]
  BY DEF memset
<1> HIDE DEF after
<1>6. after[0] = mem /\ \A i \in 1 .. N : after[i] = Next(after[i - 1], i)
  <2>1. \A i \in 1 .. N : i \in I /\ i # 0
    BY <1>1, SMT
  <2>2. 0 \in I
    BY <1>1, SMT
  <2> HIDE DEF I, Next, N
  <2> QED
    BY <1>4, <2>1, <2>2
<1> DEFINE S == {i \in 0 .. N : after[i] = Set(mem, s, p[i], c)}
<1>7. 0 .. N \subseteq S
  <2>1. 0 \in S
    <3>1. mem = [a \in D |-> mem[a]] /\ DOMAIN mem = D /\ s .. s + 0 - 1 = {}
      BY SMT
    <3>2. Set(mem, s, 0, c) = mem
      BY <3>1 DEF Set
    <3>3. 0 \in 0 .. N
      BY <1>1, SMT
    <3> QED
      BY <1>1, <1>6, <3>2, <3>3
  <2>2. ASSUME NEW i \in 0 .. N - 1, i \in S
        PROVE  i + 1 \in S
    <3> DEFINE l == st[i + 1][2]
    <3>1. i + 1 \in 0 .. N /\ i + 1 \in 1 .. N /\ (i + 1) - 1 = i /\ i \in 0 .. N
      BY <1>1, SMTT(30)
    <3>2. st[i + 1][1] = p[i] /\ p[i + 1] = p[i] + l /\ l \in Nat
      BY <1>1, <3>1
    <3>3. p[i] \in Nat
      <4>1. p[i] \in 0 .. n
        BY <1>1, <3>1
      <4> QED
        BY <4>1, SMT
    <3>4. after[i + 1] = Set(Set(mem, s, p[i], c), s + p[i], l, c)
      BY <1>6, <2>2, <3>1, <3>2
    <3> HIDE DEF l, N
    <3>5. after[i + 1] = Set(mem, s, p[i + 1], c)
      BY <3>2, <3>4, <3>3, SetStep
    <3> QED
      BY <3>1, <3>5
  <2> HIDE DEF S, N
  <2> QED
    BY <1>1, <2>1, <2>2, UpTo
<1>8. N \in 0 .. N
  BY <1>1, SMT
<1>9. after[N] = Set(mem, s, p[N], c)
  BY <1>7, <1>8
<1> QED
  BY <1>1, <1>5, <1>9

------------------------------------------------------------------------------
(* Comparisons.  The order of two sequences is that of their first         *)
(* elements that differ, where an end comes before every byte.             *)
At(s, i) == IF i <= Len(s) THEN s[i] ELSE -1

LEMMA Char ==
  ASSUME NEW s \in Seq(Byte), NEW k \in 1 .. Len(s)
  PROVE  s[k] \in Byte /\ s[k] \in Nat
<1>1. s[k] \in Byte
  OBVIOUS
<1>2. \A x \in Byte : x \in Nat
  BY SMT DEF Byte
<1> QED
  BY <1>1, <1>2

LEMMA Prefix ==
  ASSUME NEW s \in Seq(Byte), NEW t \in Seq(Byte)
  PROVE  IsPrefix(s, t) <=> Len(s) <= Len(t) /\ \A i \in 1 .. Len(s) : s[i] = t[i]
<1> DEFINE n == Len(s)
<1>1. n \in Nat /\ Len(t) \in Nat
  OBVIOUS
<1>2. SubSeq(s, 1, n) = [i \in 1 .. n |-> s[i]]
  <2>1. \A i \in 1 .. n : 1 + i - 1 = i
    BY SMT
  <2> QED
    BY <2>1, SMT
<1>3. SubSeq(t, 1, n) = [i \in 1 .. n |-> t[i]]
  BY SMT
<1> HIDE DEF n
<1>4. SubSeq(s, 1, n) = SubSeq(t, 1, n) <=> \A i \in 1 .. n : s[i] = t[i]
  BY <1>2, <1>3
<1> QED
  BY <1>4 DEF IsPrefix, n

LEMMA BeforeIs ==
  ASSUME NEW s \in Seq(Byte), NEW t \in Seq(Byte), NEW i \in Nat \ {0},
         i <= Len(s) + 1, i <= Len(t) + 1, \A j \in 1 .. i - 1 : s[j] = t[j],
         At(s, i) # At(t, i) \/ (i = Len(s) + 1 /\ i = Len(t) + 1)
  PROVE  Before(s, t) <=> At(s, i) < At(t, i)
<1> DEFINE m == Len(s)
           n == Len(t)
<1>1. m \in Nat /\ n \in Nat /\ DOMAIN s = 1 .. m /\ DOMAIN t = 1 .. n
  OBVIOUS
<1>2. \A k \in 1 .. m : s[k] \in Nat
  BY Char
<1>3. \A k \in 1 .. n : t[k] \in Nat
  BY Char
<1>4. IsPrefix(s, t) <=> m <= n /\ \A k \in 1 .. m : s[k] = t[k]
  BY Prefix
<1>5. At(s, i) = (IF i <= m THEN s[i] ELSE -1) /\ At(t, i) = (IF i <= n THEN t[i] ELSE -1)
  BY DEF At
<1>6. m = n /\ (\A k \in 1 .. m : s[k] = t[k]) => s = t
  <2>1. s = [k \in 1 .. m |-> s[k]] /\ t = [k \in 1 .. n |-> t[k]]
    OBVIOUS
  <2> QED
    BY <2>1
<1>7. s = t => m = n
  OBVIOUS
<1> HIDE DEF m, n
<1>8. i <= m + 1 /\ i <= n + 1
  BY DEF m, n
<1>9. CASE i <= m /\ i <= n
  <2>1. At(s, i) = s[i] /\ At(t, i) = t[i] /\ s[i] \in Nat /\ t[i] \in Nat /\ i \in 1 .. m
        /\ i \in 1 .. n /\ s[i] # t[i]
    <3>1. i \in 1 .. m /\ i \in 1 .. n /\ i # m + 1
      BY <1>1, <1>9, SMT
    <3> QED
      BY <1>2, <1>3, <1>5, <1>9, <3>1 DEF m
  <2>2. ~ IsPrefix(s, t)
    BY <1>4, <2>1
  <2>3. ASSUME NEW k \in DOMAIN s \cap DOMAIN t, s[k] < t[k], \A j \in 1 .. k - 1 : s[j] = t[j]
        PROVE  k = i
    <3>1. k \in 1 .. m /\ k \in 1 .. n
      BY <1>1
    <3>2. s[k] \in Nat /\ t[k] \in Nat
      BY <1>2, <1>3, <3>1
    <3>3. s[k] # t[k]
      BY <2>3, <3>2, SMT
    <3>4. ~ (k \in 1 .. i - 1) /\ ~ (i \in 1 .. k - 1)
      BY <2>1, <2>3, <3>3
    <3> QED
      BY <1>1, <3>1, <3>4, SMT
  <2>4. s[i] < t[i] => Before(s, t)
    BY <1>1, <2>1 DEF Before
  <2>5. Before(s, t) => s[i] < t[i]
    BY <2>2, <2>3 DEF Before, IsStrictPrefix
  <2> QED
    BY <2>1, <2>4, <2>5
<1>10. CASE ~ (i <= m) \/ ~ (i <= n)
  <2>1. ~ \E k \in DOMAIN s \cap DOMAIN t : s[k] < t[k] /\ \A j \in 1 .. k - 1 : s[j] = t[j]
    <3> SUFFICES ASSUME NEW k \in DOMAIN s \cap DOMAIN t, s[k] < t[k]
                 PROVE  FALSE
      OBVIOUS
    <3>1. k \in 1 .. m /\ k \in 1 .. n
      BY <1>1
    <3>2. k \in 1 .. i - 1
      BY <1>1, <1>8, <1>10, <3>1, SMT
    <3>3. s[k] \in Nat /\ s[k] = t[k]
      BY <1>2, <3>1, <3>2
    <3> QED
      BY <3>3, SMT
  <2>2. Before(s, t) <=> IsPrefix(s, t) /\ s # t
    BY <2>1 DEF Before, IsStrictPrefix
  <2>3. CASE ~ (i <= m)
    <3>1. i = m + 1 /\ m <= n /\ i - 1 = m
      BY <1>1, <1>8, <2>3, SMT
    <3>2. IsPrefix(s, t)
      BY <1>4, <3>1
    <3>3. CASE i <= n
      <4>1. i \in 1 .. n /\ m # n
        BY <1>1, <3>1, <3>3, SMT
      <4>2. s # t /\ At(s, i) = -1 /\ At(t, i) = t[i] /\ t[i] \in Nat
        BY <1>3, <1>5, <1>7, <2>3, <3>3, <4>1
      <4>3. At(s, i) < At(t, i)
        BY <4>2, SMT
      <4> QED
        BY <2>2, <3>2, <4>2, <4>3
    <3>4. CASE ~ (i <= n)
      <4>1. m = n
        BY <1>1, <1>8, <3>1, <3>4, SMT
      <4>2. s = t
        BY <1>6, <3>1, <4>1
      <4>3. ~ (At(s, i) < At(t, i))
        BY <1>5, <2>3, <3>4, SMT
      <4> QED
        BY <2>2, <4>2, <4>3
    <3> QED
      BY <3>3, <3>4
  <2>4. CASE i <= m
    <3>1. i = n + 1 /\ ~ (m <= n) /\ ~ (i <= n) /\ i \in 1 .. m
      BY <1>1, <1>8, <1>10, <2>4, SMT
    <3>2. At(t, i) = -1 /\ At(s, i) \in Nat
      BY <1>2, <1>5, <2>4, <3>1
    <3>3. ~ (At(s, i) < At(t, i))
      BY <3>2, SMT
    <3> QED
      BY <1>4, <2>2, <3>1, <3>3
  <2> QED
    BY <2>3, <2>4
<1> QED
  BY <1>9, <1>10

LEMMA OrderIs ==
  ASSUME NEW s \in Seq(Byte), NEW t \in Seq(Byte), NEW i \in Nat \ {0},
         i <= Len(s) + 1, i <= Len(t) + 1, \A j \in 1 .. i - 1 : s[j] = t[j],
         At(s, i) # At(t, i) \/ (i = Len(s) + 1 /\ i = Len(t) + 1)
  PROVE  Order(s, t) = Sign(At(s, i), At(t, i))
<1>1. Before(s, t) <=> At(s, i) < At(t, i)
  BY BeforeIs
<1>2. Before(t, s) <=> At(t, i) < At(s, i)
  <2>1. \A j \in 1 .. i - 1 : t[j] = s[j]
    OBVIOUS
  <2>2. At(t, i) # At(s, i) \/ (i = Len(t) + 1 /\ i = Len(s) + 1)
    OBVIOUS
  <2> QED
    BY <2>1, <2>2, BeforeIs
<1>3. At(s, i) \in Int /\ At(t, i) \in Int
  <2>1. ASSUME NEW u \in Seq(Byte)
        PROVE  At(u, i) \in Int
    <3>1. CASE i <= Len(u)
      <4>1. i \in 1 .. Len(u)
        BY <3>1, SMT
      <4>2. u[i] \in Int
        BY <4>1, Char
      <4> QED
        BY <3>1, <4>2 DEF At
    <3>2. CASE ~ (i <= Len(u))
      BY <3>2 DEF At
    <3> QED
      BY <3>1, <3>2
  <2> QED
    BY <2>1
<1> DEFINE x == At(s, i)
           y == At(t, i)
<1>4. Order(s, t) = IF x < y THEN -1 ELSE IF y < x THEN 1 ELSE 0
  BY <1>1, <1>2 DEF Order
<1>5. Sign(x, y) = IF x > y THEN 1 ELSE IF x < y THEN -1 ELSE 0
  BY DEF Sign
<1>6. (IF x < y THEN -1 ELSE IF y < x THEN 1 ELSE 0)
        = IF x > y THEN 1 ELSE IF x < y THEN -1 ELSE 0
  <2> HIDE DEF x, y
  <2> QED
    BY <1>3 DEF x, y
<1> QED
  BY <1>4, <1>5, <1>6

(* A comparison that stops at i compares the first a bytes of s with the   *)
(* first b of t.                                                           *)
LEMMA PrefixOrder ==
  ASSUME NEW s \in Seq(Byte), NEW t \in Seq(Byte), NEW a \in 0 .. Len(s), NEW b \in 0 .. Len(t),
         NEW i \in Nat \ {0}, i <= Len(s), i <= Len(t), i <= a + 1, i <= b + 1,
         \A j \in 1 .. i - 1 : s[j] = t[j],
         i = a + 1 => s[i] = 0 /\ (i <= b => t[i] # 0),
         i = b + 1 => t[i] = 0 /\ (i <= a => s[i] # 0),
         i <= a /\ i <= b /\ s[i] = t[i] => i = a /\ i = b
  PROVE  Order(SubSeq(s, 1, a), SubSeq(t, 1, b)) = Sign(s[i], t[i])
<1> DEFINE u == SubSeq(s, 1, a)
           v == SubSeq(t, 1, b)
<1>0. a \in Nat /\ b \in Nat /\ a <= Len(s) /\ b <= Len(t) /\ Len(s) \in Nat /\ Len(t) \in Nat
  BY SMT
<1>1. /\ u \in Seq(Byte) /\ Len(u) = a /\ \A j \in 1 .. a : u[j] = s[j]
      /\ v \in Seq(Byte) /\ Len(v) = b /\ \A j \in 1 .. b : v[j] = t[j]
  BY <1>0, SMT
<1> HIDE DEF u, v
<1>2. s[i] \in Nat /\ t[i] \in Nat
  <2>1. i \in 1 .. Len(s) /\ i \in 1 .. Len(t)
    BY <1>0, SMT
  <2> QED
    BY <2>1, Char
<1>3. \A j \in 1 .. i - 1 : u[j] = v[j]
  <2>1. \A j \in 1 .. i - 1 : j \in 1 .. a /\ j \in 1 .. b
    BY <1>0, SMT
  <2> QED
    BY <1>1, <2>1
<1>4. CASE i <= a /\ i <= b /\ s[i] = t[i]
  <2>1. i = a /\ i = b /\ i \in 1 .. a /\ i \in 1 .. b
    BY <1>4, SMT
  <2>2. \A j \in 1 .. (i + 1) - 1 : u[j] = v[j]
    <3>1. u[i] = v[i]
      BY <1>1, <1>4, <2>1
    <3>2. \A j \in 1 .. (i + 1) - 1 : j = i \/ j \in 1 .. i - 1
      BY SMT
    <3> QED
      BY <1>3, <3>1, <3>2
  <2>3. /\ i + 1 \in Nat \ {0} /\ i + 1 <= Len(u) + 1 /\ i + 1 <= Len(v) + 1
        /\ i + 1 = Len(u) + 1 /\ i + 1 = Len(v) + 1 /\ ~ (i + 1 <= a) /\ ~ (i + 1 <= b)
    BY <1>0, <1>1, <2>1, SMT
  <2>4. Order(u, v) = Sign(At(u, i + 1), At(v, i + 1))
    BY <1>1, <2>2, <2>3, OrderIs
  <2>5. Sign(At(u, i + 1), At(v, i + 1)) = 0
    <3>1. At(u, i + 1) = -1 /\ At(v, i + 1) = -1
      BY <1>1, <2>3 DEF At
    <3> QED
      BY <3>1, SMT DEF Sign
  <2>6. Sign(s[i], t[i]) = 0
    BY <1>2, <1>4, SMT DEF Sign
  <2> QED
    BY <2>4, <2>5, <2>6 DEF u, v
<1>5. CASE ~ (i <= a /\ i <= b /\ s[i] = t[i])
  <2>1. At(u, i) = (IF i <= a THEN s[i] ELSE -1) /\ At(v, i) = (IF i <= b THEN t[i] ELSE -1)
    <3>1. (i <= a => i \in 1 .. a) /\ (i <= b => i \in 1 .. b)
      BY SMT
    <3> QED
      BY <1>1, <3>1 DEF At
  <2>2. /\ At(u, i) # At(v, i) \/ (i = Len(u) + 1 /\ i = Len(v) + 1)
        /\ Sign(At(u, i), At(v, i)) = Sign(s[i], t[i])
    <3>1. CASE i <= a /\ i <= b
      BY <1>5, <2>1, <3>1
    <3>2. CASE i <= a /\ ~ (i <= b)
      <4>1. i = b + 1
        BY <1>0, <3>2, SMT
      <4>2. At(u, i) = s[i] /\ At(v, i) = -1 /\ t[i] = 0 /\ s[i] # 0
        BY <2>1, <3>2, <4>1
      <4> QED
        BY <1>2, <4>2, SMT DEF Sign
    <3>3. CASE ~ (i <= a) /\ i <= b
      <4>1. i = a + 1
        BY <1>0, <3>3, SMT
      <4>2. At(v, i) = t[i] /\ At(u, i) = -1 /\ s[i] = 0 /\ t[i] # 0
        BY <2>1, <3>3, <4>1
      <4> QED
        BY <1>2, <4>2, SMT DEF Sign
    <3>4. CASE ~ (i <= a) /\ ~ (i <= b)
      <4>1. i = a + 1 /\ i = b + 1
        BY <1>0, <3>4, SMT
      <4>2. At(v, i) = -1 /\ At(u, i) = -1 /\ s[i] = 0 /\ t[i] = 0
        BY <2>1, <3>4, <4>1
      <4> QED
        BY <1>1, <4>1, <4>2, SMT DEF Sign
    <3> QED
      BY <3>1, <3>2, <3>3, <3>4
  <2>3. i <= Len(u) + 1 /\ i <= Len(v) + 1
    BY <1>1
  <2>4. Order(u, v) = Sign(At(u, i), At(v, i))
    BY <1>1, <1>3, <2>2, <2>3, OrderIs
  <2> QED
    BY <2>2, <2>4 DEF u, v
<1> QED
  BY <1>4, <1>5

(* Where a comparison stops.                                               *)
Stop(s, t, stops, i) ==
  /\ i \in {j \in DOMAIN s \cap DOMAIN t : s[j] # t[j]} \cup stops
  /\ \A j \in {j \in DOMAIN s \cap DOMAIN t : s[j] # t[j]} \cup stops : i <= j

LEMMA Stops ==
  ASSUME NEW s \in Seq(Byte), NEW t \in Seq(Byte), NEW stops \in SUBSET (Nat \ {0}),
         NEW k \in stops, k <= Len(s), k <= Len(t)
  PROVE  \E i \in Nat \ {0} :
           /\ Stop(s, t, stops, i) /\ i <= k /\ \A j \in 1 .. i - 1 : s[j] = t[j]
           /\ Compare(s, t, stops) = Sign(s[i], t[i])
<1> DEFINE S == {j \in DOMAIN s \cap DOMAIN t : s[j] # t[j]} \cup stops
<1>1. S \in SUBSET Nat /\ 0 \notin S /\ k \in S
  <2>1. \A j \in DOMAIN s : j \in Nat \ {0}
    BY SMT
  <2>2. {j \in DOMAIN s \cap DOMAIN t : s[j] # t[j]} \in SUBSET (Nat \ {0})
    BY <2>1
  <2> QED
    BY <2>2
<1>2. PICK i \in S : \A j \in S : i <= j
  <2> HIDE DEF S
  <2> QED
    BY <1>1, LeastNumber
<1>3. i \in Nat \ {0} /\ i <= k
  <2> HIDE DEF S
  <2> QED
    BY <1>1, <1>2
<1>4. Stop(s, t, stops, i)
  BY <1>2 DEF Stop
<1>5. Min(S) = i
  <2> HIDE DEF S
  <2>1. S \in SUBSET Int
    BY <1>1, SMT
  <2> QED
    BY <1>2, <2>1, MinIs
<1>6. Compare(s, t, stops) = Sign(s[i], t[i])
  BY <1>5 DEF Compare
<1>7. ASSUME NEW j \in 1 .. i - 1
      PROVE  s[j] = t[j]
  <2>1. j \in 1 .. Len(s) /\ j \in 1 .. Len(t) /\ ~ (i <= j)
    BY <1>3, SMT
  <2>2. j \in DOMAIN s \cap DOMAIN t /\ j \notin S
    BY <1>2, <2>1
  <2> QED
    BY <2>2
<1> QED
  BY <1>3, <1>4, <1>6, <1>7

(* The first NUL of a string.                                              *)
Ends(s, m) == m \in Nuls(s) /\ \A j \in Nuls(s) : m <= j

LEMMA FirstNul ==
  ASSUME NEW s \in Seq(Byte), Nuls(s) # {}
  PROVE  \E m \in 1 .. Len(s) :
           /\ Ends(s, m) /\ s[m] = 0 /\ \A j \in 1 .. m - 1 : s[j] # 0
           /\ Chars(s) = SubSeq(s, 1, m - 1)
<1> DEFINE S == Nuls(s)
<1>1. S = {i \in DOMAIN s : s[i] = 0}
  BY DEF Nuls
<1>2. S \in SUBSET Nat /\ S \in SUBSET (1 .. Len(s)) /\ S \in SUBSET Int
  BY <1>1, SMT
<1>3. PICK m \in S : \A k \in S : m <= k
  <2> HIDE DEF S
  <2> QED
    BY <1>2, LeastNumber DEF S
<1>4. Ends(s, m) /\ m \in 1 .. Len(s) /\ s[m] = 0
  BY <1>1, <1>2, <1>3 DEF Ends
<1>5. Min(S) = m
  <2> HIDE DEF S
  <2> QED
    BY <1>2, <1>3, MinIs
<1>6. Chars(s) = SubSeq(s, 1, m - 1)
  BY <1>1, <1>5 DEF Chars
<1>7. ASSUME NEW j \in 1 .. m - 1
      PROVE  s[j] # 0
  <2>1. j \in 1 .. Len(s) /\ ~ (m <= j)
    BY <1>4, SMT
  <2> QED
    BY <1>1, <1>3, <2>1
<1> QED
  BY <1>4, <1>6, <1>7

LEMMA FirstNIs ==
  ASSUME NEW s \in Seq(Byte), NEW m \in 0 .. Len(s), NEW n \in Nat
  PROVE  FirstN(SubSeq(s, 1, m), n) = SubSeq(s, 1, IF n <= m THEN n ELSE m)
<1> DEFINE u == SubSeq(s, 1, m)
           k == IF n <= m THEN n ELSE m
<1>1. m \in Nat /\ m <= Len(s) /\ Len(s) \in Nat
  BY SMT
<1>2. u \in Seq(Byte) /\ Len(u) = m /\ \A j \in 1 .. m : u[j] = s[j]
  BY <1>1, SMT
<1> HIDE DEF u
<1>3. k \in {n, Len(u)} /\ (\A j \in {n, Len(u)} : k <= j) /\ {n, Len(u)} \in SUBSET Int
  BY <1>1, <1>2, SMT
<1>4. Min({n, Len(u)}) = k
  <2> HIDE DEF k
  <2> QED
    BY <1>3, MinIs
<1>5. FirstN(u, n) = SubSeq(u, 1, k)
  BY <1>4 DEF FirstN
<1>6. k \in Nat /\ k <= m /\ k <= Len(u) /\ k <= Len(s)
  BY <1>1, <1>2, SMT
<1> HIDE DEF k
<1>7. SubSeq(u, 1, k) = [j \in 1 .. k |-> u[j]]
  BY <1>2, <1>6, SMT
<1>8. SubSeq(s, 1, k) = [j \in 1 .. k |-> s[j]]
  BY <1>1, <1>6, SMT
<1>9. \A j \in 1 .. k : u[j] = s[j]
  <2>1. \A j \in 1 .. k : j \in 1 .. m
    BY <1>1, <1>6, SMT
  <2> QED
    BY <1>2, <2>1
<1>10. FirstN(u, n) = SubSeq(s, 1, k)
  BY <1>5, <1>7, <1>8, <1>9
<1> QED
  BY <1>10 DEF u, k

LEMMA WholeSeq ==
  ASSUME NEW s \in Seq(Byte)
  PROVE  SubSeq(s, 1, Len(s)) = s
BY SMT

LEMMA NoneBefore ==
  Order(<< >>, << >>) = 0
<1>1. << >> \in Seq(Byte) /\ Len(<< >>) = 0
  OBVIOUS
<1>2. /\ 1 \in Nat \ {0} /\ 1 <= Len(<< >>) + 1 /\ 1 = Len(<< >>) + 1 /\ ~ (1 <= 0)
      /\ \A j \in 1 .. 1 - 1 : << >>[j] = << >>[j]
  BY <1>1, SMT
<1>3. Order(<< >>, << >>) = Sign(At(<< >>, 1), At(<< >>, 1))
  BY <1>1, <1>2, OrderIs
<1>4. At(<< >>, 1) = -1
  BY <1>1, <1>2 DEF At
<1> QED
  BY <1>3, <1>4, SMT DEF Sign

LEMMA StrcmpIs ==
  ASSUME NEW s \in Seq(Byte), NEW t \in Seq(Byte), Nuls(s) # {}, Nuls(t) # {}
  PROVE  strcmp(s, t) = Order(Chars(s), Chars(t))
<1> DEFINE stops == Nuls(s) \cup Nuls(t)
<1>1. PICK m \in 1 .. Len(s) : /\ Ends(s, m) /\ s[m] = 0 /\ \A j \in 1 .. m - 1 : s[j] # 0
                               /\ Chars(s) = SubSeq(s, 1, m - 1)
  BY FirstNul
<1>2. PICK n \in 1 .. Len(t) : /\ Ends(t, n) /\ t[n] = 0 /\ \A j \in 1 .. n - 1 : t[j] # 0
                               /\ Chars(t) = SubSeq(t, 1, n - 1)
  BY FirstNul
<1> DEFINE k == IF m <= n THEN m ELSE n
<1>3. m \in stops /\ n \in stops
  BY <1>1, <1>2 DEF Ends
<1>4. stops \in SUBSET (Nat \ {0})
  <2>1. (\A j \in DOMAIN s : j \in Nat \ {0}) /\ (\A j \in DOMAIN t : j \in Nat \ {0})
    BY SMT
  <2> QED
    BY <2>1 DEF Nuls
<1>5. k \in stops /\ k <= Len(s) /\ k <= Len(t) /\ k <= m /\ k <= n
  <2>1. (k = m \/ k = n) /\ k <= Len(s) /\ k <= Len(t) /\ k <= m /\ k <= n
    BY SMT
  <2> QED
    BY <1>3, <2>1
<1>6. PICK i \in Nat \ {0} :
        /\ Stop(s, t, stops, i) /\ i <= k /\ \A j \in 1 .. i - 1 : s[j] = t[j]
        /\ Compare(s, t, stops) = Sign(s[i], t[i])
  <2>1. /\ stops \in SUBSET (Nat \ {0}) /\ k \in stops /\ k <= Len(s) /\ k <= Len(t)
        /\ s \in Seq(Byte) /\ t \in Seq(Byte)
    BY <1>4, <1>5
  <2> HIDE DEF stops, k
  <2> QED
    BY ONLY <2>1, Stops
<1>7. /\ i <= Len(s) /\ i <= Len(t) /\ i <= m /\ i <= n /\ m - 1 \in 0 .. Len(s)
      /\ n - 1 \in 0 .. Len(t) /\ i <= (m - 1) + 1 /\ i <= (n - 1) + 1
      /\ i \in 1 .. Len(s) /\ i \in 1 .. Len(t)
  BY <1>5, <1>6, SMT
<1>8. i = (m - 1) + 1 => s[i] = 0 /\ (i <= n - 1 => t[i] # 0)
  <2>1. (i = (m - 1) + 1 => i = m) /\ (i <= n - 1 => i \in 1 .. n - 1)
    BY SMT
  <2> QED
    BY <1>1, <1>2, <2>1
<1>9. i = (n - 1) + 1 => t[i] = 0 /\ (i <= m - 1 => s[i] # 0)
  <2>1. (i = (n - 1) + 1 => i = n) /\ (i <= m - 1 => i \in 1 .. m - 1)
    BY SMT
  <2> QED
    BY <1>1, <1>2, <2>1
<1>10. ~ (i <= m - 1 /\ i <= n - 1 /\ s[i] = t[i])
  <2> SUFFICES ASSUME i <= m - 1, i <= n - 1, s[i] = t[i]
               PROVE  FALSE
    OBVIOUS
  <2>1. i \in 1 .. m - 1 /\ i \in 1 .. n - 1
    BY SMT
  <2>2. s[i] # 0 /\ t[i] # 0
    BY <1>1, <1>2, <2>1
  <2>3. i \in stops
    BY <1>6 DEF Stop
  <2> QED
    BY <2>2, <2>3 DEF Nuls
<1>11. Order(SubSeq(s, 1, m - 1), SubSeq(t, 1, n - 1)) = Sign(s[i], t[i])
  <2>1. /\ s \in Seq(Byte) /\ t \in Seq(Byte) /\ i \in Nat \ {0}
        /\ m - 1 \in 0 .. Len(s) /\ n - 1 \in 0 .. Len(t)
        /\ i <= Len(s) /\ i <= Len(t) /\ i <= (m - 1) + 1 /\ i <= (n - 1) + 1
        /\ \A j \in 1 .. i - 1 : s[j] = t[j]
    BY <1>6, <1>7
  <2> QED
    BY ONLY <2>1, <1>8, <1>9, <1>10, PrefixOrder, SMTT(30)
<1> QED
  BY <1>1, <1>2, <1>6, <1>11 DEF strcmp

LEMMA StrncmpIs ==
  ASSUME NEW s \in Seq(Byte), NEW t \in Seq(Byte), Nuls(s) # {}, Nuls(t) # {},
         NEW N \in Nat, N <= Len(s), N <= Len(t)
  PROVE  strncmp(s, t, N) = Order(FirstN(Chars(s), N), FirstN(Chars(t), N))
<1> DEFINE stops == Nuls(s) \cup Nuls(t) \cup {N}
<1>1. PICK m \in 1 .. Len(s) : /\ Ends(s, m) /\ s[m] = 0 /\ \A j \in 1 .. m - 1 : s[j] # 0
                               /\ Chars(s) = SubSeq(s, 1, m - 1)
  BY FirstNul
<1>2. PICK n \in 1 .. Len(t) : /\ Ends(t, n) /\ t[n] = 0 /\ \A j \in 1 .. n - 1 : t[j] # 0
                               /\ Chars(t) = SubSeq(t, 1, n - 1)
  BY FirstNul
<1> DEFINE a == IF N <= m - 1 THEN N ELSE m - 1
           b == IF N <= n - 1 THEN N ELSE n - 1
<1>3. FirstN(Chars(s), N) = SubSeq(s, 1, a) /\ FirstN(Chars(t), N) = SubSeq(t, 1, b)
  <2>1. m - 1 \in 0 .. Len(s) /\ n - 1 \in 0 .. Len(t)
    BY SMT
  <2> QED
    BY <1>1, <1>2, <2>1, FirstNIs
<1>4. CASE N = 0
  <2>1. a = 0 /\ b = 0
    BY <1>4, SMT
  <2>2. SubSeq(s, 1, 0) = << >> /\ SubSeq(t, 1, 0) = << >>
    BY SMT
  <2> QED
    BY <1>3, <1>4, <2>1, <2>2, NoneBefore DEF strncmp
<1>5. CASE N # 0
  <2> DEFINE l == IF m <= n THEN m ELSE n
             k == IF N <= l THEN N ELSE l
  <2>1. m \in stops /\ n \in stops /\ N \in stops
    BY <1>1, <1>2 DEF Ends
  <2>2. stops \in SUBSET (Nat \ {0})
    <3>1. (\A j \in DOMAIN s : j \in Nat \ {0}) /\ (\A j \in DOMAIN t : j \in Nat \ {0})
      BY SMT
    <3> QED
      BY <1>5, <3>1 DEF Nuls
  <2>3. k \in stops /\ k <= Len(s) /\ k <= Len(t) /\ k <= m /\ k <= n /\ k <= N
    <3>1. (k = m \/ k = n \/ k = N) /\ k <= Len(s) /\ k <= Len(t) /\ k <= m /\ k <= n /\ k <= N
      BY SMT
    <3> QED
      BY <2>1, <3>1
  <2>4. PICK i \in Nat \ {0} :
          /\ Stop(s, t, stops, i) /\ i <= k /\ \A j \in 1 .. i - 1 : s[j] = t[j]
          /\ Compare(s, t, stops) = Sign(s[i], t[i])
    <3> HIDE DEF stops, k
    <3> QED
      BY <2>2, <2>3, Stops
  <2>5. /\ i <= Len(s) /\ i <= Len(t) /\ i <= m /\ i <= n /\ i <= N
        /\ a \in 0 .. Len(s) /\ b \in 0 .. Len(t) /\ i <= a + 1 /\ i <= b + 1
        /\ i \in 1 .. Len(s) /\ i \in 1 .. Len(t)
    BY <2>3, <2>4, SMT
  <2>6. i = a + 1 => s[i] = 0 /\ (i <= b => t[i] # 0)
    <3>1. (i = a + 1 => i = m) /\ (i <= b => i \in 1 .. n - 1)
      BY <2>5, SMT
    <3> QED
      BY <1>1, <1>2, <3>1
  <2>7. i = b + 1 => t[i] = 0 /\ (i <= a => s[i] # 0)
    <3>1. (i = b + 1 => i = n) /\ (i <= a => i \in 1 .. m - 1)
      BY <2>5, SMT
    <3> QED
      BY <1>1, <1>2, <3>1
  <2>8. i <= a /\ i <= b /\ s[i] = t[i] => i = a /\ i = b
    <3> SUFFICES ASSUME i <= a, i <= b, s[i] = t[i]
                 PROVE  i = a /\ i = b
      OBVIOUS
    <3>1. i \in 1 .. m - 1 /\ i \in 1 .. n - 1
      BY SMT
    <3>2. s[i] # 0 /\ t[i] # 0
      BY <1>1, <1>2, <3>1
    <3>3. i \in stops
      BY <2>4 DEF Stop
    <3>4. i = N
      BY <3>2, <3>3 DEF Nuls
    <3> QED
      BY <3>4, SMT
  <2>9. Order(SubSeq(s, 1, a), SubSeq(t, 1, b)) = Sign(s[i], t[i])
    <3> HIDE DEF stops, k, a, b
    <3> QED
      BY <2>4, <2>5, <2>6, <2>7, <2>8, PrefixOrder
  <2> QED
    BY <1>3, <1>5, <2>4, <2>9 DEF strncmp
<1> QED
  BY <1>4, <1>5

LEMMA MemcmpIs ==
  ASSUME NEW s \in Seq(Byte), NEW t \in Seq(Byte), NEW N \in Nat, N <= Len(s), N <= Len(t)
  PROVE  memcmp(s, t, N) = Order(FirstN(s, N), FirstN(t, N))
<1>1. FirstN(s, N) = SubSeq(s, 1, N) /\ FirstN(t, N) = SubSeq(t, 1, N)
  <2>1. Len(s) \in 0 .. Len(s) /\ Len(t) \in 0 .. Len(t)
    BY SMT
  <2> QED
    BY <2>1, FirstNIs, WholeSeq
<1>2. CASE N = 0
  <2>1. SubSeq(s, 1, 0) = << >> /\ SubSeq(t, 1, 0) = << >>
    BY SMT
  <2> QED
    BY <1>1, <1>2, <2>1, NoneBefore DEF memcmp
<1>3. CASE N # 0
  <2>1. {N} \in SUBSET (Nat \ {0}) /\ N \in {N}
    BY <1>3
  <2>2. PICK i \in Nat \ {0} :
          /\ Stop(s, t, {N}, i) /\ i <= N /\ \A j \in 1 .. i - 1 : s[j] = t[j]
          /\ Compare(s, t, {N}) = Sign(s[i], t[i])
    BY <2>1, Stops
  <2>3. /\ i <= Len(s) /\ i <= Len(t) /\ N \in 0 .. Len(s) /\ N \in 0 .. Len(t)
        /\ i <= N + 1 /\ i # N + 1 /\ i \in 1 .. Len(s) /\ i \in 1 .. Len(t)
    BY <2>2, SMT
  <2>4. s[i] = t[i] => i = N
    BY <2>2 DEF Stop
  <2>5. Order(SubSeq(s, 1, N), SubSeq(t, 1, N)) = Sign(s[i], t[i])
    BY <2>2, <2>3, <2>4, PrefixOrder
  <2> QED
    BY <1>1, <1>3, <2>2, <2>5 DEF memcmp
<1> QED
  BY <1>2, <1>3

------------------------------------------------------------------------------
(* Numbers in text.  P reads as v: f is what its first digits read as.     *)
Decimal == CharZero .. CharZero + 9

Horner(f, P, v) ==
  /\ P \in Seq(Decimal) /\ f \in [0 .. Len(P) -> Nat]
  /\ f[0] = 0 /\ f[Len(P)] = v
  /\ \A k \in 1 .. Len(P) : f[k] = f[k - 1] * 10 + P[k] - CharZero

Reads(P, v) == \E f : Horner(f, P, v)

LEMMA ReadsNothing == Reads(<< >>, 0)
<1> DEFINE f == [k \in 0 .. 0 |-> 0]
<1>1. << >> \in Seq(Decimal) /\ Len(<< >>) = 0
  OBVIOUS
<1>2. 0 \in 0 .. 0 /\ 0 \in Nat
  BY SMT
<1>3. f \in [0 .. 0 -> Nat] /\ f[0] = 0
  BY <1>2
<1>4. ~ \E k \in 1 .. 0 : TRUE
  BY SMT
<1> HIDE DEF f
<1>5. Horner(f, << >>, 0)
  BY <1>1, <1>3, <1>4 DEF Horner
<1> QED
  BY <1>5 DEF Reads

LEMMA ReadsMore ==
  ASSUME NEW P, NEW v, Reads(P, v), NEW c \in Decimal
  PROVE  Reads(Append(P, c), v * 10 + c - CharZero)
<1>1. PICK f : Horner(f, P, v)
  BY DEF Reads
<1> DEFINE n == Len(P)
           w == v * 10 + c - CharZero
           Q == Append(P, c)
           g == [k \in 0 .. n + 1 |-> IF k = n + 1 THEN w ELSE f[k]]
<1>2. /\ P \in Seq(Decimal) /\ n \in Nat /\ f \in [0 .. n -> Nat] /\ f[0] = 0 /\ f[n] = v
      /\ \A k \in 1 .. n : f[k] = f[k - 1] * 10 + P[k] - CharZero
  BY <1>1 DEF Horner
<1>3. Q \in Seq(Decimal) /\ Len(Q) = n + 1 /\ Q[n + 1] = c /\ \A k \in 1 .. n : Q[k] = P[k]
  BY <1>2
<1>4. w \in Nat /\ v \in Nat
  <2>1. n \in 0 .. n
    BY <1>2, SMT
  <2>2. v \in Nat
    BY <1>2, <2>1
  <2>3. c \in CharZero .. CharZero + 9 /\ CharZero = 48
    BY DEF Decimal, CharZero
  <2> QED
    BY <2>2, <2>3, SMT
<1> HIDE DEF n, Q
<1>5. g[n + 1] = w /\ \A k \in 0 .. n : g[k] = f[k]
  <2>1. n + 1 \in 0 .. n + 1 /\ \A k \in 0 .. n : k \in 0 .. n + 1 /\ k # n + 1
    BY <1>2, SMT
  <2> HIDE DEF w
  <2> QED
    BY <2>1
<1>6. g \in [0 .. n + 1 -> Nat]
  <2>1. \A k \in 0 .. n + 1 : k # n + 1 => k \in 0 .. n
    BY <1>2, SMT
  <2> HIDE DEF w
  <2> QED
    BY <1>2, <1>4, <2>1
<1>7. ASSUME NEW k \in 1 .. n + 1
      PROVE  g[k] = g[k - 1] * 10 + Q[k] - CharZero
  <2>1. CASE k = n + 1
    <3>1. k - 1 = n /\ n \in 0 .. n
      BY <1>2, <2>1, SMT
    <3>2. g[k - 1] = v /\ Q[k] = c /\ g[k] = w
      BY <1>2, <1>3, <1>5, <2>1, <3>1
    <3> HIDE DEF g
    <3> QED
      BY <3>2
  <2>2. CASE k # n + 1
    <3>1. k \in 1 .. n /\ k \in 0 .. n /\ k - 1 \in 0 .. n
      BY <1>2, <2>2, SMT
    <3> HIDE DEF g
    <3> QED
      BY <1>2, <1>3, <1>5, <3>1
  <2> QED
    BY <2>1, <2>2
<1>8. g[0] = 0
  <2>1. 0 \in 0 .. n
    BY <1>2, SMT
  <2> HIDE DEF g
  <2> QED
    BY <1>2, <1>5, <2>1
<1> HIDE DEF g, w
<1>9. Horner(g, Q, w)
  BY <1>3, <1>5, <1>6, <1>7, <1>8 DEF Horner
<1> QED
  BY <1>9 DEF Reads, Q, w

(* The digits of a number, and what %d prints for them.                    *)
Shown(t) == [i \in 1 .. Len(t) |-> CharZero + Abs(t[i])]

Spells(t, x) ==
  /\ t \in Seq(-9 .. 9) /\ Reads(Shown(t), Abs(x))
  /\ IF x = 0 THEN t = << >> ELSE t # << >> /\ t[1] # 0

LEMMA QuotRemIs ==
  ASSUME NEW x \in Int, x # 0
  PROVE  /\ Quot(x) \in Int /\ Rem(x) \in -9 .. 9
         /\ Abs(x) = Abs(Quot(x)) * 10 + Abs(Rem(x)) /\ Abs(Rem(x)) \in 0 .. 9
         /\ Abs(Quot(x)) < Abs(x) /\ Abs(x) \in Nat /\ Abs(Quot(x)) \in Nat
         /\ (Quot(x) = 0 => Rem(x) # 0)
BY SMT DEF Quot, Rem, Abs

LEMMA SpellsMore ==
  ASSUME NEW x \in Int, x # 0, NEW t, Spells(t, Quot(x))
  PROVE  Spells(Append(t, Rem(x)), x)
<1> DEFINE r == Rem(x)
           u == Append(t, r)
           n == Len(t)
<1>1. /\ r \in -9 .. 9 /\ Abs(r) \in 0 .. 9 /\ Abs(x) = Abs(Quot(x)) * 10 + Abs(r)
      /\ (Quot(x) = 0 => r # 0) /\ Abs(Quot(x)) \in Nat
  BY QuotRemIs
<1> HIDE DEF r
<1>2. t \in Seq(-9 .. 9) /\ n \in Nat /\ Reads(Shown(t), Abs(Quot(x)))
      /\ (Quot(x) # 0 => t # << >> /\ t[1] # 0) /\ (Quot(x) = 0 => t = << >>)
  BY DEF Spells
<1>3. u \in Seq(-9 .. 9) /\ Len(u) = n + 1 /\ u[n + 1] = r /\ \A i \in 1 .. n : u[i] = t[i]
  BY <1>1, <1>2
<1> HIDE DEF u, n
<1>4. CharZero + Abs(r) \in Decimal /\ Abs(Quot(x)) * 10 + (CharZero + Abs(r)) - CharZero = Abs(x)
  <2>1. CharZero = 48
    BY DEF CharZero
  <2> QED
    BY <1>1, <2>1, SMT DEF Decimal
<1>5. Shown(u) = Append(Shown(t), CharZero + Abs(r))
  <2> DEFINE p == Shown(t)
             c == CharZero + Abs(r)
  <2>1. p = [i \in 1 .. n |-> CharZero + Abs(t[i])]
    BY DEF Shown, n
  <2>2. Shown(u) = [i \in 1 .. n + 1 |-> CharZero + Abs(u[i])]
    BY <1>3 DEF Shown
  <2>3. p \in Seq(Decimal)
    BY <1>2 DEF Reads, Horner
  <2>4. Len(p) = n
    <3> HIDE DEF p
    <3>1. DOMAIN p = 1 .. n
      BY <2>1
    <3> QED
      BY <1>2, <2>3, <3>1
  <2>5. \A i \in 1 .. n : p[i] = CharZero + Abs(t[i])
    <3> HIDE DEF p
    <3> QED
      BY <2>1
  <2> HIDE DEF p, c
  <2>6. Append(p, c) = [i \in 1 .. n + 1 |-> IF i = n + 1 THEN c ELSE p[i]]
    BY <1>4, <2>3, <2>4 DEF c
  <2>7. \A i \in 1 .. n + 1 : CharZero + Abs(u[i]) = IF i = n + 1 THEN c ELSE p[i]
    <3> TAKE i \in 1 .. n + 1
    <3>1. i = n + 1 \/ i \in 1 .. n
      BY <1>2, SMT
    <3>2. CASE i = n + 1
      BY <1>3, <3>2 DEF c
    <3>3. CASE i # n + 1
      BY <1>3, <2>5, <3>1, <3>3
    <3> QED
      BY <3>2, <3>3
  <2> QED
    BY <2>2, <2>6, <2>7 DEF p, c
<1>6. Reads(Shown(u), Abs(x))
  <2>1. Reads(Append(Shown(t), CharZero + Abs(r)),
              Abs(Quot(x)) * 10 + (CharZero + Abs(r)) - CharZero)
    BY <1>2, <1>4, ReadsMore
  <2> QED
    BY <1>4, <1>5, <2>1
<1>7. u # << >> /\ u[1] # 0
  <2>1. u # << >>
    <3>1. n + 1 # 0
      BY <1>2, SMT
    <3> QED
      BY <1>3, <3>1
  <2>2. CASE Quot(x) # 0
    <3>1. 1 \in 1 .. n
      BY <1>2, <2>2 DEF n
    <3> QED
      BY <1>2, <1>3, <2>1, <2>2, <3>1
  <2>3. CASE Quot(x) = 0
    <3>1. n = 0
      BY <1>2, <2>3 DEF n
    <3>2. u[1] = r
      BY <1>3, <3>1
    <3> QED
      BY <1>1, <2>1, <2>3, <3>2
  <2> QED
    BY <2>2, <2>3
<1> QED
  BY <1>3, <1>6, <1>7 DEF Spells, u, r

LEMMA TempSpells ==
  ASSUME NEW d \in Int
  PROVE  Spells(temp(d), d)
<1> DEFINE n == Abs(d)
           D == -Abs(d) .. Abs(d)
           V == Seq(Int)
           rank == [x \in D |-> Abs(x)]
           Next(f, x) == IF x = 0 THEN << >> ELSE Append(f[Quot(x)], Rem(x))
           G == [p \in [D -> V] \X D |-> Next(p[1], p[2])]
           Is(f) == f = [x \in D |-> IF x = 0 THEN << >> ELSE Append(f[Quot(x)], Rem(x))]
           of == CHOOSE f : Is(f)
<1>1. n \in Nat /\ d \in D /\ \A x \in D : x \in Int /\ Abs(x) \in 0 .. n
  BY SMT DEF Abs
<1>2. ASSUME NEW x \in D, x # 0
      PROVE  /\ Quot(x) \in D /\ Rem(x) \in Int /\ Abs(Quot(x)) < Abs(x)
  <2>1. /\ Quot(x) \in Int /\ Rem(x) \in -9 .. 9 /\ Abs(Quot(x)) < Abs(x)
        /\ Abs(x) \in Nat /\ Abs(Quot(x)) \in Nat
    BY <1>1, <1>2, QuotRemIs
  <2>2. \A y \in Int : Abs(y) < Abs(x) => y \in D
    BY <1>1, SMT DEF Abs
  <2>3. Rem(x) \in Int
    BY <2>1, SMT
  <2> HIDE DEF D
  <2> QED
    BY <2>1, <2>2, <2>3
<1>3. \A x \in D : rank[x] = Abs(x)
  OBVIOUS
<1>4. rank \in [D -> 0 .. n]
  <2> HIDE DEF n, D
  <2> QED
    BY <1>1
<1> HIDE DEF D, rank, n
<1>5. ASSUME NEW f \in [D -> V], NEW x \in D
      PROVE  Next(f, x) \in V
  <2>1. CASE x = 0
    BY <2>1
  <2>2. CASE x # 0
    <3>1. f[Quot(x)] \in V /\ Rem(x) \in Int
      BY <1>2, <2>2
    <3> QED
      BY <2>2, <3>1
  <2> QED
    BY <2>1, <2>2
<1>6. \A f \in [D -> V], x \in D : G[<<f, x>>] = Next(f, x)
  <2> HIDE DEF V, Next
  <2> QED
    OBVIOUS
<1>7. DefinedByRank(D, V, n, rank, G)
  <2>1. V # {}
    <3>1. << >> \in V
      OBVIOUS
    <3> QED
      BY <3>1
  <2>2. G \in [[D -> V] \X D -> V]
    <3>1. \A p \in [D -> V] \X D : p[1] \in [D -> V] /\ p[2] \in D
      OBVIOUS
    <3>2. \A p \in [D -> V] \X D : Next(p[1], p[2]) \in V
      <4> HIDE DEF V, Next
      <4> QED
        BY <1>5, <3>1
    <3> HIDE DEF V, Next
    <3> QED
      BY <3>2
  <2>3. ASSUME NEW f \in [D -> V], NEW g \in [D -> V], NEW x \in D,
               \A y \in D : rank[y] < rank[x] => f[y] = g[y]
        PROVE  G[<<f, x>>] = G[<<g, x>>]
    <3>1. CASE x = 0
      BY <1>6, <3>1
    <3>2. CASE x # 0
      <4>1. f[Quot(x)] = g[Quot(x)]
        BY <1>2, <1>3, <2>3, <3>2
      <4> HIDE DEF V, G
      <4> QED
        BY <1>6, <4>1
    <3> QED
      BY <3>1, <3>2
  <2> HIDE DEF G, V
  <2> QED
    BY <1>1, <1>4, <2>1, <2>2, <2>3 DEF DefinedByRank
<1>8. PICK f \in [D -> V] : \A x \in D : f[x] = G[<<f, x>>]
  <2> HIDE DEF G, V
  <2> QED
    BY <1>7, RecursionExists
<1>9. Is(f)
  <2>1. f = [x \in D |-> f[x]]
    OBVIOUS
  <2>2. \A x \in D : f[x] = IF x = 0 THEN << >> ELSE Append(f[Quot(x)], Rem(x))
    <3> HIDE DEF G, V
    <3> QED
      BY <1>6, <1>8
  <2> HIDE DEF V
  <2> QED
    BY <2>1, <2>2
<1>10. Is(of)
  <2> HIDE DEF Is
  <2> QED
    BY <1>9
<1>11. temp(d) = of[d]
  BY DEF temp, D
<1> HIDE DEF of
<1>12. \A x \in D : of[x] = IF x = 0 THEN << >> ELSE Append(of[Quot(x)], Rem(x))
  BY <1>10
<1> DEFINE P == {x \in D : Spells(of[x], x)}
<1>13. HoldsByRank(D, n, rank, P)
  <2>1. ASSUME NEW x \in D, \A y \in D : rank[y] < rank[x] => y \in P
        PROVE  x \in P
    <3>1. CASE x = 0
      <4>1. of[x] = << >>
        BY <1>12, <3>1
      <4>2. Shown(<< >>) = << >>
        <5>1. ~ \E i \in 1 .. Len(<< >>) : TRUE
          BY SMT
        <5>2. Shown(<< >>) = [i \in 1 .. 0 |-> CharZero + Abs(<< >>[i])]
          BY DEF Shown
        <5>3. 1 .. 0 = {}
          BY SMT
        <5>4. << >> = [i \in {} |-> CharZero + Abs(<< >>[i])]
          BY SMT
        <5> QED
          BY <5>2, <5>3, <5>4
      <4>3. Abs(0) = 0
        BY SMT DEF Abs
      <4>4. << >> \in Seq(-9 .. 9)
        OBVIOUS
      <4>5. Spells(<< >>, 0)
        BY <4>2, <4>3, <4>4, ReadsNothing DEF Spells
      <4> QED
        BY <3>1, <4>1, <4>5
    <3>2. CASE x # 0
      <4>1. Quot(x) \in D /\ rank[Quot(x)] < rank[x]
        BY <1>2, <1>3, <3>2
      <4>2. Spells(of[Quot(x)], Quot(x))
        BY <2>1, <4>1
      <4>3. of[x] = Append(of[Quot(x)], Rem(x))
        BY <1>12, <3>2
      <4>4. x \in Int
        BY <1>1
      <4> QED
        BY <3>2, <4>2, <4>3, <4>4, SpellsMore
    <3> QED
      BY <3>1, <3>2
  <2>2. P \subseteq D
    OBVIOUS
  <2> HIDE DEF P
  <2> QED
    BY <1>1, <1>4, <2>1, <2>2 DEF HoldsByRank
<1>14. P = D
  <2> HIDE DEF P
  <2> QED
    BY <1>13, RankInduction
<1> QED
  BY <1>1, <1>11, <1>14

(* What %d prints: a minus, and digits that are no more than they need be. *)
Shows(P, x) ==
  /\ P \in Seq(Decimal) /\ P # << >> /\ Reads(P, Abs(x))
  /\ P[1] = CharZero => x = 0

Minus(x) == IF x < 0 THEN <<CharMinus>> ELSE << >>

LEMMA ElementOf ==
  ASSUME NEW S, NEW s \in Seq(S), NEW i \in 1 .. Len(s)
  PROVE  s[i] \in S
BY SMT

LEMMA PercentD ==
  ASSUME NEW d \in Int
  PROVE  \E P : Shows(P, d) /\ percent_d(d) = Minus(d) \o P
<1> DEFINE t == temp(d)
           p == Shown(t)
<1>1. Spells(t, d)
  BY TempSpells
<1>2. t \in Seq(-9 .. 9) /\ Reads(p, Abs(d)) /\ p \in Seq(Decimal)
      /\ (IF d = 0 THEN t = << >> ELSE t # << >> /\ t[1] # 0)
  BY <1>1 DEF Spells, Reads, Horner
<1>3. percent_d(d) = ((IF d = 0 THEN <<CharZero>> ELSE << >>) \o Minus(d)) \o p
  BY DEF percent_d, Minus, Shown
<1>4. p = [i \in 1 .. Len(t) |-> CharZero + Abs(t[i])]
  BY DEF Shown
<1> HIDE DEF t, p
<1>5. CASE d = 0
  <2> DEFINE Z == <<CharZero>>
  <2>1. CharZero \in Decimal /\ 0 * 10 + CharZero - CharZero = 0 /\ Abs(d) = 0
    BY <1>5, SMT DEF Decimal, CharZero, Abs
  <2>2. Append(<< >>, CharZero) = Z
    OBVIOUS
  <2>3. Reads(Z, 0)
    <3>1. Reads(Append(<< >>, CharZero), 0 * 10 + CharZero - CharZero)
      BY <2>1, ReadsNothing, ReadsMore
    <3> QED
      BY <2>1, <2>2, <3>1
  <2>4. Z \in Seq(Decimal) /\ Z # << >>
    BY <2>1
  <2>5. Shows(Z, d)
    BY <1>5, <2>1, <2>3, <2>4 DEF Shows
  <2>6. p = << >>
    <3>1. Len(t) = 0
      BY <1>2, <1>5
    <3>2. DOMAIN p = 1 .. 0
      BY <1>4, <3>1
    <3> QED
      BY <1>2, <3>2
  <2>7. Minus(d) = << >>
    BY <1>5, SMT DEF Minus
  <2>8. percent_d(d) = (Z \o << >>) \o << >>
    BY <1>3, <1>5, <2>6, <2>7
  <2>9. percent_d(d) = Minus(d) \o Z
    <3>1. (Z \o << >>) \o << >> = << >> \o Z
      BY <2>4
    <3> QED
      BY <2>7, <2>8, <3>1
  <2> QED
    BY <2>5, <2>9
<1>6. CASE d # 0
  <2>1. Len(t) \in Nat /\ 1 \in 1 .. Len(t) /\ t[1] # 0 /\ t[1] \in -9 .. 9
    <3>1. t # << >> /\ t[1] # 0
      BY <1>2, <1>6
    <3>2. Len(t) \in Nat /\ Len(t) # 0
      BY <1>2, <3>1
    <3>3. 1 \in 1 .. Len(t)
      BY <3>2, SMT
    <3>4. t[1] \in -9 .. 9
      BY <1>2, <3>3, ElementOf, Zenon
    <3> QED
      BY <3>1, <3>2, <3>3, <3>4
  <2>2. p[1] = CharZero + Abs(t[1])
    BY <1>4, <2>1
  <2>3. p[1] # CharZero
    <3>1. \A x \in -9 .. 9 : x # 0 => 48 + Abs(x) # 48
      BY SMT DEF Abs
    <3> QED
      BY <2>1, <2>2, <3>1 DEF CharZero
  <2>4. p # << >>
    <3>1. 1 \in DOMAIN p
      BY <1>4, <2>1
    <3> QED
      BY <3>1
  <2>5. Shows(p, d)
    BY <1>2, <2>3, <2>4 DEF Shows
  <2>6. CharMinus \in Int
    BY SMT DEF CharMinus
  <2>7. Minus(d) \in Seq(Int)
    BY <2>6 DEF Minus
  <2>8. << >> \o Minus(d) = Minus(d)
    BY <2>7
  <2> QED
    BY <1>3, <1>6, <2>5, <2>8
<1> QED
  BY <1>5, <1>6

LEMMA DigitsRead ==
  ASSUME NEW P \in Seq(Decimal), NEW v, Reads(P, v), NEW s \in Seq(Byte),
         s # << >> => ~ IsDigit(Head(s))
  PROVE  digits(P \o s, 1) = v
<1> DEFINE u == P \o s
           m == Len(P)
           T == {k \in 1 .. Len(u) : ~ IsDigit(u[k])} \cup {Len(u) + 1}
<1>1. PICK f : Horner(f, P, v)
  BY DEF Reads
<1>2. /\ m \in Nat /\ f \in [0 .. m -> Nat] /\ f[0] = 0 /\ f[m] = v
      /\ \A k \in 1 .. m : f[k] = f[k - 1] * 10 + P[k] - CharZero
  BY <1>1 DEF Horner
<1>3. Len(s) \in Nat /\ (s = << >> <=> Len(s) = 0)
  OBVIOUS
<1>4. Decimal \in SUBSET Byte /\ \A c \in Decimal : IsDigit(c)
  BY SMT DEF Decimal, Byte, IsDigit, CharZero
<1>5. P \in Seq(Byte)
  BY <1>4
<1>6. /\ u \in Seq(Byte) /\ Len(u) = m + Len(s)
      /\ (\A k \in 1 .. m : u[k] = P[k])
      /\ (\A k \in m + 1 .. m + Len(s) : u[k] = s[k - m])
  BY <1>5
<1>7. \A k \in 1 .. m : IsDigit(u[k])
  BY <1>4, <1>6
<1> HIDE DEF u, m
<1>8. m + 1 \in T
  <2>1. CASE s = << >>
    BY <1>2, <1>3, <1>6, <2>1, SMT
  <2>2. CASE s # << >>
    <3>1. m + 1 \in m + 1 .. m + Len(s) /\ (m + 1) - m = 1 /\ m + 1 \in 1 .. Len(u)
      BY <1>2, <1>3, <1>6, <2>2, SMT
    <3>2. u[m + 1] = Head(s)
      BY <1>6, <2>2, <3>1
    <3> QED
      BY <2>2, <3>1, <3>2
  <2> QED
    BY <2>1, <2>2
<1>9. \A k \in T : m + 1 <= k
  <2> TAKE k \in T
  <2>1. CASE k = Len(u) + 1
    BY <1>2, <1>3, <1>6, <2>1, SMT
  <2>2. CASE k \in 1 .. Len(u) /\ ~ IsDigit(u[k])
    <3>1. ~ (k \in 1 .. m)
      BY <1>7, <2>2
    <3> QED
      BY <1>2, <2>2, <3>1, SMT
  <2> QED
    BY <2>1, <2>2
<1>10. Min(T) = m + 1
  <2>1. T \in SUBSET Int
    BY <1>2, <1>3, <1>6, SMT
  <2> HIDE DEF T
  <2> QED
    BY <1>8, <1>9, <2>1, MinIs
<1> DEFINE D == 1 .. m + 1
           Is(x) == x = [k \in D |-> IF k = 1 THEN 0 ELSE x[k - 1] * 10 + u[k - 1] - CharZero]
           x1 == CHOOSE x : Is(x)
<1>11. digits(u, 1) = x1[m + 1]
  BY <1>10 DEF digits
<1>12. Is([k \in D |-> f[k - 1]])
  <2> DEFINE g == [k \in D |-> f[k - 1]]
  <2>1. \A k \in D : k # 1 => k - 1 \in D /\ k - 1 \in 1 .. m
    BY <1>2, SMT
  <2>2. \A k \in D : f[k - 1] = IF k = 1 THEN 0 ELSE g[k - 1] * 10 + u[k - 1] - CharZero
    <3> TAKE k \in D
    <3>1. CASE k = 1
      <4>1. k - 1 = 0
        BY <3>1, SMT
      <4> QED
        BY <1>2, <3>1, <4>1
    <3>2. CASE k # 1
      <4>1. k - 1 \in D /\ k - 1 \in 1 .. m
        BY <2>1, <3>2
      <4>2. g[k - 1] = f[(k - 1) - 1] /\ u[k - 1] = P[k - 1]
        BY <1>6, <4>1
      <4>3. f[k - 1] = f[(k - 1) - 1] * 10 + P[k - 1] - CharZero
        BY <1>2, <4>1
      <4> HIDE DEF g, D
      <4> QED
        BY <3>2, <4>2, <4>3
    <3> QED
      BY <3>1, <3>2
  <2> QED
    BY <2>2
<1>13. Is(x1)
  <2> HIDE DEF Is
  <2> QED
    BY <1>12
<1> HIDE DEF x1
<1>14. \A k \in D : x1[k] = IF k = 1 THEN 0 ELSE x1[k - 1] * 10 + u[k - 1] - CharZero
  BY <1>13
<1> DEFINE S == {i \in 0 .. m : x1[i + 1] = f[i]}
<1>15. 0 .. m \subseteq S
  <2>1. 0 \in S
    <3>1. 0 \in 0 .. m /\ 0 + 1 = 1 /\ 1 \in D
      BY <1>2, SMT
    <3>2. x1[1] = 0
      BY <1>14, <3>1
    <3> QED
      BY <1>2, <3>1, <3>2
  <2>2. ASSUME NEW i \in 0 .. m - 1, i \in S
        PROVE  i + 1 \in S
    <3>1. /\ i + 1 \in 0 .. m /\ i + 1 \in 1 .. m /\ (i + 1) + 1 \in D /\ (i + 1) + 1 # 1
          /\ ((i + 1) + 1) - 1 = i + 1 /\ (i + 1) - 1 = i
      BY <1>2, SMT
    <3>2. x1[(i + 1) + 1] = x1[i + 1] * 10 + u[i + 1] - CharZero
      BY <1>14, <3>1
    <3>3. f[i + 1] = f[i] * 10 + P[i + 1] - CharZero /\ u[i + 1] = P[i + 1]
      BY <1>2, <1>6, <3>1
    <3> QED
      BY <2>2, <3>1, <3>2, <3>3
  <2> HIDE DEF S
  <2> QED
    BY <1>2, <2>1, <2>2, UpTo
<1>16. m \in 0 .. m
  BY <1>2, SMT
<1>17. x1[m + 1] = v
  BY <1>2, <1>15, <1>16
<1> QED
  BY <1>11, <1>17 DEF u

LEMMA AtoiReads ==
  ASSUME NEW P \in Seq(Decimal), P # << >>, NEW v, Reads(P, v), NEW s \in Seq(Byte),
         s # << >> => ~ IsDigit(Head(s))
  PROVE  atoi(P \o s) = v
<1> DEFINE u == P \o s
           I == {i \in 1 .. Len(u) : u[i] # CharSpace}
<1>1. Decimal \in SUBSET Byte /\ CharSpace \notin Decimal
  BY SMT DEF Decimal, Byte, CharZero, CharSpace
<1>2. P \in Seq(Byte) /\ Len(P) \in Nat /\ Len(P) # 0 /\ Len(s) \in Nat /\ P[1] \in Decimal
  <2>1. Len(P) \in Nat /\ Len(P) # 0
    OBVIOUS
  <2>2. 1 \in 1 .. Len(P)
    BY <2>1, SMT
  <2> QED
    BY <1>1, <2>1, <2>2
<1>3. Len(u) = Len(P) + Len(s) /\ u[1] = P[1]
  <2>1. 1 \in 1 .. Len(P)
    BY <1>2, SMT
  <2> QED
    BY <1>2, <2>1
<1> HIDE DEF u
<1>4. 1 \in I /\ (\A k \in I : 1 <= k) /\ I \in SUBSET Int
  <2>1. 1 \in 1 .. Len(u)
    BY <1>2, <1>3, SMT
  <2> QED
    BY <1>1, <1>2, <1>3, <2>1, SMT
<1>5. SelectInSeq(u, LAMBDA c : c # CharSpace) = IF I # {} THEN Min(I) ELSE 0
  BY DEF SelectInSeq
<1>6. Min(I) = 1
  <2> HIDE DEF I
  <2> QED
    BY <1>4, MinIs
<1>7. SelectInSeq(u, LAMBDA c : c # CharSpace) = 1
  BY <1>4, <1>5, <1>6
<1>8. atoi(u) = digits(u, 1)
  BY <1>7, SMT DEF atoi
<1> QED
  BY <1>8, DigitsRead DEF u

LEMMA FlattenTwo ==
  ASSUME NEW u, NEW v, NEW w, w \in [1 .. 2 -> {u, v}], Len(w) = 2, w[1] = u, w[2] = v
  PROVE  FlattenSeq(w) = u \o v
<1> DEFINE Is(f) == f = [i \in 1 .. Len(w) |-> IF i = 1 THEN w[i] ELSE f[i - 1] \o w[i]]
           flatten == CHOOSE f : Is(f)
           g == [i \in 1 .. 2 |-> IF i = 1 THEN u ELSE u \o v]
<1>1. 1 \in 1 .. 2 /\ 2 \in 1 .. 2 /\ 2 - 1 = 1 /\ 2 # 1 /\ \A i \in 1 .. 2 : i = 1 \/ i = 2
  BY SMT
<1>2. FlattenSeq(w) = flatten[2]
  BY <1>1 DEF FlattenSeq
<1>3. Is(g)
  <2>1. g[1] = u
    BY <1>1
  <2>2. \A i \in 1 .. 2 : (IF i = 1 THEN u ELSE u \o v) = IF i = 1 THEN w[i] ELSE g[i - 1] \o w[i]
    <3> TAKE i \in 1 .. 2
    <3>1. CASE i = 1
      BY <3>1
    <3>2. CASE i = 2
      <4>1. i - 1 = 1 /\ i # 1
        BY <3>2, SMT
      <4>2. g[i - 1] = u /\ w[i] = v
        BY <2>1, <3>2, <4>1
      <4> HIDE DEF g
      <4> QED
        BY <4>1, <4>2
    <3> QED
      BY <1>1, <3>1, <3>2
  <2>3. g = [i \in 1 .. 2 |-> IF i = 1 THEN w[i] ELSE g[i - 1] \o w[i]]
    BY <2>2
  <2> HIDE DEF g
  <2> QED
    BY <2>3
<1>4. Is(flatten)
  <2> HIDE DEF Is, g
  <2> QED
    BY <1>3
<1> HIDE DEF flatten
<1>5. flatten[1] = u /\ flatten[2] = flatten[1] \o v
  <2>1. flatten = [i \in 1 .. 2 |-> IF i = 1 THEN w[i] ELSE flatten[i - 1] \o w[i]]
    BY <1>4
  <2>2. flatten[1] = w[1] /\ flatten[2] = flatten[2 - 1] \o w[2]
    BY <1>1, <2>1
  <2> QED
    BY <1>1, <2>2
<1> QED
  BY <1>2, <1>5

LEMMA SuffixOf ==
  ASSUME NEW u \in Seq(Byte), NEW s \in Seq(Byte)
  PROVE  IsSuffix(s, u \o s)
<1> DEFINE t == u \o s
           m == Len(u)
           n == Len(s)
           rs == Reverse(s)
           rt == Reverse(t)
<1>1. m \in Nat /\ n \in Nat /\ t \in Seq(Byte) /\ Len(t) = m + n
      /\ \A i \in m + 1 .. m + n : t[i] = s[i - m]
  OBVIOUS
<1>2. rs = [i \in 1 .. n |-> s[n - i + 1]]
  BY DEF Reverse
<1>3. rt = [i \in 1 .. m + n |-> t[(m + n) - i + 1]]
  BY <1>1 DEF Reverse
<1> HIDE DEF t, n, m
<1>4. rs \in Seq(Byte) /\ Len(rs) = n
  <2>1. \A i \in 1 .. n : n - i + 1 \in 1 .. n
    BY <1>1, SMT
  <2>2. \A i \in 1 .. n : s[i] \in Byte
    BY Char DEF n
  <2>3. rs \in [1 .. n -> Byte]
    <3> HIDE DEF rs
    <3> QED
      BY <1>2, <2>1, <2>2
  <2> HIDE DEF rs
  <2> QED
    BY <1>1, <2>3
<1>5. rt \in Seq(Byte) /\ Len(rt) = m + n
  <2>1. \A i \in 1 .. m + n : (m + n) - i + 1 \in 1 .. m + n
    BY <1>1, SMT
  <2>2. \A i \in 1 .. m + n : t[i] \in Byte
    BY <1>1, Char
  <2>3. rt \in [1 .. m + n -> Byte]
    <3> HIDE DEF rt
    <3> QED
      BY <1>3, <2>1, <2>2
  <2>4. m + n \in Nat
    BY <1>1, SMT
  <2> HIDE DEF rt
  <2> QED
    BY <2>3, <2>4
<1>6. ASSUME NEW i \in 1 .. n
      PROVE  rs[i] = rt[i]
  <2>1. i \in 1 .. m + n /\ (m + n) - i + 1 \in m + 1 .. m + n
        /\ ((m + n) - i + 1) - m = n - i + 1
    BY <1>1, SMT
  <2>2. rs[i] = s[n - i + 1] /\ rt[i] = t[(m + n) - i + 1]
    <3> HIDE DEF rs, rt
    <3> QED
      BY <1>2, <1>3, <2>1
  <2> HIDE DEF rs, rt
  <2> QED
    BY <1>1, <2>1, <2>2
<1>7. IsPrefix(rs, rt)
  <2>1. Len(rs) <= Len(rt)
    BY <1>1, <1>4, <1>5, SMT
  <2> HIDE DEF rs, rt
  <2> QED
    BY <1>4, <1>5, <1>6, <2>1, Prefix
<1> QED
  BY <1>7 DEF IsSuffix, t

LEMMA AfterFirst ==
  ASSUME NEW c \in Byte, NEW u \in Seq(Byte), NEW v \in Seq(Byte)
  PROVE  Head((<<c>> \o u) \o v) = c /\ Tail((<<c>> \o u) \o v) = u \o v
<1> DEFINE w == u \o v
<1>1. (<<c>> \o u) \o v = <<c>> \o w /\ w \in Seq(Byte)
  BY SMT
<1> HIDE DEF w
<1>2. Head(<<c>> \o w) = c /\ Tail(<<c>> \o w) = w
  BY <1>1, SMT
<1> QED
  BY <1>1, <1>2 DEF w

LEMMA FormatIs ==
  ASSUME NEW d \in Int, NEW s \in Seq(Byte), s # << >> => ~ IsDigit(Head(s)),
         NEW text,
         text = vsprintf(<<[kind |-> "d", d |-> d], [kind |-> "s", s |-> s]>>).text
  PROVE  /\ IsSuffix(s, text)
         /\ (Head(text) = CharMinus) = (d < 0)
         /\ atoi(IF d < 0 THEN Tail(text) ELSE text) = Abs(d)
         /\ Head(text) = CharZero => d = 0
<1>1. PICK P : Shows(P, d) /\ percent_d(d) = Minus(d) \o P
  BY PercentD
<1>2. /\ P \in Seq(Decimal) /\ P # << >> /\ Reads(P, Abs(d)) /\ (P[1] = CharZero => d = 0)
  BY <1>1 DEF Shows
<1>3. /\ Decimal \in SUBSET Byte /\ CharMinus \in Byte /\ CharMinus \notin Decimal
      /\ CharMinus # CharZero
  BY SMT DEF Decimal, Byte, CharZero, CharMinus
<1>4. P \in Seq(Byte) /\ Minus(d) \in Seq(Byte) /\ Len(P) \in Nat /\ Len(P) # 0
  <2>1. P \in Seq(Byte)
    BY <1>2, <1>3
  <2>2. Minus(d) \in Seq(Byte)
    BY <1>3 DEF Minus
  <2>3. Len(P) \in Nat /\ Len(P) # 0
    BY <1>2
  <2> QED
    BY <2>1, <2>2, <2>3
<1>5. P[1] \in Decimal
  <2>1. 1 \in 1 .. Len(P)
    BY <1>4, SMT
  <2> QED
    BY <1>2, <2>1
<1>6. text = (Minus(d) \o P) \o s
  <2> DEFINE items == <<[kind |-> "d", d |-> d], [kind |-> "s", s |-> s]>>
             w == [i \in DOMAIN items |->
                     IF items[i].kind = "d" THEN percent_d(items[i].d) ELSE items[i].s]
  <2>1. text = FlattenSeq(w)
    BY DEF vsprintf
  <2>2. DOMAIN items = 1 .. 2 /\ items[1].kind = "d" /\ items[1].d = d
        /\ items[2].kind = "s" /\ items[2].s = s /\ "d" # "s"
    OBVIOUS
  <2>3. w = [i \in 1 .. 2 |-> IF items[i].kind = "d" THEN percent_d(items[i].d) ELSE items[i].s]
    BY <2>2
  <2>4. w[1] = percent_d(d) /\ w[2] = s /\ DOMAIN w = 1 .. 2
    <3>1. 1 \in 1 .. 2 /\ 2 \in 1 .. 2
      BY SMT
    <3> HIDE DEF items, w
    <3> QED
      BY <2>2, <2>3, <3>1
  <2>5. w \in [1 .. 2 -> {percent_d(d), s}]
    <3>1. w = [i \in 1 .. 2 |-> w[i]]
      BY <2>4
    <3>2. \A i \in 1 .. 2 : i = 1 \/ i = 2
      BY SMT
    <3> HIDE DEF w
    <3> QED
      BY <2>4, <3>1, <3>2
  <2>6. Len(w) = 2
    <3> HIDE DEF w
    <3> QED
      BY <2>5
  <2> HIDE DEF w
  <2>7. FlattenSeq(w) = percent_d(d) \o s
    BY <2>4, <2>5, <2>6, FlattenTwo
  <2> QED
    BY <1>1, <2>1, <2>7
<1>7. IsSuffix(s, text)
  <2>1. Minus(d) \o P \in Seq(Byte)
    BY <1>4
  <2> QED
    BY <1>6, <2>1, SuffixOf
<1>8. atoi(P \o s) = Abs(d)
  BY <1>2, AtoiReads
<1>9. CASE d < 0
  <2>1. text = (<<CharMinus>> \o P) \o s
    BY <1>6, <1>9 DEF Minus
  <2>2. Head(text) = CharMinus /\ Tail(text) = P \o s
    <3>1. CharMinus \in Byte /\ P \in Seq(Byte) /\ s \in Seq(Byte)
      BY <1>3, <1>4
    <3>2. /\ Head((<<CharMinus>> \o P) \o s) = CharMinus
          /\ Tail((<<CharMinus>> \o P) \o s) = P \o s
      BY ONLY <3>1, AfterFirst
    <3> QED
      BY <2>1, <3>2
  <2>3. (Head(text) = CharMinus) = (d < 0)
    BY <1>9, <2>2
  <2>4. atoi(IF d < 0 THEN Tail(text) ELSE text) = Abs(d)
    BY <1>8, <1>9, <2>2
  <2>5. Head(text) # CharZero
    BY <1>3, <2>2
  <2> QED
    BY <1>7, <2>3, <2>4, <2>5
<1>10. CASE ~ (d < 0)
  <2>1. text = P \o s
    <3>1. << >> \o P = P
      BY <1>4
    <3> QED
      BY <1>6, <1>10, <3>1 DEF Minus
  <2>2. Head(text) = P[1]
    BY <1>4, <2>1
  <2>3. Head(text) # CharMinus
    BY <1>3, <1>5, <2>2
  <2>4. (Head(text) = CharMinus) = (d < 0)
    BY <1>10, <2>3
  <2>5. atoi(IF d < 0 THEN Tail(text) ELSE text) = Abs(d)
    BY <1>8, <1>10, <2>1
  <2>6. Head(text) = CharZero => d = 0
    BY <1>2, <2>2
  <2> QED
    BY <1>7, <2>4, <2>5, <2>6
<1> QED
  BY <1>9, <1>10

------------------------------------------------------------------------------
(* The library.                                                            *)
LEMMA DivisionAsInC ==
  ASSUME NEW c, c.f \in {"udivmod", "divmod", "divrem"}, c.a \in 0 .. BB - 1, c.b \in 1 .. BB - 1
  PROVE  Returns(c) = Means(c)
<1> DEFINE x == SignedOf(c.a)
           y == SignedOf(c.b)
           q == Trunc(x, y)
           p == __divdi3(c.a, c.b)
<1>1. CASE c.f = "udivmod"
  <2>1. Returns(c) = __udivmoddi4(c.a, c.b)
    BY <1>1 DEF Returns
  <2>2. Means(c) = QR(c.a, c.b)
    BY <1>1 DEF Means, QR
  <2> QED
    BY <2>1, <2>2, DivisionIs
<1>2. p = q % BB /\ __moddi3(c.a, c.b) = (x - q * y) % BB
  BY SignedDivision
<1>3. (c.a - p * c.b) % BB = (x - q * y) % BB
  BY RemainderIs
<1>4. CASE c.f = "divmod"
  <2>1. Returns(c) = [__divmoddi4(c.a, c.b) EXCEPT !.r = __moddi3(c.a, c.b)]
    BY <1>4 DEF Returns
  <2>2. __divmoddi4(c.a, c.b) = [q |-> p, r |-> (c.a - p * c.b) % BB]
    BY DEF __divmoddi4
  <2>3. Means(c) = [q |-> q % BB, r |-> (x - q * y) % BB]
    BY <1>4 DEF Means
  <2> HIDE DEF x, y, q, p
  <2>4. Returns(c) = [q |-> p, r |-> __moddi3(c.a, c.b)]
    BY <2>1, <2>2
  <2> QED
    BY <1>2, <2>3, <2>4 DEF p
<1>5. CASE c.f = "divrem"
  <2>1. Returns(c) = [q |-> p, r |-> (c.a - p * c.b) % BB]
    BY <1>5 DEF Returns, __divmoddi4
  <2>2. Means(c) = [q |-> q % BB, r |-> (x - q * y) % BB]
    BY <1>5 DEF Means
  <2> QED
    BY <1>2, <1>3, <2>1, <2>2
<1> QED
  BY <1>1, <1>4, <1>5

LEMMA MemoryAsInC ==
  ASSUME NEW c, c.f \in {"memmove", "memcpy", "memset"}, Legal(c)
  PROVE  Returns(c) = Means(c)
<1> DEFINE D == DOMAIN c.mem
<1>1. CASE c.f = "memset"
  <2>1. c.mem \in [D -> Byte] /\ c.dst \in Nat /\ c.n \in Nat /\ c.c \in Byte
    BY <1>1 DEF Legal
  <2>2. Returns(c) = memset(c.mem, c.dst, c.c, c.n)
    BY <1>1 DEF Returns
  <2>3. Means(c) = Set(c.mem, c.dst, c.n, c.c)
    BY <1>1 DEF Means
  <2> HIDE DEF D
  <2> QED
    BY <2>1, <2>2, <2>3, MemsetIs
<1>2. CASE c.f \in {"memmove", "memcpy"}
  <2>1. /\ c.mem \in [D -> Byte] /\ c.dst \in Nat /\ c.src \in Nat /\ c.n \in Nat
        /\ Within(c.mem, c.src, c.n) /\ (c.f = "memcpy" => NoOverlap(c.dst, c.src, c.n))
    BY <1>2 DEF Legal
  <2>2. Means(c) = Store(c.mem, c.dst, c.src, c.n)
    BY <1>2 DEF Means
  <2>3. CASE c.f = "memmove"
    <3>1. Returns(c) = memmove(c.mem, c.dst, c.src, c.n)
      BY <2>3 DEF Returns
    <3> HIDE DEF D
    <3> QED
      BY <2>1, <2>2, <3>1, MemmoveIs
  <2>4. CASE c.f = "memcpy"
    <3>1. Returns(c) = memcpy(c.mem, c.dst, c.src, c.n)
      BY <2>4 DEF Returns
    <3> HIDE DEF D
    <3> QED
      BY <2>1, <2>2, <2>4, <3>1, Forward
  <2> QED
    BY <1>2, <2>3, <2>4
<1> QED
  BY <1>1, <1>2

LEMMA CompareAsInC ==
  ASSUME NEW c, c.f = "compare", Legal(c)
  PROVE  Returns(c) = Means(c)
<1>1. /\ c.s1 \in Seq(Byte) /\ c.s2 \in Seq(Byte) /\ Nuls(c.s1) # {} /\ Nuls(c.s2) # {}
      /\ c.n \in 0 .. Min({Len(c.s1), Len(c.s2)})
  BY DEF Legal
<1>2. c.n \in Nat /\ c.n <= Len(c.s1) /\ c.n <= Len(c.s2)
  <2> DEFINE l1 == Len(c.s1)
             l2 == Len(c.s2)
             k == IF l1 <= l2 THEN l1 ELSE l2
  <2>1. l1 \in Nat /\ l2 \in Nat
    BY <1>1
  <2> HIDE DEF l1, l2
  <2>2. k \in {l1, l2} /\ (\A j \in {l1, l2} : k <= j) /\ {l1, l2} \in SUBSET Int
        /\ k <= l1 /\ k <= l2 /\ k \in Nat
    BY <2>1, SMT
  <2>3. Min({l1, l2}) = k
    <3> HIDE DEF k
    <3> QED
      BY <2>2, MinIs
  <2>4. c.n \in 0 .. k
    BY <1>1, <2>3 DEF l1, l2
  <2>5. c.n \in Nat /\ c.n <= l1 /\ c.n <= l2
    BY <2>1, <2>2, <2>4, SMT
  <2> QED
    BY <2>5 DEF l1, l2
<1>3. Returns(c) = <<strcmp(c.s1, c.s2), strncmp(c.s1, c.s2, c.n), memcmp(c.s1, c.s2, c.n)>>
  BY DEF Returns
<1>4. Means(c) = <<Order(Chars(c.s1), Chars(c.s2)),
                   Order(FirstN(Chars(c.s1), c.n), FirstN(Chars(c.s2), c.n)),
                   Order(FirstN(c.s1, c.n), FirstN(c.s2, c.n))>>
  BY DEF Means
<1> QED
  BY <1>1, <1>2, <1>3, <1>4, StrcmpIs, StrncmpIs, MemcmpIs

LEMMA CallAsInC ==
  ASSUME NEW c, Legal(c)
  PROVE  AsInC(c, Returns(c))
<1>1. CASE c.f \in {"udivmod", "divmod", "divrem"}
  <2>1. c.a \in 0 .. BB - 1 /\ c.b \in 1 .. BB - 1 /\ c.f # "format"
    BY <1>1 DEF Legal
  <2> QED
    BY <1>1, <2>1, DivisionAsInC DEF AsInC
<1>2. CASE c.f = "zeros"
  <2>1. c.a \in 1 .. BB - 1
    BY <1>2 DEF Legal
  <2>2. Returns(c) = <<__clzdi2(c.a), __ctzdi2(c.a)>>
    BY <1>2 DEF Returns
  <2>3. Means(c) = LET ones == {i \in 0 .. 2 * W - 1 : (c.a \div pow2[i]) % 2 = 1}
                   IN  <<2 * W - 1 - Max(ones), Min(ones)>>
    BY <1>2 DEF Means
  <2>4. Returns(c) = Means(c)
    BY <2>1, <2>2, <2>3, ZerosAre
  <2> QED
    BY <1>2, <2>4 DEF AsInC
<1>3. CASE c.f \in {"memmove", "memcpy", "memset"}
  BY <1>3, MemoryAsInC DEF AsInC
<1>4. CASE c.f = "compare"
  BY <1>4, CompareAsInC DEF AsInC
<1>5. CASE c.f = "format"
  <2> DEFINE text == Returns(c).text
  <2>1. c.d \in Int /\ c.s \in Seq(Byte) /\ (c.s # << >> => ~ IsDigit(Head(c.s)))
    BY <1>5 DEF Legal
  <2>2. text = vsprintf(<<[kind |-> "d", d |-> c.d], [kind |-> "s", s |-> c.s]>>).text
    BY <1>5 DEF Returns
  <2> HIDE DEF text
  <2>3. /\ IsSuffix(c.s, text)
        /\ (Head(text) = CharMinus) = (c.d < 0)
        /\ atoi(IF c.d < 0 THEN Tail(text) ELSE text) = Abs(c.d)
        /\ Head(text) = CharZero => c.d = 0
    BY ONLY <2>1, <2>2, FormatIs
  <2> QED
    BY <1>5, <2>3 DEF AsInC, text
<1> QED
  BY <1>1, <1>2, <1>3, <1>4, <1>5 DEF Legal

(* A call of the guest's library returns, and leaves in memory, what ISO C *)
(* says, whatever the width of a word: the shift-and-subtract division of  *)
(* int64.c and its short cuts, the block operations a word at a time, the  *)
(* comparisons and printf's digits.                                        *)
THEOREM KlibAsInC == LibrarySpec => []LibraryAsInC
<1> DEFINE IInv == call \in Calls /\ result \in {<< >>, <<Returns(call)>>}
<1>1. LibraryInit => IInv
  BY DEF LibraryInit
<1>2. IInv /\ [LibraryCall]_library_vars => IInv'
  BY DEF LibraryCall, library_vars
<1>3. IInv => LibraryAsInC
  <2> SUFFICES ASSUME IInv, result # << >>
               PROVE  AsInC(call, result[1])
    BY DEF LibraryAsInC
  <2>1. result[1] = Returns(call)
    OBVIOUS
  <2>2. Legal(call)
    BY CallsAssumption
  <2> QED
    BY <2>1, <2>2, CallAsInC
<1> QED
  BY <1>1, <1>2, <1>3, PTL DEF LibrarySpec
==============================================================================
