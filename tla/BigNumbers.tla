----------------------------- MODULE BigNumbers -----------------------------
(***************************************************************************)
(* The algorithms of crypto/bn above its arithmetic: gcd.c, kronecker.c,   *)
(* sqrt.c, exponentiation.c and prime.c, and the modular helpers of div.c. *)
(*                                                                         *)
(* There a BIGNUM is the integer it stands for, and the limits that choose *)
(* an algorithm are scaled down with the numbers.                          *)
(*                                                                         *)
(* Numbers of several words in crypto/bn: addition, subtraction, shifts,   *)
(* products, division, Montgomery reduction and conversions, word by word  *)
(* with their carries, compared with the integers they stand for.          *)
(*                                                                         *)
(* Words are scaled down: a word has BITS2 bits, two bytes of two digits.  *)
(* A number is its sign, 0 or 1, and its words, the least significant      *)
(* first; "top" is their count.                                            *)
(***************************************************************************)
EXTENDS Integers, Sequences, FiniteSets, Calculation
LOCAL INSTANCE SequencesExt
LOCAL INSTANCE FiniteSetsExt

CONSTANTS
  BITS2,          \* BN_BITS2, the bits of a word: a multiple of four
  WindowLimits,   \* exponents of more bits take windows of 6, 5, 4 and 3 bits
  BinaryLimit,    \* the most bits of a modulus that is inverted by halving
  SmallPrimes,    \* primes[], a table of small primes from 2 on
  PairCases,      \* pairs of integers
  RootCases,      \* integers whose roots are taken
  RootPrimes,     \* the primes modulo which they are taken
  ExpCases,       \* bases, exponents and moduli
  SecondPowers,   \* second bases and exponents, of a product of powers
  PrimeCases,     \* numbers that are tested
  Comba,          \* eight words in the source: a product that is unrolled
  Ten,            \* the radix of decimal strings
  BnCases,        \* pairs of numbers
  LongCases,      \* pairs of sequences of words
  DigitCases      \* strings of digits with their sign

Radix == 2^BITS2                    \* BN_MASK2 + 1
IsOdd(a) == a % 2 = 1
Abs(a) == IF a < 0 THEN -a ELSE a
BitLength(a) == CHOOSE n \in 0..31 : 2^n > Abs(a) /\ (n > 0 => 2^(n - 1) <= Abs(a))
BitSet(a, i) == i >= 0 /\ (a \div 2^i) % 2 = 1
Twos(a) == CHOOSE i \in 0..31 : Abs(a) % 2^i = 0 /\ (Abs(a) \div 2^i) % 2 = 1
Descending(n) == [i \in 1..n |-> n - i]
Failed == [ok |-> FALSE]
Done(v) == [ok |-> TRUE, v |-> v]
------------------------------------------------------------------------------
(* crypto/bn/div.c.  BN_mod keeps the sign of a, BN_nnmod does not.        *)
BN_mod(a, m) == IF a < 0 THEN -(-a % Abs(m)) ELSE a % Abs(m)
BN_nnmod(a, m) == LET r == BN_mod(a, m) IN IF r < 0 THEN r + Abs(m) ELSE r
BN_mod_add_quick(a, b, m) == IF a + b >= m THEN a + b - m ELSE a + b
BN_mod_sub_quick(a, b, m) == IF a - b < 0 THEN a - b + m ELSE a - b
BN_mod_mul(a, b, m) == BN_nnmod(a * b, m)
BN_mod_sqr(a, m) == BN_mod(a * a, m)
RECURSIVE BN_mod_lshift_quick(_, _, _)
BN_mod_lshift_quick(a, n, m) ==
  LET room == BitLength(m) - BitLength(a)
      shift == IF room > n THEN n ELSE IF room = 0 THEN 1 ELSE room
      r == a * 2^shift
  IN  IF n = 0 THEN a
      ELSE BN_mod_lshift_quick(IF r >= m THEN r - m ELSE r, n - shift, m)
BN_mod_lshift(a, n, m) == BN_mod_lshift_quick(BN_nnmod(a, m), n, Abs(m))
------------------------------------------------------------------------------
(* crypto/bn/gcd.c                                                         *)
RECURSIVE euclid(_, _, _)
euclid(a, b, shifts) ==                     \* 0 <= b <= a
  LET ordered(x, y) == IF x < y THEN euclid(y, x, shifts) ELSE euclid(x, y, shifts)
  IN  IF b = 0 THEN a * 2^shifts
      ELSE IF IsOdd(a) /\ IsOdd(b) THEN ordered((a - b) \div 2, b)
      ELSE IF IsOdd(a) THEN ordered(a, b \div 2)
      ELSE IF IsOdd(b) THEN ordered(a \div 2, b)
      ELSE euclid(a \div 2, b \div 2, shifts + 1)
BN_gcd(a, b) ==
  IF Abs(a) < Abs(b) THEN euclid(Abs(b), Abs(a), 0) ELSE euclid(Abs(a), Abs(b), 0)

(* Inversion keeps  -sign X a = B  and  sign Y a = A  modulo |n|.          *)
RECURSIVE Halvings(_, _, _)
Halvings(B, X, n) ==
  IF IsOdd(B) THEN [B |-> B, X |-> X]
  ELSE Halvings(B \div 2, (IF IsOdd(X) THEN X + n ELSE X) \div 2, n)
RECURSIVE InverseByHalving(_, _, _, _, _)
InverseByHalving(A, B, X, Y, n) ==
  LET b == Halvings(B, X, n)
      a == Halvings(A, Y, n)
  IN  IF B = 0 THEN [A |-> A, Y |-> Y, sign |-> -1]
      ELSE IF b.B >= a.B THEN InverseByHalving(a.B, b.B - a.B, b.X + a.X, a.X, n)
      ELSE InverseByHalving(a.B - b.B, b.B, b.X, a.X + b.X, n)

(* The quotient of A and B, 0 < B < A: small ones without a division.      *)
InverseQuotient(A, B) ==
  IF BitLength(A) = BitLength(B) THEN 1
  ELSE IF BitLength(A) = BitLength(B) + 1
  THEN IF A < 2 * B THEN 1 ELSE IF A < 3 * B THEN 2 ELSE 3
  ELSE A \div B
RECURSIVE InverseByEuclid(_, _, _, _, _, _)
InverseByEuclid(A, B, X, Y, sign, branch) ==
  LET D == IF branch THEN InverseQuotient(A, B) ELSE A \div B
  IN  IF B = 0 THEN [A |-> A, Y |-> Y, sign |-> sign]
      ELSE InverseByEuclid(B, A - D * B, D * X + Y, X, -sign, branch)

InverseFound(s, n) ==                               \* s is what Euclid's algorithm ended with
  LET Y == IF s.sign < 0 THEN n - s.Y ELSE s.Y
  IN  IF s.A # 1 THEN Failed
      ELSE Done(IF Y >= 0 /\ Y < Abs(n) THEN Y ELSE BN_nnmod(Y, n))
Reduced(a, n) == IF a < 0 \/ a >= Abs(n) THEN BN_nnmod(a, n) ELSE a
BN_mod_inverse_no_branch(a, n) ==
  InverseFound(InverseByEuclid(Abs(n), Reduced(a, n), 1, 0, -1, FALSE), n)
BN_mod_inverse(a, n, consttime) ==
  IF consttime THEN BN_mod_inverse_no_branch(a, n)
  ELSE InverseFound(IF IsOdd(n) /\ BitLength(n) <= BinaryLimit
               THEN InverseByHalving(Abs(n), Reduced(a, n), 1, 0, n)
               ELSE InverseByEuclid(Abs(n), Reduced(a, n), 1, 0, -1, TRUE), n)
------------------------------------------------------------------------------
(* crypto/bn/kronecker.c: algorithm 1.4.10 of Cohen's book.                *)
KroneckerTab(n) == IF n % 8 \in {1, 7} THEN 1 ELSE IF n % 8 \in {3, 5} THEN -1 ELSE 0
RECURSIVE KroneckerLoop(_, _, _)
KroneckerLoop(A, B, ret) ==                 \* B is positive and odd
  LET i == Twos(A)
      a == IF A < 0 THEN -(Abs(A) \div 2^i) ELSE A \div 2^i
      two == IF IsOdd(i) THEN ret * KroneckerTab(B) ELSE ret
      \* bit 1 of the lowest word, of its complement when A is negative
      bit == IF a < 0 THEN 1 - ((Abs(a) \div 2) % 2) ELSE (a \div 2) % 2
      flipped == IF bit = 1 /\ (B \div 2) % 2 = 1 THEN -two ELSE two
  IN  IF A = 0 THEN IF B = 1 THEN ret ELSE 0
      ELSE KroneckerLoop(B % Abs(a), Abs(a), flipped)
BN_kronecker(a, b) ==
  LET i == Twos(b)
      ret == IF IsOdd(i) THEN KroneckerTab(Abs(a)) ELSE 1
  IN  IF b = 0 THEN IF Abs(a) = 1 THEN 1 ELSE 0
      ELSE IF ~IsOdd(a) /\ ~IsOdd(b) THEN 0
      ELSE KroneckerLoop(a, Abs(b) \div 2^i, IF b < 0 /\ a < 0 THEN -ret ELSE ret)
------------------------------------------------------------------------------
(* crypto/bn/exponentiation.c.  Products are taken modulo m in one of two  *)
(* ways: with a reciprocal of m, or in Montgomery's domain.                *)
BN_exp(a, p) ==
  FoldLeft(LAMBDA s, i : LET v == s.v * s.v
                         IN  [v |-> v, rr |-> IF BitSet(p, i) THEN s.rr * v ELSE s.rr],
           [v |-> a, rr |-> IF IsOdd(p) THEN a ELSE 1], [i \in 1 .. BitLength(p) - 1 |-> i]).rr

RECURSIVE Corrected(_, _, _)
Corrected(r, N, j) ==
  IF r < N THEN Done(r) ELSE IF j > 2 THEN Failed ELSE Corrected(r - N, N, j + 1)
BN_div_recp(m, N) ==
  LET bits == BitLength(N)
      i == IF 2 * bits > BitLength(m) THEN 2 * bits ELSE BitLength(m)
      Nr == 2^i \div N
      d == ((m \div 2^bits) * Nr) \div 2^(i - bits)
  IN  IF m < N THEN Done(m) ELSE Corrected(m - N * d, N, 0)
BN_mod_mul_reciprocal(x, y, N) == BN_div_recp(x * y, N).v

(* Montgomery's domain for m: x stands for x / R modulo m.                 *)
MontR(m) == Radix^((BitLength(m) + BITS2 - 1) \div BITS2)
MontInverseR(m) == CHOOSE v \in 0 .. m - 1 : (v * MontR(m)) % m = 1 % m
BN_to_montgomery(x, m) == (x * (MontR(m) % m)) % m
BN_from_montgomery(x, m) == (x * MontInverseR(m)) % m

WindowOf(limits, bits) ==
  IF bits > limits[1] THEN 6 ELSE IF bits > limits[2] THEN 5 ELSE IF bits > limits[3] THEN 4
  ELSE IF bits > limits[4] THEN 3 ELSE 1
OddPowers(mul(_, _), v, window) ==          \* val[i] = v^(2i + 1)
  FoldLeft(LAMBDA val, i : Append(val, mul(Last(val), mul(v, v))), <<v>>,
           [i \in 1 .. 2^(window - 1) - 1 |-> i])
Squarings(mul(_, _), r, n) == FoldLeft(LAMBDA v, i : mul(v, v), r, [i \in 1..n |-> i])

(* A sliding window: it starts at a set bit b and ends at the last set bit *)
(* it can reach.                                                           *)
EndsAnywhere(p, b, window) == Max({i \in 0 .. window - 1 : i <= b})   \* fault: at a clear bit
WindowEnd(p, b, window) == Max({i \in 0 .. window - 1 : i <= b /\ BitSet(p, b - i)})
SlidingWindows(mul(_, _), one, v, p, window) ==
  LET val == OddPowers(mul, v, window)
      step(s, b) ==
        LET wend == WindowEnd(p, b, window)
            wvalue == (p \div 2^(b - wend)) % 2^(wend + 1)
            above == IF s.start THEN s.r ELSE Squarings(mul, s.r, wend + 1)
        IN  IF b > s.wstart THEN s
            ELSE IF ~BitSet(p, b) THEN [s EXCEPT !.r = IF s.start THEN @ ELSE mul(@, @)]
            ELSE [r |-> mul(above, val[wvalue \div 2 + 1]), wstart |-> b - wend - 1,
                  start |-> FALSE]
  IN  FoldLeft(step, [r |-> one, wstart |-> BitLength(p) - 1, start |-> TRUE],
               Descending(BitLength(p))).r

mod_exp_recp(a, p, m) ==
  LET mul(x, y) == BN_mod_mul_reciprocal(x, y, Abs(m))
      v == BN_nnmod(a, m)
  IN  IF p = 0 THEN 1
      ELSE IF v = 0 THEN 0
      ELSE SlidingWindows(mul, 1, v, p, WindowOf(WindowLimits, BitLength(p)))
BN_mod_exp_mont(a, p, m) ==
  LET mul(x, y) == (((x * y) % m) * MontInverseR(m)) % m
      aa == IF a < 0 \/ a >= m THEN BN_nnmod(a, m) ELSE a
      r == SlidingWindows(mul, BN_to_montgomery(1, m), BN_to_montgomery(aa, m), p,
                          WindowOf(WindowLimits, BitLength(p)))
  IN  IF p = 0 THEN 1
      ELSE IF aa = 0 THEN 0
      ELSE BN_from_montgomery(r, m)

(* Fixed windows, for secret exponents: all powers are computed first.     *)
RECURSIVE FixedWindows(_, _, _, _, _, _)
FixedWindows(tmp, powers, p, bits, window, m) ==
  LET mul(x, y) == (((x * y) % m) * MontInverseR(m)) % m
      wvalue == (p \div 2^(bits - window + 1)) % 2^window
  IN  IF bits < 0 THEN tmp
      ELSE FixedWindows(mul(Squarings(mul, tmp, window), powers[wvalue]), powers, p,
                        bits - window, window, m)
(* bn_scatter5: the order in which the build with bn_mul_mont_gather5      *)
(* computes 32 powers: a square of what it computed last, or am times the  *)
(* power before.                                                           *)
Doublings(i) == SelectSeq(<<2 * i, 4 * i, 8 * i, 16 * i>>, LAMBDA j : j < 32)
ScatterOrder ==
  [k \in 1..4 |-> [i |-> 2^k, square |-> TRUE]]
    \o FlattenSeq([k \in 1..15 |->
         LET i == 2 * k + 1
         IN  <<[i |-> i, square |-> FALSE]>>
               \o [j \in DOMAIN Doublings(i) |-> [i |-> Doublings(i)[j], square |-> TRUE]]])
Scattered(am, one, m) ==
  LET mul(x, y) == (((x * y) % m) * MontInverseR(m)) % m
      step(s, o) == LET tmp == IF o.square THEN mul(s.tmp, s.tmp) ELSE mul(am, s.buf[o.i - 1])
                    IN  [tmp |-> tmp, buf |-> [s.buf EXCEPT ![o.i] = tmp]]
  IN  FoldLeft(step, [tmp |-> am, buf |-> [i \in 0..31 |-> IF i = 0 THEN one
                                                             ELSE IF i = 1 THEN am ELSE -1]],
               ScatterOrder).buf
PowersInTurn(am, one, window, m) ==
  LET mul(x, y) == (((x * y) % m) * MontInverseR(m)) % m
      of[i \in 0 .. 2^window - 1] ==
        IF i = 0 THEN one ELSE IF i = 1 THEN am ELSE mul(am, of[i - 1])
  IN  of
BN_mod_exp_mont_consttime(a, p, m, limits, mont5) ==
  LET size == WindowOf(limits, BitLength(p))
      window == IF mont5 /\ size >= 5 THEN 5 ELSE size
      am == IF a < 0 \/ a >= m THEN BN_mod(a, m) ELSE a
      powers == IF mont5 /\ window = 5 /\ BitLength(m) > BITS2
                THEN Scattered(BN_to_montgomery(am, m), BN_to_montgomery(1, m), m)
                ELSE PowersInTurn(BN_to_montgomery(am, m), BN_to_montgomery(1, m), window, m)
      bits == BitLength(p) - 1
      first == (bits % window) + 1            \* the bits that fill no window
      tmp == powers[p \div 2^(bits - first + 1)]
  IN  IF p = 0 THEN 1
      ELSE BN_from_montgomery(FixedWindows(tmp, powers, p, bits - first, window, m), m)

(* The base is one word: while the power fits one it is kept as a word w;  *)
(* the result is r w, r being one until w first overflows.                 *)
Flushed(s, m) ==
  IF s.one THEN BN_to_montgomery(s.w, m) ELSE (s.r * s.w) % m
WordSquared(s, m) ==
  LET over == s.w * s.w >= Radix
      r == IF over THEN Flushed(s, m) ELSE s.r
      one == s.one /\ ~over
  IN  [w |-> IF over THEN 1 ELSE s.w * s.w, one |-> one,
       r |-> IF one THEN r ELSE (((r * r) % m) * MontInverseR(m)) % m]
WordTimes(s, a, m) ==
  LET over == s.w * a >= Radix
  IN  [w |-> IF over THEN a ELSE s.w * a, one |-> s.one /\ ~over,
       r |-> IF over THEN Flushed(s, m) ELSE s.r]
BN_mod_exp_mont_word(a0, p, m) ==
  LET a == IF m < Radix THEN a0 % m ELSE a0
      bits == BitLength(p)
      step(s, b) == LET q == WordSquared(s, m)
                    IN  IF BitSet(p, b) THEN WordTimes(q, a, m) ELSE q
      end == FoldLeft(step, [w |-> a, one |-> TRUE, r |-> 0], Descending(bits - 1))
      one == end.one /\ end.w = 1
  IN  IF p = 0 THEN IF m = 1 THEN 0 ELSE 1
      ELSE IF a = 0 THEN 0
      ELSE IF one THEN 1
      ELSE BN_from_montgomery(IF end.w # 1 THEN Flushed(end, m) ELSE end.r, m)

BN_mod_exp(a, p, m) ==
  IF ~IsOdd(m) THEN mod_exp_recp(a, p, m)
  ELSE IF a \in 1 .. Radix - 1 THEN BN_mod_exp_mont_word(a, p, m)
  ELSE BN_mod_exp_mont(a, p, m)

(* a1^p1 a2^p2: a window of each exponent is open while its value is not   *)
(* zero; it is multiplied in at its lowest bit.                            *)
Opened(p, b, window, s) ==
  LET pos == Min({i \in b - window + 1 .. b : BitSet(p, i)})
  IN  IF s.value # 0 \/ ~BitSet(p, b) THEN s
      ELSE [pos |-> pos, value |-> (p \div 2^pos) % 2^(b - pos + 1)]
BN_mod_exp2_mont(a1, p1, a2, p2, m) ==
  LET mul(x, y) == (((x * y) % m) * MontInverseR(m)) % m
      reduced(a) == IF a < 0 \/ a >= m THEN BN_mod(a, m) ELSE a
      window(p) == WindowOf(WindowLimits, BitLength(p))
      val(a, p) == OddPowers(mul, BN_to_montgomery(reduced(a), m), window(p))
      used(r, s, b, table) == IF s.value # 0 /\ b = s.pos THEN mul(r, table[s.value \div 2 + 1]) ELSE r
      closed(s, b) == IF b = s.pos THEN [s EXCEPT !.value = 0] ELSE s
      step(s, b) ==
        LET r == IF s.one THEN s.r ELSE mul(s.r, s.r)
            w1 == Opened(p1, b, window(p1), s.w1)
            w2 == Opened(p2, b, window(p2), s.w2)
        IN  [r |-> used(used(r, w1, b, val(a1, p1)), w2, b, val(a2, p2)),
             one |-> s.one /\ ~(w1.value # 0 /\ b = w1.pos) /\ ~(w2.value # 0 /\ b = w2.pos),
             w1 |-> closed(w1, b), w2 |-> closed(w2, b)]
      none == [pos |-> 0, value |-> 0]
      bits == IF p1 > p2 THEN BitLength(p1) ELSE BitLength(p2)
      end == FoldLeft(step, [r |-> BN_to_montgomery(1, m), one |-> TRUE, w1 |-> none, w2 |-> none],
                      Descending(bits))
  IN  IF p1 = 0 /\ p2 = 0 THEN 1
      ELSE IF reduced(a1) = 0 \/ reduced(a2) = 0 THEN 0
      ELSE BN_from_montgomery(end.r, m)
------------------------------------------------------------------------------
(* crypto/bn/sqrt.c                                                        *)
RECURSIVE Newton(_, _, _)
Newton(in, estimate, last) ==               \* last is -1 in the first round
  LET next == (in \div estimate + estimate) \div 2
      delta == Abs(in - next * next)
  IN  IF last >= 0 /\ delta >= last
      THEN IF next * next = in THEN Done(next) ELSE Failed
      ELSE Newton(in, next, delta)
BN_sqrt(in) ==
  IF in < 0 THEN Failed
  ELSE IF in = 0 THEN Done(0)
  ELSE Newton(in, 2^(BitLength(in) \div 2), -1)

(* The smallest i with b^(2^i) = 1, t being b^(2^i).                       *)
RECURSIVE OrderExponent(_, _, _, _)
OrderExponent(t, i, e, p) ==
  IF t = 1 THEN Done(i) ELSE IF i + 1 = e THEN Failed ELSE OrderExponent((t * t) % p, i + 1, e, p)
RECURSIVE TonelliShanks(_, _, _, _, _)
TonelliShanks(b, x, y, e, p) ==
  LET i == OrderExponent(BN_mod_sqr(b, p), 1, e, p)
      t == FoldLeft(LAMBDA v, j : BN_mod_sqr(v, p), y, [j \in 1 .. e - i.v - 1 |-> j])
      yy == BN_mod_sqr(t, p)
  IN  IF b = 1 THEN Done(x)
      ELSE IF ~i.ok THEN Failed
      ELSE TonelliShanks(BN_mod_mul(b, yy, p), BN_mod_mul(x, t, p), yy, i.v, p)
Verified(root, A, p) == IF root.ok /\ BN_mod_sqr(root.v, p) = A THEN root ELSE Failed
BN_mod_sqrt(a, p) ==
  LET A == BN_nnmod(a, p)
      e == Twos(p - 1)
      q == (p - 1) \div 2^e
      y == CHOOSE i \in 2..21 : /\ BN_kronecker(i, p) # 1
                                /\ \A j \in 2 .. i - 1 : BN_kronecker(j, p) = 1
      \* p = 5 modulo 8: Atkin's formula
      t2 == BN_mod_lshift_quick(A, 1, p)
      b2 == BN_mod_exp(t2, p \div 8, p)
      t3 == BN_mod_mul(t2, BN_mod_sqr(b2, p), p) - 1
      x == IF q = 1 THEN IF A = 0 THEN 0 ELSE 1 ELSE BN_mod_exp(A, q \div 2, p)
      b == BN_mod_mul(BN_mod_sqr(x, p), A, p)
      Y == BN_mod_exp(y, q, p)
  IN  IF p = 2 THEN Done(a % 2)
      ELSE IF a \in {0, 1} THEN Done(a)
      ELSE IF e = 1 THEN Verified(Done(BN_mod_exp(A, p \div 4 + 1, p)), A, p)
      ELSE IF e = 2 THEN Verified(Done(BN_mod_mul(BN_mod_mul(A, b2, p), t3, p)), A, p)
      ELSE IF BN_kronecker(y, p) = 0 \/ Y = 1 THEN Failed
      ELSE IF x = 0 THEN Done(0)
      ELSE Verified(TonelliShanks(b, BN_mod_mul(x, A, p), Y, e, p), A, p)
------------------------------------------------------------------------------
(* crypto/bn/random.c: one draw, "again" when it is rejected.              *)
DrawBits(range) ==
  LET n == BitLength(range)
  IN  IF n = 1 THEN 0
      ELSE IF ~BitSet(range, n - 2) /\ ~BitSet(range, n - 3) THEN n + 1 ELSE n
BN_rand_range(range, draw) ==
  LET n == BitLength(range)
      less == IF draw >= range THEN draw - range ELSE draw
      r == IF DrawBits(range) = n + 1 /\ less >= range THEN less - range
           ELSE IF DrawBits(range) = n + 1 THEN less ELSE draw
  IN  IF n = 1 THEN Done(0) ELSE IF r < range THEN Done(r) ELSE Failed
------------------------------------------------------------------------------
(* crypto/bn/prime.c                                                       *)
RECURSIVE SquareRounds(_, _, _)
SquareRounds(w, a, k) ==
  LET v == BN_mod_sqr(w, a)
  IN  IF k = 1 THEN TRUE
      ELSE IF v = 1 THEN TRUE
      ELSE IF v = a - 1 THEN FALSE
      ELSE SquareRounds(v, a, k - 1)
witness(base, a) ==                         \* base shows that a is composite
  LET k == Twos(a - 1)
      w == BN_mod_exp_mont(base, (a - 1) \div 2^k, a)
  IN  w \notin {1, a - 1} /\ SquareRounds(w, a, k)
BN_is_prime_fasttest_ex(a, trial, bases) ==
  IF a <= 1 THEN FALSE
  ELSE IF ~IsOdd(a) THEN a = 2
  ELSE IF trial /\ \E i \in 2 .. Len(SmallPrimes) : a % SmallPrimes[i] = 0 THEN FALSE
  ELSE \A b \in bases : ~witness(b, a)

(* probable_prime looks for a candidate at or above the odd number rnd; it *)
(* fails, to draw again, when delta gets larger than maxdelta.             *)
RECURSIVE Candidate(_, _, _, _)
Candidate(rnd, delta, maxdelta, single) ==
  LET left(i) == ((rnd % SmallPrimes[i]) + delta) % SmallPrimes[i]
      bad == \E i \in 2 .. Len(SmallPrimes) :
               IF single THEN SmallPrimes[i] < rnd /\ left(i) = 0 ELSE left(i) <= 1
  IN  IF ~bad THEN Done(rnd + delta)
      ELSE IF delta + 2 > maxdelta THEN Failed
      ELSE Candidate(rnd, delta + 2, maxdelta, single)
MaxDelta(rnd, bits) ==
  LET most == Radix - 1 - Last(SmallPrimes)
      limit == 2^bits - rnd - 1
  IN  IF bits <= BITS2 /\ limit < most THEN limit ELSE most
probable_prime(rnd, bits) ==
  LET c == Candidate(rnd, 0, MaxDelta(rnd, bits), bits <= BITS2)
  IN  IF c.ok /\ BitLength(c.v) = bits THEN c ELSE Failed
------------------------------------------------------------------------------
(* Calls with arguments from bounded sets.                                 *)
CalculatePair == \E c \in PairCases :
  Calculates("pair", c,
    [gcd |-> BN_gcd(c.a, c.b), kronecker |-> BN_kronecker(c.a, c.b),
     inverse |-> IF c.b > 0 THEN {BN_mod_inverse(c.a, c.b, t) : t \in BOOLEAN} ELSE {},
     shifted |-> IF c.b > 0 THEN [n \in 0..6 |-> BN_mod_lshift(c.a, n, c.b)] ELSE <<>>])
CalculateRoot == \E a \in RootCases :
  Calculates("root", a, [sqrt |-> BN_sqrt(a), mod |-> [p \in RootPrimes |-> BN_mod_sqrt(a, p)]])
CalculatePower == \E c \in ExpCases :
  Calculates("power", c,
    IF ~IsOdd(c.m) THEN {BN_mod_exp(c.a, c.p, c.m)}
    ELSE {BN_mod_exp(c.a, c.p, c.m), BN_mod_exp_mont(c.a, c.p, c.m)}
           \cup {BN_mod_exp_mont_consttime(c.a, c.p, c.m, WindowLimits, t) : t \in BOOLEAN})
CalculateDouble == \E c \in ExpCases :
  /\ IsOdd(c.m) /\ c.p < 2^7
  /\ Calculates("double", c, [q \in SecondPowers |-> BN_mod_exp2_mont(c.a, c.p, q[1], q[2], c.m)])
CalculatePrime == \E a \in PrimeCases :
  Calculates("prime", a,
    [liars |-> {b \in 1 .. a - 1 : IsOdd(a) /\ ~witness(b, a)},
     tests |-> [trial \in BOOLEAN |-> BN_is_prime_fasttest_ex(a, trial, 1 .. a - 1)],
     candidate |-> IF IsOdd(a) THEN probable_prime(a, BitLength(a)) ELSE Failed,
     draws |-> [r \in 0 .. a - 1 |->
                  Cardinality({d \in 0 .. 2^DrawBits(a) - 1 : BN_rand_range(a, d) = Done(r)})]])
AlgorithmNext ==
  CalculatePair \/ CalculateRoot \/ CalculatePower \/ CalculateDouble \/ CalculatePrime
------------------------------------------------------------------------------
(* Definitions of the textbook.                                            *)
Divides(d, n) == n % d = 0
IsPrime(n) == n > 1 /\ \A d \in 2 .. n - 1 : d * d <= n => ~Divides(d, n)
Divisors(n) == {d \in 1 .. Abs(n) : Divides(d, Abs(n))}
GreatestCommon(a, b) ==
  IF a = 0 THEN Abs(b) ELSE IF b = 0 THEN Abs(a) ELSE Max(Divisors(a) \cap Divisors(b))
RECURSIVE PowerMod(_, _, _)
PowerMod(a, p, m) == IF p = 0 THEN 1 % m
                     ELSE (PowerMod((a * a) % m, p \div 2, m) * IF IsOdd(p) THEN a % m ELSE 1) % m
(* The Kronecker symbol: multiplicative in b, and of a prime 1 or -1 as a  *)
(* is a square or not, of 2 by a modulo 8, of -1 by the sign of a.         *)
Legendre(a, p) == IF Divides(p, a) THEN 0
                  ELSE IF \E x \in 1 .. p - 1 : (x * x - a) % p = 0 THEN 1 ELSE -1
RECURSIVE Symbol(_, _)
Symbol(a, b) ==
  LET p == Min(Divisors(b) \ {1})
  IN  IF b = 0 THEN IF Abs(a) = 1 THEN 1 ELSE 0
      ELSE IF b < 0 THEN Symbol(a, -b) * IF a < 0 THEN -1 ELSE 1
      ELSE IF b = 1 THEN 1
      ELSE Symbol(a, b \div p) *
             IF p # 2 THEN Legendre(a, p)
             ELSE IF ~IsOdd(a) THEN 0 ELSE IF a % 8 \in {1, 7} THEN 1 ELSE -1

(* The greatest common divisor is one; an inverse is found exactly if it   *)
(* exists, by either algorithm, the one for secrets too, and is the number *)
(* between 0 and the modulus; the symbol is Kronecker's; shifting in steps *)
(* that keep a number below the modulus multiplies by a power of two.      *)
PairsAreRight ==
  Calculated("pair") =>
    LET a == calc.in.a
        b == calc.in.b
        o == calc.out
    IN  /\ o.gcd = GreatestCommon(a, b)
        /\ o.kronecker = Symbol(a, b)
        /\ b > 0 => /\ \A i \in o.inverse :
                         IF GreatestCommon(a, b) # 1 THEN i = Failed
                         ELSE i.ok /\ i.v \in 0 .. b - 1 /\ (i.v * a - 1) % b = 0
                    /\ \A n \in DOMAIN o.shifted : o.shifted[n] = (a * 2^n) % b

(* Newton's iteration, which stops when the error no longer shrinks, finds *)
(* the root of every square and of nothing else, what the comment in       *)
(* sqrt.c has no proof of; a root modulo a prime is found exactly if there *)
(* is one, by each of the three methods.                                   *)
RootsAreRight ==
  Calculated("root") =>
    LET a == calc.in
        o == calc.out
    IN  /\ IF o.sqrt.ok THEN o.sqrt.v >= 0 /\ o.sqrt.v * o.sqrt.v = a
           ELSE ~\E r \in 0..a : r * r = a
        /\ \A p \in RootPrimes :
             IF o.mod[p].ok THEN (o.mod[p].v * o.mod[p].v - a) % p = 0
             ELSE ~\E r \in 0 .. p - 1 : (r * r - a) % p = 0

(* Every way to exponentiate gives the power: by reciprocals, by sliding   *)
(* windows, by fixed windows over a table in either order, by words, and   *)
(* two powers at once.  Left out: the zeroth power modulo one, and of a    *)
(* base that vanishes together with another base, where they differ.       *)
PowersAreRight ==
  LET c == calc.in
      power(a, p) == PowerMod(a % c.m, p, c.m)
  IN  /\ Calculated("power") /\ ~(c.p = 0 /\ c.m = 1) => calc.out = {power(c.a, c.p)}
      /\ Calculated("double") /\ c.m > 1 /\ c.a % c.m # 0 =>
           \A q \in SecondPowers :
             q[1] % c.m # 0 => calc.out[q] = (power(c.a, c.p) * power(q[1], q[2])) % c.m

(* No base is a witness against a prime, at most a quarter of them lie     *)
(* about a composite number, and trial division changes no answer but      *)
(* those for the small primes themselves.  A candidate is as long as it    *)
(* was asked to be and has no small factor.  Of the draws for a number     *)
(* below a bound each number takes the same share.                         *)
PrimesAreRight ==
  Calculated("prime") =>
    LET a == calc.in
        o == calc.out
        small == {SmallPrimes[i] : i \in DOMAIN SmallPrimes}
    IN  /\ IsOdd(a) /\ a > 1 => IF IsPrime(a) THEN Cardinality(o.liars) = a - 1
                                ELSE 4 * Cardinality(o.liars) <= a - 1
        /\ o.tests[FALSE] = IsPrime(a)
        /\ a \notin small => o.tests[TRUE] = IsPrime(a)
        /\ o.candidate.ok =>
             LET v == o.candidate.v
             IN  /\ BitLength(v) = BitLength(a) /\ IsOdd(v) /\ v >= a
                 /\ \A p \in small : p < v => ~Divides(p, v)
        /\ \A r, s \in 0 .. a - 1 : o.draws[r] = o.draws[s] /\ o.draws[r] > 0

(* What the four say.                                                      *)
AlgorithmsAreRight == PairsAreRight /\ RootsAreRight /\ PowersAreRight /\ PrimesAreRight

ASSUME BnWordsAssumption == BITS2 % 4 = 0 /\ BITS2 > 0 /\ Comba > 1

BITS4 == BITS2 \div 2
Half == 2^BITS4                     \* BN_MASK2l + 1
RecursiveSize == 2 * Comba          \* BN_MUL_RECURSIVE_SIZE_NORMAL
DecNum == CHOOSE n \in 1..BITS2 : Ten^n < Radix /\ Ten^(n + 1) >= Radix   \* BN_DEC_NUM
DecConv == Ten^DecNum                                                   \* BN_DEC_CONV

Bn(neg, d) == [neg |-> neg, d |-> d]
Zeros(n) == [i \in 1..n |-> 0]
Slice(d, from, n) == SubSeq(d, from + 1, from + n)
Spliced(d, from, part) ==
  SubSeq(d, 1, from) \o part \o SubSeq(d, from + Len(part) + 1, Len(d))
bn_correct_top(d) ==
  SubSeq(d, 1, CHOOSE n \in 0..Len(d) : /\ n > 0 => d[n] # 0
                                        /\ \A i \in n + 1 .. Len(d) : d[i] = 0)

(* What words stand for.                                                   *)
Magnitude(d) == FoldRight(LAMBDA w, v : v * Radix + w, d, 0)
ValueOf(a) == IF a.neg = 1 THEN -Magnitude(a.d) ELSE Magnitude(a.d)
------------------------------------------------------------------------------
(* crypto/bn/cmp.c and bn.c                                                *)
BN_num_bits_word(w) == BitLength(w)
BN_num_bits(d) == IF d = <<>> THEN 0 ELSE (Len(d) - 1) * BITS2 + BN_num_bits_word(Last(d))
BN_zero == Bn(0, <<>>)
BN_set_word(w) == IF w = 0 THEN BN_zero ELSE Bn(0, <<w>>)

Differ(a, b) == {i \in DOMAIN a : a[i] # b[i]}
bn_cmp_words(a, b) ==
  IF Differ(a, b) = {} THEN 0
  ELSE LET i == CHOOSE i \in Differ(a, b) : \A j \in Differ(a, b) : j <= i
       IN  IF a[i] > b[i] THEN 1 ELSE -1
BN_ucmp(a, b) == IF Len(a) # Len(b) THEN Len(a) - Len(b) ELSE bn_cmp_words(a, b)
BN_cmp(a, b) ==
  LET gt == IF a.neg = 0 THEN 1 ELSE -1
  IN  IF a.neg # b.neg THEN gt
      ELSE IF Len(a.d) > Len(b.d) THEN gt
      ELSE IF Len(a.d) < Len(b.d) THEN -gt
      ELSE gt * bn_cmp_words(a.d, b.d)
bn_cmp_part_words(a, b) ==
  LET cl == IF Len(a) < Len(b) THEN Len(a) ELSE Len(b)
  IN  IF \E i \in cl + 1 .. Len(b) : b[i] # 0 THEN -1
      ELSE IF \E i \in cl + 1 .. Len(a) : a[i] # 0 THEN 1
      ELSE bn_cmp_words(Slice(a, 0, cl), Slice(b, 0, cl))
------------------------------------------------------------------------------
(* crypto/bn/generic.c: loops over words that hand on a carry c.           *)
Carrying(step(_, _), n, c) ==
  LET upto[i \in 0..n] ==
        IF i = 0 THEN [r |-> <<>>, c |-> c]
        ELSE LET s == upto[i - 1]
                 t == step(i, s.c)
             IN  [r |-> Append(s.r, t.r), c |-> t.c]
  IN  upto[n]
Low(t) == [r |-> t % Radix, c |-> t \div Radix]

bn_add_words(a, b) == Carrying(LAMBDA i, c : Low(a[i] + b[i] + c), Len(a), 0)
bn_sub_words(a, b) ==
  Carrying(LAMBDA i, c : [r |-> (a[i] - b[i] - c) % Radix,
                          c |-> IF a[i] # b[i] THEN IF a[i] < b[i] THEN 1 ELSE 0 ELSE c],
           Len(a), 0)
bn_mul_words(a, w) == Carrying(LAMBDA i, c : Low(w * a[i] + c), Len(a), 0)
bn_mul_add_words(r, a, w) == Carrying(LAMBDA i, c : Low(w * a[i] + r[i] + c), Len(a), 0)
bn_sqr_words(a) == FlattenSeq([i \in DOMAIN a |-> <<(a[i] * a[i]) % Radix, (a[i] * a[i]) \div Radix>>])

(* mul64 and bn_div_words where no type is twice as long as a word.        *)
mul64NoCarry(l, h, bl, bh) ==               \* fault: the sum of the cross products may wrap
  LET m == (bh * l + bl * h) % Radix
      lt == (bl * l + (m % Half) * Half) % Radix
  IN  [lo |-> lt, hi |-> bh * h + m \div Half + IF lt < (m % Half) * Half THEN 1 ELSE 0]
mul64(l, h, bl, bh) ==
  LET m == (bh * l + bl * h) % Radix
      m1 == (m % Half) * Half
      lt == (bl * l + m1) % Radix
  IN  [lo |-> lt,
       hi |-> bh * h + (IF m < bl * h THEN Half ELSE 0) + m \div Half
                + IF lt < m1 THEN 1 ELSE 0]

RECURSIVE Lowered(_, _, _, _, _, _)
Lowered(q, th, tl, h, l, dh_dl) ==
  LET t == (h - th) % Radix
  IN  IF t \div Half # 0 \/ tl <= t * Half + l \div Half
      THEN [q |-> q, th |-> th, tl |-> tl]
      ELSE Lowered(q - 1, th - dh_dl[1], tl - dh_dl[2], h, l, dh_dl)
(* One half of the quotient: what is left of h and l, and the digit q.     *)
LeftBy(s, tl, h, l, d) ==                   \* s is the lowered estimate, tl its low part
  LET th == s.th + s.tl \div Half + IF l < tl THEN 1 ELSE 0
      over == h < th
  IN  [q |-> IF over THEN s.q - 1 ELSE s.q, l |-> (l - tl) % Radix,
       h |-> (h + (IF over THEN d ELSE 0) - th) % Radix]
Left(s, h, l, d) == LeftBy(s, (s.tl % Half) * Half, h, l, d)
Estimate(h, dh) == IF h \div Half = dh THEN Half - 1 ELSE h \div dh
FromEstimate(q, h, l, d) ==
  Left(Lowered(q, q * (d \div Half), (d % Half) * q, h, l, <<d \div Half, d % Half>>), h, l, d)
HalfDivision(h, l, d) == FromEstimate(Estimate(h, d \div Half), h, l, d)
SecondHalf(one, d) ==
  one.q * Half
    + HalfDivision(((one.h * Half) % Radix) + one.l \div Half, (one.l % Half) * Half, d).q
div_normalised(h0, l0, d0, i) ==
  SecondHalf(HalfDivision(((IF h0 >= d0 THEN h0 - d0 ELSE h0) * 2^i + (l0 * 2^i) \div Radix) % Radix,
                          (l0 * 2^i) % Radix, d0 * 2^i), d0 * 2^i)
bn_div_words(h0, l0, d0) == div_normalised(h0, l0, d0, BITS2 - BN_num_bits_word(d0))

(* bn_mul_comba: column by column, in three words of which each takes the  *)
(* carry of the one below; a square adds its mixed products twice.         *)
AddedToColumn(s, t) ==
  LET c0 == s[1] + (t % Radix)
      c1 == s[2] + t \div Radix + c0 \div Radix
  IN  <<c0 % Radix, c1 % Radix, (s[3] + c1 \div Radix) % Radix>>
Columns(n, products(_)) ==
  FoldLeft(LAMBDA s, k :
             LET c == FoldLeft(AddedToColumn, s.c, products(k))
             IN  [r |-> Append(s.r, c[1]), c |-> <<c[2], c[3], 0>>],
           [r |-> <<>>, c |-> <<0, 0, 0>>], [k \in 1 .. 2 * n |-> k - 1])
PairsOf(n, k) == SelectSeq([i \in 1..n |-> i], LAMBDA i : k + 2 - i \in 1..n)
bn_mul_comba(a, b) ==
  Columns(Len(a), LAMBDA k : [j \in DOMAIN PairsOf(Len(a), k) |->
                                LET i == PairsOf(Len(a), k)[j] IN a[i] * b[k + 2 - i]]).r
bn_sqr_comba(a) ==
  Columns(Len(a), LAMBDA k :
    LET low == SelectSeq(PairsOf(Len(a), k), LAMBDA i : 2 * i <= k + 2)
        of(i) == a[i] * a[k + 2 - i]
    IN  FlattenSeq([j \in DOMAIN low |-> IF 2 * low[j] = k + 2 THEN <<of(low[j])>>
                                         ELSE <<of(low[j]), of(low[j])>>])).r
------------------------------------------------------------------------------
(* crypto/bn/add.c                                                         *)
BN_uadd(x, y) ==
  LET a == IF Len(x) < Len(y) THEN y ELSE x
      b == IF Len(x) < Len(y) THEN x ELSE y
      low == bn_add_words(Slice(a, 0, Len(b)), b)
      high == Carrying(LAMBDA i, c : Low(a[Len(b) + i] + c), Len(a) - Len(b), low.c)
  IN  low.r \o high.r \o IF high.c = 1 THEN <<1>> ELSE <<>>
BN_usub(a, b) ==
  LET low == bn_sub_words(Slice(a, 0, Len(b)), b)
      high == Carrying(LAMBDA i, c : [r |-> (a[Len(b) + i] - c) % Radix,
                                      c |-> IF a[Len(b) + i] # 0 THEN 0 ELSE c],
                       Len(a) - Len(b), low.c)
  IN  bn_correct_top(low.r \o high.r)
Difference(a, b) == IF BN_ucmp(a, b) < 0 THEN Bn(1, BN_usub(b, a)) ELSE Bn(0, BN_usub(a, b))
BN_add(a, b) ==
  IF a.neg = b.neg THEN Bn(a.neg, BN_uadd(a.d, b.d))
  ELSE IF a.neg = 1 THEN Difference(b.d, a.d) ELSE Difference(a.d, b.d)
BN_sub(a, b) ==
  IF a.neg # b.neg THEN Bn(a.neg, BN_uadd(a.d, b.d))
  ELSE IF a.neg = 1 THEN Difference(b.d, a.d) ELSE Difference(a.d, b.d)

PlusWord(d, w) ==
  LET s == Carrying(LAMBDA i, c : Low(d[i] + c), Len(d), w)
  IN  s.r \o IF s.c # 0 THEN <<s.c>> ELSE <<>>
MinusWord(d, w) ==                          \* d is not less than w
  LET r == Carrying(LAMBDA i, c : [r |-> (d[i] - c) % Radix,
                                   c |-> IF d[i] < c THEN 1 ELSE 0], Len(d), w).r
  IN  IF Last(r) = 0 THEN Front(r) ELSE r
SubWordFrom(d, w) == IF Len(d) = 1 /\ d[1] < w THEN Bn(1, <<w - d[1]>>) ELSE Bn(0, MinusWord(d, w))
BN_add_word(a, w) ==
  IF w = 0 THEN a
  ELSE IF a.d = <<>> THEN BN_set_word(w)
  ELSE IF a.neg = 1 THEN LET s == SubWordFrom(a.d, w)
                         IN  IF s.d = <<>> THEN s ELSE Bn(1 - s.neg, s.d)
  ELSE Bn(0, PlusWord(a.d, w))
BN_sub_word(a, w) ==
  IF w = 0 THEN a
  ELSE IF a.d = <<>> THEN Bn(1, <<w>>)
  ELSE IF a.neg = 1 THEN Bn(1, PlusWord(a.d, w)) ELSE SubWordFrom(a.d, w)
------------------------------------------------------------------------------
(* crypto/bn/shift.c                                                       *)
ShiftedLeft(d, lb) ==                       \* 0 <= lb < BITS2
  LET s == Carrying(LAMBDA i, c : Low(d[i] * 2^lb + c), Len(d), 0) IN Append(s.r, s.c)
BN_lshift(a, n) ==
  Bn(a.neg, bn_correct_top(Zeros(n \div BITS2) \o ShiftedLeft(a.d, n % BITS2)))
BN_lshift1(a) ==
  LET s == ShiftedLeft(a.d, 1) IN Bn(a.neg, IF Last(s) = 0 THEN Front(s) ELSE s)
RightWord(d, i, rb) ==
  (d[i] \div 2^rb) + IF i < Len(d) THEN (d[i + 1] * 2^(BITS2 - rb)) % Radix ELSE 0
BN_rshift(a, n) ==
  LET nw == n \div BITS2
      i == (BN_num_bits(a.d) - n + BITS2 - 1) \div BITS2
  IN  IF nw >= Len(a.d) THEN BN_zero
      ELSE Bn(a.neg, [k \in 1..i |-> RightWord(a.d, nw + k, n % BITS2)])
BN_rshift1(a) ==
  IF a.d = <<>> THEN BN_zero
  ELSE Bn(a.neg, [k \in 1 .. Len(a.d) - (IF Last(a.d) = 1 THEN 1 ELSE 0) |->
                    RightWord(a.d, k, 1)])
IsBit(w, j) == (w \div 2^j) % 2 = 1
BN_is_bit_set(a, n) == n \div BITS2 < Len(a.d) /\ IsBit(a.d[n \div BITS2 + 1], n % BITS2)
BN_set_bit(a, n) ==
  LET i == n \div BITS2 + 1
      d == a.d \o Zeros(i - Len(a.d))
  IN  Bn(a.neg, [d EXCEPT ![i] = IF IsBit(@, n % BITS2) THEN @ ELSE @ + 2^(n % BITS2)])
BN_clear_bit(a, n) ==
  IF ~BN_is_bit_set(a, n) THEN a
  ELSE Bn(a.neg, bn_correct_top([a.d EXCEPT ![n \div BITS2 + 1] = @ - 2^(n % BITS2)]))
BN_mask_bits(a, n) ==
  LET w == n \div BITS2
      b == n % BITS2
  IN  IF w >= Len(a.d) THEN a              \* reported as a failure
      ELSE Bn(a.neg, bn_correct_top(Slice(a.d, 0, w) \o
                                    IF b = 0 THEN <<>> ELSE <<a.d[w + 1] % 2^b>>))
------------------------------------------------------------------------------
(* crypto/bn/mul.c                                                         *)
bn_mul_normal(x, y) ==
  LET a == IF Len(x) < Len(y) THEN y ELSE x
      b == IF Len(x) < Len(y) THEN x ELSE y
      row(r, i) == LET s == bn_mul_add_words(Slice(r, i - 1, Len(a)), a, b[i])
                   IN  [Spliced(r, i - 1, s.r) EXCEPT ![Len(a) + i] = s.c]
  IN  FoldLeft(row, Zeros(Len(a) + Len(b)), [i \in DOMAIN b |-> i])

(* bn_sub_part_words: the longer of the two is as long as the result.      *)
bn_sub_part_words(a, b, n) ==
  bn_sub_words(a \o Zeros(n - Len(a)), b \o Zeros(n - Len(b))).r

(* What the end of a Karatsuba step does with the products of the low      *)
(* halves, of the high halves and of the differences: the middle word is   *)
(* their sum, its carry may be as low as -1.                               *)
Middle(t, middle, neg) == IF neg THEN bn_sub_words(t.r, middle) ELSE bn_add_words(middle, t.r)
Propagated(r, sum, c1, n) ==
  Spliced(r, n, sum.r \o Carrying(LAMBDA i, c : Low(r[3 * n + i] + c), n, c1 + sum.c).r)
WithMiddle(r, m, c1, n) == Propagated(r, bn_add_words(Slice(r, n, 2 * n), m.r), c1, n)
CombinedBy(r, t, m, neg, n) == WithMiddle(r, m, t.c + (IF neg THEN -m.c ELSE m.c), n)
CombinedSum(r, t, middle, neg, n) == CombinedBy(r, t, Middle(t, middle, neg), neg, n)
ForgetsCarry(low, high, middle, neg, n) ==  \* fault: the carry of the first sum is lost
  CombinedSum(low \o high, [bn_add_words(low, high) EXCEPT !.c = 0], middle, neg, n)
Combined(low, high, middle, neg, n) ==
  CombinedSum(low \o high, bn_add_words(low, high), middle, neg, n)

(* The differences of the halves and the sign of their product; c1 and c2  *)
(* compare the halves of a and, the other way round, those of b.           *)
PartDifference(c, x, y, n) ==
  IF c < 0 THEN bn_sub_part_words(y, x, n) ELSE bn_sub_part_words(x, y, n)
WithSigns(a0, a1, b0, b1, c1, c2, n) ==
  [a0 |-> a0, a1 |-> a1, b0 |-> b0, b1 |-> b1,
   zero |-> c1 = 0 \/ c2 = 0, neg |-> c1 * c2 < 0,
   da |-> PartDifference(c1, a0, a1, n), db |-> PartDifference(-c2, b0, b1, n)]
HalvesOf(a0, a1, b0, b1, n) ==
  WithSigns(a0, a1, b0, b1, bn_cmp_part_words(a0, a1), bn_cmp_part_words(b1, b0), n)
Halves(a, b, n) ==
  HalvesOf(Slice(a, 0, n), Slice(a, n, Len(a) - n), Slice(b, 0, n), Slice(b, n, Len(b) - n), n)
Padded(r, n) == r \o Zeros(n - Len(r))

(* a and b have n2 words, or, at the end of a number, fewer of them.       *)
RECURSIVE bn_mul_recursive(_, _, _)
RECURSIVE ProductOf(_, _, _)
ProductOf(x, y, n) ==                       \* of two halves of n words, or fewer
  IF n <= Comba /\ Len(x) = n /\ Len(y) = n THEN bn_mul_comba(x, y) ELSE bn_mul_recursive(x, y, n)
MulHalves(h, n) ==
  Combined(ProductOf(h.a0, h.b0, n), ProductOf(h.a1, h.b1, n),
           IF h.zero THEN Zeros(2 * n) ELSE ProductOf(h.da, h.db, n), h.neg, n)
bn_mul_recursive(a, b, n2) ==
  IF n2 = Comba /\ Len(a) = n2 /\ Len(b) = n2 THEN bn_mul_comba(a, b)
  ELSE IF n2 < RecursiveSize THEN Padded(bn_mul_normal(a, b), 2 * n2)
  ELSE MulHalves(Halves(a, b, n2 \div 2), n2 \div 2)

(* a and b have n words and a few more, less than n: tna and tnb.          *)
RECURSIVE bn_mul_part_recursive(_, _, _)
RECURSIVE OfTheRest(_, _, _)
OfTheRest(a, b, i) ==                       \* the high halves of tna and tnb words
  IF i < Len(a) \/ i < Len(b) THEN bn_mul_part_recursive(a, b, i)
  ELSE IF i = Len(a) \/ i = Len(b) THEN bn_mul_recursive(a, b, i)
  ELSE OfTheRest(a, b, i \div 2)
HighHalves(a, b, n) ==
  IF n = Comba \/ (Len(a) < RecursiveSize /\ Len(b) < RecursiveSize
                    /\ Len(a) < n \div 2 /\ Len(b) < n \div 2) THEN bn_mul_normal(a, b)
  ELSE OfTheRest(a, b, IF Len(a) >= n \div 2 \/ Len(b) >= n \div 2 THEN n \div 2 ELSE n \div 4)
MulPartHalves(h, n) ==
  Combined(ProductOf(h.a0, h.b0, n), Padded(HighHalves(h.a1, h.b1, n), 2 * n),
           ProductOf(h.da, h.db, n), h.neg, n)
bn_mul_part_recursive(a, b, n) ==
  IF n < Comba THEN Padded(bn_mul_normal(a, b), 4 * n) ELSE MulPartHalves(Halves(a, b, n), n)

mul_words(a, b, j) ==
  IF Len(a) = Len(b) /\ Len(a) = Comba THEN bn_mul_comba(a, b)
  ELSE IF Len(a) >= RecursiveSize /\ Len(b) >= RecursiveSize /\ Len(a) - Len(b) \in -1..1
  THEN IF Len(a) > j \/ Len(b) > j THEN bn_mul_part_recursive(a, b, j) ELSE bn_mul_recursive(a, b, j)
  ELSE bn_mul_normal(a, b)
BN_mul(a, b) ==
  IF a.d = <<>> \/ b.d = <<>> THEN BN_zero
  ELSE Bn((a.neg + b.neg) % 2,
          bn_correct_top(Slice(mul_words(a.d, b.d, 2^(BN_num_bits_word(
            IF Len(a.d) >= Len(b.d) THEN Len(a.d) ELSE Len(b.d)) - 1)), 0, Len(a.d) + Len(b.d))))

Doubled(d) == bn_add_words(d, d).r
bn_sqr_normal(a) ==
  LET n == Len(a)
      put(r, i, s) == [Spliced(r, 2 * i - 1, s.r) EXCEPT ![n + i] = s.c]
      row(r, i) == put(r, i, bn_mul_add_words(Slice(r, 2 * i - 1, n - i), Slice(a, i, n - i), a[i]))
  IN  bn_add_words(Doubled(FoldLeft(row, Zeros(2 * n), [i \in 1 .. n - 1 |-> i])), bn_sqr_words(a)).r

RECURSIVE bn_sqr_recursive(_)
SqrHalves(h, n) ==
  Combined(bn_sqr_recursive(h.a0), bn_sqr_recursive(h.a1),
           IF h.zero THEN Zeros(2 * n) ELSE bn_sqr_recursive(h.da), TRUE, n)
bn_sqr_recursive(a) ==
  IF Len(a) \in {Comba, Comba \div 2} THEN bn_sqr_comba(a)
  ELSE IF Len(a) < RecursiveSize THEN bn_sqr_normal(a)
  ELSE SqrHalves(Halves(a, a, Len(a) \div 2), Len(a) \div 2)

(* The square has a word less when the upper half of the top word is zero. *)
BN_sqr(a) ==
  LET al == Len(a.d)
      r == IF al \in {Comba, Comba \div 2} THEN bn_sqr_comba(a.d)
           ELSE IF al < RecursiveSize \/ al # 2^(BN_num_bits_word(al) - 1)
           THEN bn_sqr_normal(a.d) ELSE bn_sqr_recursive(a.d)
  IN  IF al = 0 THEN BN_zero
      ELSE Bn(0, Slice(r, 0, IF Last(a.d) = Last(a.d) % Half THEN 2 * al - 1 ELSE 2 * al))

BN_mul_word(a, w) ==
  LET s == bn_mul_words(a.d, w)
  IN  IF a.d = <<>> THEN a
      ELSE IF w = 0 THEN BN_zero
      ELSE Bn(a.neg, IF s.c # 0 THEN Append(s.r, s.c) ELSE s.r)
------------------------------------------------------------------------------
(* crypto/bn/div.c: Knuth's algorithm D.  A digit is estimated from two    *)
(* words of the divisor, lowered while it is too large for three words of  *)
(* the window, and corrected once if the window runs out.                  *)
RECURSIVE LoweredDigit(_, _, _, _, _)
LoweredDigit(q, rem, d0, d1, next) ==
  IF d1 * q <= rem * Radix + next THEN q
  ELSE IF rem + d0 >= Radix THEN q - 1
  ELSE LoweredDigit(q - 1, rem + d0, d0, d1, next)
FromWords(q, n1, next, d0, d1) == LoweredDigit(q, (n1 - q * d0) % Radix, d0, d1, next)
DigitOf(n0, n1, next, d0, d1) ==
  IF n0 = d0 THEN Radix - 1 ELSE FromWords(bn_div_words(n0, n1, d0), n1, next, d0, d1)

(* A step: the window into num starts at p; q is what it contributes.      *)
WindowDigit(num, sdiv, p, n) ==
  DigitOf(num[p + n + 1], num[p + n], num[p + n - 1], sdiv[n], IF n = 1 THEN 0 ELSE sdiv[n - 1])
WithoutProduct(num, tmp, p) == bn_sub_words(Slice(num, p, Len(tmp.r) + 1), Append(tmp.r, tmp.c))
Kept(s, p, less, q) == [num |-> Spliced(s.num, p, less.r), res |-> <<q>> \o s.res]
AddedBack(s, p, less, back, q) ==
  [num |-> Spliced(s.num, p, Append(back.r, (Last(less.r) + back.c) % Radix)),
   res |-> <<q - 1>> \o s.res]
Subtracted(s, sdiv, p, q, less) ==
  IF less.c = 0 THEN Kept(s, p, less, q)
  ELSE AddedBack(s, p, less, bn_add_words(Front(less.r), sdiv), q)
NotAddedBack(s, sdiv, p) ==                 \* fault: the digit may be one too large
  LET by(q) == Kept(s, p, WithoutProduct(s.num, bn_mul_words(sdiv, q), p), q)
  IN  by(WindowDigit(s.num, sdiv, p, Len(sdiv)))
Divided(s, sdiv, p) ==
  LET by(q) == Subtracted(s, sdiv, p, q, WithoutProduct(s.num, bn_mul_words(sdiv, q), p))
  IN  by(WindowDigit(s.num, sdiv, p, Len(sdiv)))

(* The highest digit is one or zero; loop windows follow.                  *)
FirstDigit(num, sdiv, loop) ==
  IF BN_ucmp(Slice(num, loop, Len(sdiv)), sdiv) < 0 THEN [num |-> num, res |-> <<>>]
  ELSE [num |-> Spliced(num, loop, bn_sub_words(Slice(num, loop, Len(sdiv)), sdiv).r), res |-> <<1>>]
Quotient(num, sdiv, loop, no_branch) ==
  FoldLeft(LAMBDA s, i : Divided(s, sdiv, loop - i),
           IF no_branch THEN [num |-> num, res |-> <<>>] ELSE FirstDigit(num, sdiv, loop),
           [i \in 1 .. loop - 1 |-> i])
(* With BN_FLG_CONSTTIME the number is padded, not compared first.         *)
PaddedNumber(num, n) == IF Len(num) <= n + 1 THEN Padded(num, n + 2) ELSE Append(num, 0)
Dividend(num, n, no_branch) == IF no_branch THEN PaddedNumber(num, n) ELSE num
Remainder(num, neg, distance) ==
  LET signed(rem) == IF rem.d = <<>> THEN rem ELSE Bn(neg, rem.d)
  IN  signed(BN_rshift(Bn(0, bn_correct_top(num)), distance))
QuotientOf(res, no_branch) == IF no_branch THEN bn_correct_top(res) ELSE res
DivisionBy(num, divisor, no_branch, shift) ==
  LET end(s) == [dv |-> Bn(IF s.res = <<>> THEN 0 ELSE (num.neg + divisor.neg) % 2,
                           QuotientOf(s.res, no_branch)),
                 rm |-> Remainder(s.num, num.neg, shift + BITS2)]
      division(snum, sdiv) == end(Quotient(snum, sdiv, Len(snum) - Len(sdiv), no_branch))
      by(sdiv) == division(Dividend(BN_lshift(Bn(0, num.d), shift + BITS2).d,
                                    Len(sdiv), no_branch), sdiv)
  IN  by(BN_lshift(Bn(0, divisor.d), shift).d)
BN_div(num, divisor, no_branch) ==
  IF ~no_branch /\ BN_ucmp(num.d, divisor.d) < 0 THEN [dv |-> BN_zero, rm |-> num]
  ELSE DivisionBy(num, divisor, no_branch, BITS2 - (BN_num_bits(divisor.d) % BITS2))

WordStep(s, d, w, q) == [ret |-> (d - q * w) % Radix, q |-> <<q>> \o s.q]
WordQuotient(d, w) ==
  FoldRight(LAMBDA v, s : WordStep(s, v, w, bn_div_words(s.ret, v, w)), d, [ret |-> 0, q |-> <<>>])
BN_div_word(a, w0) ==
  LET j == BITS2 - BN_num_bits_word(w0)
      found(s) == [a |-> Bn(a.neg, IF s.q # <<>> /\ Last(s.q) = 0 THEN Front(s.q) ELSE s.q),
                   ret |-> s.ret \div 2^j]
  IN  found(WordQuotient(BN_lshift(a, j).d, w0 * 2^j))

BN_mod_word(a, w) ==
  FoldLeft(LAMBDA ret, d : LET r == (((ret * Half) % Radix) + d \div Half) % w
                           IN  (((r * Half) % Radix) + (d % Half)) % w, 0, Reverse(a.d))
------------------------------------------------------------------------------
(* crypto/bn/montgomery.c.  n0 is the inverse of -N modulo a word.         *)
MontN0(n) ==
  LET tmod == n.d[1]
      ri == BN_mod_inverse(Radix, tmod, FALSE).v * Radix
  IN  ((IF ri # 0 THEN ri - 1 ELSE Radix - 1) \div tmod) % Radix

ReducedWord(s, i, nl, m, v) ==              \* old is what v replaces
  LET old == s.r[nl + i]
  IN  [r |-> [Spliced(s.r, i - 1, m.r) EXCEPT ![nl + i] = v],
       carry |-> IF (s.carry = 1 \/ v # old) /\ v <= old THEN 1 ELSE 0]
ReductionBy(s, i, nl, m) == ReducedWord(s, i, nl, m, (m.c + s.carry + s.r[nl + i]) % Radix)
ReductionStep(s, i, n, n0) ==
  ReductionBy(s, i, Len(n), bn_mul_add_words(Slice(s.r, i - 1, Len(n)), n, (s.r[i] * n0) % Radix))
HighWords(end, n) ==                        \* less the modulus if that does not borrow
  LET high == Slice(end.r, Len(n), Len(n))
      chosen(less) == IF less.c - end.carry = 0 THEN less.r ELSE high
  IN  chosen(bn_sub_words(high, n))
MontReduced(r, n, n0) ==
  FoldLeft(LAMBDA s, i : ReductionStep(s, i, n, n0),
           [r |-> Padded(r, 2 * Len(n)), carry |-> 0], [i \in DOMAIN n |-> i])
BN_from_montgomery_word(r, n, n0) ==
  Bn((r.neg + n.neg) % 2, bn_correct_top(HighWords(MontReduced(r.d, n.d, n0), n.d)))
BN_mod_mul_montgomery(a, b, n, n0) == BN_from_montgomery_word(BN_mul(a, b), n, n0)
------------------------------------------------------------------------------
(* crypto/bn/convert.c: a byte has half of a word's bits, a digit of a hex *)
(* string half of a byte's.                                                *)
Nibble == 2^(BITS2 \div 4)
BN_bin2bn(bytes) ==
  LET n == Len(bytes)
      byte(i) == IF i < n THEN bytes[n - i] ELSE 0
  IN  Bn(0, bn_correct_top([k \in 1 .. (n + 1) \div 2 |-> byte(2 * k - 1) * Half + byte(2 * k - 2)]))
ByteAt(d, i) == LET w == d[i \div 2 + 1] IN IF i % 2 = 1 THEN w \div Half ELSE w % Half
BN_bn2bin(a) ==
  LET n == (BN_num_bits(a.d) + BITS4 - 1) \div BITS4
  IN  [i \in 1..n |-> ByteAt(a.d, n - i)]
(* read_word_padded: behind the end the last word is read and not used.    *)
BN_bn2bin_padded(a, len) ==
  LET word(i) == IF i < Len(a.d) THEN a.d[i + 1] ELSE 0
      fits == /\ Len(a.d) <= (len + 1) \div 2
              /\ len % 2 # 0 => word(len \div 2) \div Half = 0
      byte(i) == IF i % 2 = 1 THEN word(i \div 2) \div Half ELSE word(i \div 2) % Half
  IN  IF a.d = <<>> THEN [ok |-> TRUE, out |-> Zeros(len)]
      ELSE [ok |-> fits, out |-> IF fits THEN [i \in 1..len |-> byte(len - i)] ELSE <<>>]

(* bn_x2bn sets the sign, then decodes: the words of a hex string directly, *)
(* a decimal string block by block with BN_mul_word and BN_add_word, which *)
(* loses the sign.                                                         *)
decode_hex(neg, digits) ==
  LET n == Len(digits)
      digit(i) == IF i < n THEN digits[n - i] ELSE 0
  IN  Bn(neg, [h \in 1 .. (n + 3) \div 4 |->
                 FoldRight(LAMBDA j, l : l * Nibble + digit(4 * (h - 1) + j), <<0, 1, 2, 3>>, 0)])
decode_dec(neg, digits) ==
  LET step(s, c) ==
        LET l == s.l * Ten + c
        IN  IF s.j + 1 = DecNum
            THEN [bn |-> BN_add_word(BN_mul_word(s.bn, DecConv), l), l |-> 0, j |-> 0]
            ELSE [bn |-> s.bn, l |-> l, j |-> s.j + 1]
      j == (DecNum - (Len(digits) % DecNum)) % DecNum
  IN  FoldLeft(step, [bn |-> Bn(neg, <<>>), l |-> 0, j |-> j], digits).bn
BN_hex2bn(neg, digits) == LET a == decode_hex(neg, digits) IN Bn(a.neg, bn_correct_top(a.d))
BN_dec2bn(neg, digits) == decode_dec(neg, digits)
BN_asc2bn(neg, hex, digits) ==
  LET a == IF hex THEN BN_hex2bn(0, digits) ELSE BN_dec2bn(neg, digits)
  IN  Bn(IF neg = 1 THEN 1 ELSE a.neg, a.d)

Unled(digits) == IF digits = <<>> \/ digits[1] # 0 THEN digits ELSE Tail(digits)
BN_bn2hex(a) ==                             \* leading zero bytes are left out
  FoldLeft(LAMBDA s, b : IF s = <<>> /\ b = 0 THEN s ELSE s \o <<b \div Nibble, b % Nibble>>,
           <<>>, [i \in 1 .. 2 * Len(a.d) |-> ByteAt(a.d, 2 * Len(a.d) - i)])
RECURSIVE BlocksOf(_)
BlocksOf(a) ==
  LET by(s) == Append(BlocksOf(s.a), s.ret)
  IN  IF a.d = <<>> THEN <<>> ELSE by(BN_div_word(a, DecConv))
RECURSIVE DigitsOf(_, _)
DigitsOf(v, n) == IF n = 0 THEN <<>> ELSE Append(DigitsOf(v \div Ten, n - 1), v % Ten)
FirstBlock(v) ==                            \* is not padded
  DigitsOf(v, CHOOSE n \in 1..DecNum : v < Ten^n /\ (n > 1 => v >= Ten^(n - 1)))
BlocksDigits(blocks) ==
  FirstBlock(Head(blocks))
    \o FlattenSeq([i \in 1 .. Len(blocks) - 1 |-> DigitsOf(blocks[i + 1], DecNum)])
BN_bn2dec(a) == IF a.d = <<>> THEN <<0>> ELSE BlocksDigits(BlocksOf(a))
------------------------------------------------------------------------------
(* Calls with arguments from bounded sets; n0 of the Montgomery reduction  *)
(* exists for odd numbers.                                                 *)
CalculateArithmetic == \E c \in BnCases :
  LET a == c.a
      b == c.b
  IN  Calculates("arithmetic", c,
        [cmp |-> BN_cmp(a, b), sum |-> BN_add(a, b), diff |-> BN_sub(a, b),
         product |-> BN_mul(a, b), square |-> BN_sqr(a),
         div |-> IF b.d = <<>> THEN {} ELSE {BN_div(a, b, t) : t \in BOOLEAN},
         mont |-> IF b.neg = 0 /\ b.d # <<>> /\ IsOdd(b.d[1]) /\ BN_ucmp(a.d, b.d) < 0
                  THEN BN_mod_mul_montgomery(Bn(0, a.d), Bn(0, a.d), b, MontN0(b)) ELSE BN_zero])
CalculateWord == \E c \in BnCases :
  /\ Len(c.b.d) = 1
  /\ LET a == c.a
         w == c.b.d[1]
     IN  Calculates("word", [a |-> a, w |-> w],
           [sum |-> BN_add_word(a, w), diff |-> BN_sub_word(a, w), product |-> BN_mul_word(a, w),
            div |-> BN_div_word(a, w), mod |-> BN_mod_word(a, w),
            wide |-> [i \in DOMAIN a.d |-> mul64(a.d[i] % Half, a.d[i] \div Half,
                                               w % Half, w \div Half)],
            left |-> BN_lshift(a, w), one |-> BN_lshift1(a),
            right |-> BN_rshift(a, w), half |-> BN_rshift1(a),
            low |-> BN_mask_bits(a, w), with |-> BN_set_bit(a, w), without |-> BN_clear_bit(a, w)])
CalculateLong == \E c \in LongCases :
  Calculates("long", c, [product |-> BN_mul(Bn(0, c.a), Bn(0, c.b)), square |-> BN_sqr(Bn(0, c.a)),
                         rows |-> bn_mul_normal(c.a, c.b), same |-> bn_mul_normal(c.a, c.a)])
CalculateBytes == \E c \in BnCases :
  LET a == c.a IN
  /\ c.b.d = <<>>
  /\ Calculates("bytes", a,
       [bin |-> BN_bin2bn(BN_bn2bin(a)), padded |-> [n \in 0..6 |-> BN_bn2bin_padded(a, n)],
        hex |-> BN_asc2bn(a.neg, TRUE, BN_bn2hex(a)), dec |-> BN_asc2bn(a.neg, FALSE, BN_bn2dec(a))])
CalculateDigits == \E c \in DigitCases :
  Calculates("digits", c, BN_asc2bn(c.neg, FALSE, c.digits))

WordsNext ==
  \/ CalculateArithmetic \/ CalculateWord \/ CalculateLong \/ CalculateBytes \/ CalculateDigits
------------------------------------------------------------------------------
IsNormal(a) == IF a.d = <<>> THEN a.neg = 0 ELSE Last(a.d) # 0
Is(a, v) == IsNormal(a) /\ ValueOf(a) = v
IsMagnitude(d, v) == Magnitude(d) = v /\ (d # <<>> => Last(d) # 0)
SameWords(d, e) == bn_correct_top(d) = bn_correct_top(e)

(* Sums, differences, products, quotients and remainders of numbers of     *)
(* several words are those of the integers, whatever is carried or         *)
(* borrowed and however far the first estimate of a digit of the quotient  *)
(* is off, and have no leading zeros.  The remainder has the sign of the   *)
(* number that is divided.  A Montgomery product is reduced.               *)
ArithmeticIsRight ==
  Calculated("arithmetic") =>
    LET a == ValueOf(calc.in.a)
        b == ValueOf(calc.in.b)
        o == calc.out
        sign(x) == IF x > 0 THEN 1 ELSE IF x < 0 THEN -1 ELSE 0
    IN  /\ sign(o.cmp) = sign(a - b)
        /\ Is(o.sum, a + b) /\ Is(o.diff, a - b) /\ Is(o.product, a * b) /\ Is(o.square, a * a)
        /\ \A q \in o.div :
             /\ Is(q.rm, a - ValueOf(q.dv) * b) /\ IsMagnitude(q.dv.d, Abs(a) \div Abs(b))
             /\ q.dv.d # <<>> => ((q.dv.neg = 1) = ((a < 0) # (b < 0)))
             /\ q.rm.d # <<>> => ((q.rm.neg = 1) = (a < 0))
        /\ b > 0 /\ IsOdd(b) /\ Abs(a) < b =>
             Is(o.mont, BN_from_montgomery((a * a) % b, b))
        /\ IsNormal(o.mont)

(* With a word for one of the numbers, or for the distance of a shift, the *)
(* same; the product of two words has a high and a low half.               *)
WordArithmeticIsRight ==
  Calculated("word") =>
    LET a == ValueOf(calc.in.a)
        w == calc.in.w
        d == calc.in.a.d
        o == calc.out
    IN  /\ Is(o.sum, a + w) /\ Is(o.diff, a - w) /\ Is(o.product, a * w)
        /\ IsMagnitude(o.div.a.d, Abs(a) \div w) /\ o.div.ret = Abs(a) % w
        /\ w <= Half => o.mod = Abs(a) % w
        /\ \A i \in DOMAIN d : o.wide[i].hi * Radix + o.wide[i].lo = d[i] * w
        /\ Is(o.left, a * 2^w) /\ Is(o.one, a * 2)
        /\ IsMagnitude(o.right.d, Abs(a) \div 2^w) /\ IsMagnitude(o.half.d, Abs(a) \div 2)
        /\ IsMagnitude(o.low.d, Abs(a) % 2^w)
        /\ IsMagnitude(o.with.d, Abs(a) + IF IsBit(Abs(a), w) THEN 0 ELSE 2^w)
        /\ IsMagnitude(o.without.d, Abs(a) - IF IsBit(Abs(a), w) THEN 2^w ELSE 0)

(* Karatsuba's products and squares of long numbers, by halves of equal or *)
(* unequal length down to unrolled columns, are those of the rows.         *)
LongProductsAreRight ==
  Calculated("long") => /\ calc.out.product.d = bn_correct_top(calc.out.rows)
                        /\ calc.out.square.d = bn_correct_top(calc.out.same)

(* A number survives being written as bytes, as a hexadecimal and as a     *)
(* decimal string; padded, it is written if and only if it fits; a string  *)
(* of digits, leading zeros or not, is read as the number it denotes.      *)
ConversionsAreRight ==
  /\ Calculated("bytes") =>
       LET a == calc.in
           p == calc.out.padded
       IN  /\ calc.out.bin.d = a.d /\ calc.out.hex = a /\ calc.out.dec = a
           /\ \A n \in DOMAIN p : /\ p[n].ok = (n * BITS4 >= BN_num_bits(a.d))
                                 /\ p[n].ok => BN_bin2bn(p[n].out).d = a.d /\ Len(p[n].out) = n
  /\ Calculated("digits") =>
       LET v == FoldLeft(LAMBDA x, c : x * Ten + c, 0, calc.in.digits)
       IN  v # 0 => Is(calc.out, IF calc.in.neg = 1 THEN -v ELSE v)

(* The arithmetic of words is that of the integers, and the algorithms     *)
(* above it compute what textbooks define: what the parts above and        *)
(* AlgorithmsAreRight say.                                                 *)
BigNumbersAreRight ==
  /\ AlgorithmsAreRight
  /\ ArithmeticIsRight /\ WordArithmeticIsRight /\ LongProductsAreRight /\ ConversionsAreRight
=============================================================================
