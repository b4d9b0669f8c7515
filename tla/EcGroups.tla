------------------------------- MODULE EcGroups -------------------------------
(* The group of the points of a curve y^2 = x^3 + a x + b over the numbers  *)
(* modulo a prime p > 3: a point is its pair of affine coordinates and <<>>  *)
(* is the point at infinity.  This is what crypto/ec computes: EcPoints and  *)
(* EcMultiples show that its coordinates and multiplications agree with it.  *)
EXTENDS Integers, Sequences

Recip(x, p) == CHOOSE y \in 0 .. p - 1 : (x * y) % p = 1

OnCurve(c, q) ==
  q = <<>> \/ (q[2] * q[2]) % c.p = (q[1] * q[1] * q[1] + c.a * q[1] + c.b) % c.p
CurvePoints(c) ==
  {<<>>} \cup {q \in (0 .. c.p - 1) \X (0 .. c.p - 1) : OnCurve(c, q)}

\* the sum as the chord and tangent rule defines it
SlopeOf(c, q, r) ==
  IF q = r THEN (3 * q[1] * q[1] + c.a) * Recip((2 * q[2]) % c.p, c.p)
  ELSE (q[2] - r[2]) * Recip((q[1] - r[1]) % c.p, c.p)
OnLine(c, q, l, x) == <<x, (l * (q[1] - x) - q[2]) % c.p>>
SumBy(c, q, r, l) == OnLine(c, q, l, (l * l - q[1] - r[1]) % c.p)
GroupSum(c, q, r) ==
  IF q = <<>> THEN r
  ELSE IF r = <<>> THEN q
  ELSE IF q[1] = r[1] /\ (q[2] + r[2]) % c.p = 0 THEN <<>>
  ELSE SumBy(c, q, r, SlopeOf(c, q, r))
GroupInverse(c, q) == IF q = <<>> THEN q ELSE <<q[1], (-q[2]) % c.p>>

\* the sum of n times q, alone in its set
RECURSIVE Reached(_, _, _)
Reached(c, q, n) ==
  IF n = 0 THEN {<<>>} ELSE {GroupSum(c, s, q) : s \in Reached(c, q, n - 1)}
Multiple(c, k, q) ==
  CHOOSE s \in IF k < 0 THEN Reached(c, GroupInverse(c, q), -k) ELSE Reached(c, q, k) : TRUE
=============================================================================
