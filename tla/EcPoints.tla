------------------------------ MODULE EcPoints ------------------------------
(* Points of an elliptic curve over a prime field, in Jacobian coordinates  *)
(* (simple.c), over numbers stored plainly or in Montgomery form            *)
(* (ec_montgomery.c).  A group is what group_set_curve leaves in EC_GROUP:  *)
(* the field, the coefficients as they are stored, and the Montgomery       *)
(* context; a point is [X, Y, Z, one], one the flag Z_is_one.  The calls'   *)
(* check that a point has the group's method (ec.c) always succeeds here.   *)
(*                                                                           *)
(* Sums of multiples of points (wnaf.c): the width-(w+1) non-adjacent form   *)
(* of a scalar, the interleaved multiplication of ec_wNAF_mul, and the       *)
(* multiples of the generator that ec_wNAF_precompute_mult keeps.  Here a    *)
(* point is its logarithm to the base of the generator, a number modulo      *)
(* Order, and the infinity is 0: the formulas above are taken for granted.   *)
EXTENDS EcGroups, FiniteSets, Calculation
LOCAL INSTANCE SequencesExt
LOCAL INSTANCE FiniteSetsExt

CONSTANTS
  CurveCases,   \* the arguments of group_set_curve: [p, a, b, mont]
  MontFactor,        \* the power of two a Montgomery form multiplies by
  PointCurves,  \* the curves, as above, on which points are computed with
  Scales,       \* the Z coordinates points are given with
  ListSizes,    \* how many points are made affine at once
  Order,         \* of the generator
  WindowSteps,   \* the scalar sizes from which the window is one wider
  BlockSize,     \* digits in a block of the split form (8 in the source)
  LeastWindow,   \* of the precomputed multiples (4 in the source)
  NafScalars, NafWindows,   \* the arguments of compute_wNAF
  GeneratorScalars, TermLists  \* those of ec_wNAF_mul, and pairs of a scalar and a point

(* ------------------------------- the field ------------------------------ *)
FieldMul(g, x, y) == IF g.mont THEN (x * y * g.rinv) % g.p ELSE (x * y) % g.p
FieldSqr(g, x) == FieldMul(g, x, x)
FieldEncode(g, x) == IF g.mont THEN (x * MontFactor) % g.p ELSE x
FieldDecode(g, x) == IF g.mont THEN (x * g.rinv) % g.p ELSE x
FieldOne(g) == FieldEncode(g, 1)
Plus(g, x, y) == (x + y) % g.p
Minus(g, x, y) == (x - y) % g.p
Cube(g, x) == FieldMul(g, FieldSqr(g, x), x)

(* ------------------------------- the group ------------------------------ *)
Invalid == [p |-> 0, a |-> 0, b |-> 0, mont |-> FALSE, rinv |-> 0, minus3 |-> FALSE]

\* group_set_curve of both methods: BN_MONT_CTX_set fails for an even modulus
GroupWith(c, g) ==
  [g EXCEPT !.a = FieldEncode(g, c.a % c.p), !.b = FieldEncode(g, c.b % c.p),
            !.minus3 = ((c.a % c.p) + 3 = c.p)]
SetCurve(c) ==
  IF c.p <= 3 \/ c.p % 2 = 0 THEN Invalid
  ELSE GroupWith(c, [Invalid EXCEPT !.p = c.p, !.mont = c.mont,
                                    !.rinv = IF c.mont THEN Recip(MontFactor, c.p) ELSE 0])

GetCurve(g) == [p |-> g.p, a |-> FieldDecode(g, g.a), b |-> FieldDecode(g, g.b)]

Nonsingular(p, a, b) ==
  IF a = 0 THEN b # 0 ELSE b # 0 => (4 * a * a * a + 27 * b * b) % p # 0
CheckDiscriminant(g) == Nonsingular(g.p, GetCurve(g).a, GetCurve(g).b)

(* ------------------------------- the points ----------------------------- *)
AtInfinity(pt) == ~pt.one /\ pt.Z = 0
ToInfinity(pt) == [pt EXCEPT !.Z = 0, !.one = FALSE]

SetJprojective(g, x, y, z) ==
  [X |-> FieldEncode(g, x % g.p), Y |-> FieldEncode(g, y % g.p),
   Z |-> FieldEncode(g, z % g.p), one |-> (z % g.p) = 1]
GetJprojective(g, pt) == <<FieldDecode(g, pt.X), FieldDecode(g, pt.Y), FieldDecode(g, pt.Z)>>
SetAffine(g, x, y) == SetJprojective(g, x, y, 1)

\* <<>> is the error for the point at infinity; inv is BN_mod_inverse of Z,
\* whose powers stay plain so that field_mul takes the factor out of X and Y
AffineBy(g, pt, inv) ==
  <<FieldMul(g, pt.X, (inv * inv) % g.p), FieldMul(g, pt.Y, (inv * inv * inv) % g.p)>>
GetAffine(g, pt) ==
  IF AtInfinity(pt) THEN <<>>
  ELSE IF FieldDecode(g, pt.Z) = 1 THEN <<FieldDecode(g, pt.X), FieldDecode(g, pt.Y)>>
  ELSE AffineBy(g, pt, Recip(FieldDecode(g, pt.Z), g.p))

OverZ2(g, x, pt) == IF pt.one THEN x ELSE FieldMul(g, x, FieldSqr(g, pt.Z))
OverZ3(g, y, pt) == IF pt.one THEN y ELSE FieldMul(g, y, Cube(g, pt.Z))

(* ec_GFp_simple_dbl: n1 = 3 X^2 + a Z^4, n2 = 4 X Y^2, n3 = 8 Y^4.         *)
Slope(g, pt) ==
  IF pt.one THEN Plus(g, 3 * FieldSqr(g, pt.X), g.a)
  ELSE IF g.minus3
  THEN (3 * FieldMul(g, Plus(g, pt.X, FieldSqr(g, pt.Z)), Minus(g, pt.X, FieldSqr(g, pt.Z)))) % g.p
  ELSE Plus(g, 3 * FieldSqr(g, pt.X), FieldMul(g, FieldSqr(g, FieldSqr(g, pt.Z)), g.a))
DoubleY(g, n1, n2, n3, x, z) ==
  [X |-> x, Y |-> Minus(g, FieldMul(g, n1, Minus(g, n2, x)), n3), Z |-> z, one |-> FALSE]
DoubleX(g, pt, n1, n2, y2) ==
  DoubleY(g, n1, n2, 8 * FieldSqr(g, y2), Minus(g, FieldSqr(g, n1), 2 * n2),
          (2 * (IF pt.one THEN pt.Y ELSE FieldMul(g, pt.Y, pt.Z))) % g.p)
Double(g, pt) ==
  IF AtInfinity(pt) THEN ToInfinity(pt)
  ELSE DoubleX(g, pt, Slope(g, pt), (4 * FieldMul(g, pt.X, FieldSqr(g, pt.Y))) % g.p,
               FieldSqr(g, pt.Y))

(* ec_GFp_simple_add: n1 = X_a Z_b^2, n2 = Y_a Z_b^3, n3 = X_b Z_a^2,       *)
(* n4 = Y_b Z_a^3, n5 = n1 - n3, n6 = n2 - n4, n7 = n1 + n3, n8 = n2 + n4.  *)
\* a mutant: halves of odd numbers too
HalvedPlainly(g, n) == n \div 2
Halved(g, n) == IF n % 2 = 1 THEN (n + g.p) \div 2 ELSE n \div 2
AddZ(g, a, b, n5) ==
  IF a.one /\ b.one THEN n5
  ELSE FieldMul(g, IF a.one THEN b.Z ELSE IF b.one THEN a.Z ELSE FieldMul(g, a.Z, b.Z), n5)
AddY(g, n5, n6, n8, n57, x, z) ==
  [X |-> x, Z |-> z, one |-> FALSE,
   Y |-> Halved(g, Minus(g, FieldMul(g, Minus(g, n57, 2 * x), n6), FieldMul(g, n8, Cube(g, n5))))]
AddX(g, a, b, n5, n6, n8, n57) ==
  AddY(g, n5, n6, n8, n57, Minus(g, FieldSqr(g, n6), n57), AddZ(g, a, b, n5))
AddOf(g, a, b, n1, n2, n3, n4) ==
  IF n1 # n3
  THEN AddX(g, a, b, Minus(g, n1, n3), Minus(g, n2, n4), Plus(g, n2, n4),
            FieldMul(g, Plus(g, n1, n3), FieldSqr(g, Minus(g, n1, n3))))
  ELSE IF n2 = n4 THEN Double(g, a) ELSE ToInfinity(a)
Add(g, a, b, same) ==
  IF same THEN Double(g, a)
  ELSE IF AtInfinity(a) THEN b
  ELSE IF AtInfinity(b) THEN a
  ELSE AddOf(g, a, b, OverZ2(g, a.X, b), OverZ3(g, a.Y, b), OverZ2(g, b.X, a), OverZ3(g, b.Y, a))

Invert(g, pt) == IF AtInfinity(pt) \/ pt.Y = 0 THEN pt ELSE [pt EXCEPT !.Y = g.p - @]

(* Whether Y^2 = (X^2 + a Z^4) X + b Z^6.                                   *)
\* a mutant: minus3 of the coefficient is forgotten
FactorWithoutA(g, pt, z4) == IF pt.one THEN Plus(g, FieldSqr(g, pt.X), g.a) ELSE Plus(g, FieldSqr(g, pt.X), z4)
CurveFactor(g, pt, z4) ==
  IF pt.one THEN Plus(g, FieldSqr(g, pt.X), g.a)
  ELSE IF g.minus3 THEN Minus(g, FieldSqr(g, pt.X), 3 * z4)
  ELSE Plus(g, FieldSqr(g, pt.X), FieldMul(g, z4, g.a))
CurveRest(g, pt, z4) ==
  IF pt.one THEN g.b ELSE FieldMul(g, g.b, FieldMul(g, z4, FieldSqr(g, pt.Z)))
OnCurveWith(g, pt, z4) ==
  FieldSqr(g, pt.Y) = Plus(g, FieldMul(g, CurveFactor(g, pt, z4), pt.X), CurveRest(g, pt, z4))
IsOnCurve(g, pt) ==
  AtInfinity(pt) \/ OnCurveWith(g, pt, FieldSqr(g, FieldSqr(g, pt.Z)))

(* ec_GFp_simple_cmp returns 0 for the same point.                          *)
SamePoint(g, a, b) ==
  IF AtInfinity(a) \/ AtInfinity(b) THEN AtInfinity(a) /\ AtInfinity(b)
  ELSE /\ OverZ2(g, a.X, b) = OverZ2(g, b.X, a)
       /\ OverZ3(g, a.Y, b) = OverZ3(g, b.Y, a)

MakeAffine(g, pt) ==
  IF pt.one \/ AtInfinity(pt) THEN pt
  ELSE SetAffine(g, GetAffine(g, pt)[1], GetAffine(g, pt)[2])

(* ec_GFp_simple_points_make_affine inverts the product of all Z that are   *)
(* not zero once, and takes the inverse of each from it, the last first.    *)
Product(g, zs) == FoldLeft(LAMBDA x, z : IF z = 0 THEN x ELSE FieldMul(g, x, z), FieldOne(g), zs)
\* a mutant: the product is decoded once only
InverseOfEncoded(g, n) == FieldEncode(g, Recip(n, g.p))
InverseOfProduct(g, n) == FieldEncode(g, FieldEncode(g, Recip(n, g.p)))
Inverses(g, zs) ==
  FoldLeft(LAMBDA s, i :
      IF zs[i] = 0 THEN [s EXCEPT !.inv = <<0>> \o @]
      ELSE [inv |-> <<FieldMul(g, Product(g, SubSeq(zs, 1, i - 1)), s.tmp)>> \o s.inv,
            tmp |-> FieldMul(g, s.tmp, zs[i])],
    [inv |-> <<>>, tmp |-> InverseOfProduct(g, Product(g, zs))],
    Reverse([i \in 1 .. Len(zs) |-> i])).inv
ScaledBy(g, pt, inv) ==
  IF inv = 0 THEN pt
  ELSE [X |-> FieldMul(g, pt.X, FieldSqr(g, inv)), Y |-> FieldMul(g, pt.Y, Cube(g, inv)),
        Z |-> FieldOne(g), one |-> TRUE]
PointsMakeAffine(g, pts) ==
  [i \in DOMAIN pts |-> ScaledBy(g, pts[i], Inverses(g, [j \in DOMAIN pts |-> pts[j].Z])[i])]

(* --------------------------- what is computed --------------------------- *)
\* a point as the code may hold it: scaled by Z, with or without the flag
Stored(g, q, z) == SetJprojective(g, q[1] * z * z, q[2] * z * z * z, z)
Forms(g, c, zs) ==
  {Stored(g, q, z) : q \in CurvePoints(c) \ {<<>>}, z \in zs}
  \cup {[Stored(g, q, 1) EXCEPT !.one = FALSE] : q \in CurvePoints(c) \ {<<>>}}
  \cup {[X |-> x, Y |-> 1, Z |-> 0, one |-> FALSE] : x \in {0, 2}}

SetsCurve == \E c \in CurveCases :
  LET g == SetCurve(c) IN
  Calculates("curve", c, IF g = Invalid THEN <<>> ELSE <<GetCurve(g), g.minus3, CheckDiscriminant(g)>>)
AddsPoints == \E c \in PointCurves : LET g == SetCurve(c) IN
  \E a \in Forms(g, c, 1 .. c.p - 1), b \in Forms(g, c, Scales) :
    \E same \in {s \in BOOLEAN : s => a = b} :
      Calculates("add", [c |-> c, g |-> g, a |-> a, b |-> b],
                 [sum |-> Add(g, a, b, same), equal |-> SamePoint(g, a, b)])
ChecksPoint == \E c \in PointCurves : LET g == SetCurve(c) IN
  \E x, y, z \in 0 .. c.p - 1, one \in BOOLEAN :
    /\ one => z = 1
    /\ LET pt == [SetJprojective(g, x, y, z) EXCEPT !.one = one] IN
       Calculates("on curve", [c |-> c, g |-> g, pt |-> pt],
                  [on |-> IsOnCurve(g, pt), at |-> GetJprojective(g, pt)])
ChangesPoint == \E c \in PointCurves : LET g == SetCurve(c) IN
  \E pt \in Forms(g, c, 1 .. c.p - 1) :
    Calculates("change", [c |-> c, g |-> g, pt |-> pt],
               [inverse |-> Invert(g, pt), affine |-> MakeAffine(g, pt)])
ListForms(g, c) == {f \in Forms(g, c, Scales) : f.X % 2 = 0}
MakesAffine == \E c \in PointCurves : LET g == SetCurve(c) IN
  \E n \in ListSizes : \E pts \in [1 .. n -> ListForms(g, c)] :
    Calculates("affine", [c |-> c, g |-> g, pts |-> pts], PointsMakeAffine(g, pts))

EcPointsNext == SetsCurve \/ AddsPoints \/ ChecksPoint \/ ChangesPoint \/ MakesAffine

(* ------------------------------ properties ------------------------------ *)
WellStored(g, pt) == pt.one => pt.Z = FieldOne(g)

(* A sum, however its terms are scaled, flagged or represented, is the sum   *)
(* the rule of chord and tangent defines; two points compare equal exactly   *)
(* if they are the same; a triple of coordinates is on the curve exactly if  *)
(* it satisfies the equation; and making points affine changes none of them  *)
(* (ec_GFp_simple_add, dbl, cmp, is_on_curve, points_make_affine).           *)
PointsAreRight ==
  /\ Calculated("curve") =>
       LET c == calc.in IN
       IF c.p <= 3 \/ c.p % 2 = 0 THEN calc.out = <<>>
       ELSE calc.out = <<[p |-> c.p, a |-> c.a % c.p, b |-> c.b % c.p], (c.a + 3) % c.p = 0,
                         ~\E x, y \in 0 .. c.p - 1 :
                            /\ (y * y - (x * x * x + c.a * x + c.b)) % c.p = 0
                            /\ (2 * y) % c.p = 0 /\ (3 * x * x + c.a) % c.p = 0>>
  /\ Calculated("add") =>
       LET c == calc.in.c g == calc.in.g
           q == GetAffine(g, calc.in.a) r == GetAffine(g, calc.in.b)
       IN /\ GetAffine(g, calc.out.sum) = GroupSum(c, q, r)
          /\ calc.out.equal = (q = r)
          /\ WellStored(g, calc.out.sum)
  /\ Calculated("on curve") =>
       LET c == calc.in.c at == calc.out.at IN
       calc.out.on =
         (at[3] = 0 \/ (at[2] * at[2] - at[1] * at[1] * at[1]
             - at[3] * at[3] * at[3] * at[3] * (c.a * at[1] + c.b * at[3] * at[3])) % c.p = 0)
  /\ Calculated("change") =>
       LET g == calc.in.g pt == calc.in.pt IN
       /\ GroupSum(calc.in.c, GetAffine(g, pt), GetAffine(g, calc.out.inverse)) = <<>>
       /\ GetAffine(g, calc.out.affine) = GetAffine(g, pt)
       /\ AtInfinity(pt) \/ calc.out.affine.one
  /\ Calculated("affine") =>
       \A i \in DOMAIN calc.out :
         LET g == calc.in.g pt == calc.out[i] IN
         /\ GetAffine(g, pt) = GetAffine(g, calc.in.pts[i])
         /\ WellStored(g, pt)
         /\ AtInfinity(pt) \/ pt.one

Magnitude(x) == IF x < 0 THEN -x ELSE x
NumBits(x) == CHOOSE n \in 0 .. Magnitude(x) : 2 ^ n > Magnitude(x) /\ (n > 0 => 2 ^ (n - 1) <= Magnitude(x))
BitAt(x, i) == (Magnitude(x) \div 2 ^ i) % 2

(* --------------------------- compute_wNAF ------------------------------- *)
\* the digit for the window v at bit j, of a scalar len bits long
\* a mutant: all digits are positive
DigitPositive(v, w, j, len) == IF v % 2 = 0 THEN 0 ELSE v % 2 ^ w
Digit(v, w, j, len) ==
  IF v % 2 = 0 THEN 0
  ELSE IF (v \div 2 ^ w) % 2 = 0 THEN v
  ELSE IF j + w + 1 >= len THEN v % 2 ^ w
  ELSE v - 2 ^ (w + 1)
RECURSIVE WnafFrom(_, _, _, _, _)
WnafFrom(x, w, len, v, r) ==
  IF v = 0 /\ Len(r) + w + 1 >= len THEN r
  ELSE LET d == Digit(v, w, Len(r), len) IN
       WnafFrom(x, w, len, (v - d) \div 2 + 2 ^ w * BitAt(x, Len(r) + 1 + w),
                Append(r, IF x < 0 THEN -d ELSE d))
Wnaf(x, w) ==
  IF x = 0 THEN <<0>> ELSE WnafFrom(x, w, NumBits(x), Magnitude(x) % 2 ^ (w + 1), <<>>)

(* ------------------------ multiples of a point -------------------------- *)
WindowBits(bits) == 1 + Cardinality({i \in DOMAIN WindowSteps : bits >= WindowSteps[i]})
AddLogs(a, b) == (a + b) % Order
DoubleLog(a) == AddLogs(a, a)
InvertLog(a) == (-a) % Order
\* pt, 3 pt, 5 pt, ... up to n of them
OddMultiples(pt, n) ==
  FoldLeft(LAMBDA s, i : Append(s, AddLogs(s[Len(s)], DoubleLog(pt))), <<pt>>, [i \in 1 .. n - 1 |-> i])

\* EC_PRE_COMP; no precomputation has no blocks
NoPreComp == [w |-> 0, numblocks |-> 0, points |-> <<>>]
NextBase(base) ==
  FoldLeft(LAMBDA b, i : DoubleLog(b), DoubleLog(DoubleLog(base)), [i \in 1 .. BlockSize - 2 |-> i])
Blocks(w, n) ==
  FoldLeft(LAMBDA s, i : [base |-> NextBase(s.base),
                          points |-> s.points \o OddMultiples(s.base, 2 ^ (w - 1))],
           [base |-> 1, points |-> <<>>], [i \in 1 .. n |-> i]).points
Widest(w, bits) == IF WindowBits(bits) > w THEN WindowBits(bits) ELSE w
PreComp(w, n) == [w |-> w, numblocks |-> n, points |-> Blocks(w, n)]
PrecomputeMult ==
  PreComp(Widest(LeastWindow, NumBits(Order)), (NumBits(Order) + BlockSize - 1) \div BlockSize)

(* ------------------------------ ec_wNAF_mul ----------------------------- *)
\* one form and the odd multiples its digits select
Row(naf, val) == [naf |-> naf, val |-> val]
OwnRow(x, pt) ==
  Row(Wnaf(x, WindowBits(NumBits(x))), OddMultiples(pt, 2 ^ (WindowBits(NumBits(x)) - 1)))
Longest(rows) == Max({Len(rows[i].naf) : i \in DOMAIN rows} \cup {0})

BlocksFor(x, naf, pre) ==
  LET most == Min({NumBits(x) \div BlockSize + 1, pre.numblocks}) IN
  IF Len(naf) < most * BlockSize THEN (Len(naf) + BlockSize - 1) \div BlockSize ELSE most
Split(naf, n, pre) ==
  [i \in 1 .. n |->
     Row(SubSeq(naf, (i - 1) * BlockSize + 1, IF i = n THEN Len(naf) ELSE i * BlockSize),
         SubSeq(pre.points, (i - 1) * 2 ^ (pre.w - 1) + 1, i * 2 ^ (pre.w - 1)))]
GeneratorRows(x, naf, pre, longest) ==
  IF Len(naf) <= longest THEN <<Row(naf, pre.points)>> ELSE Split(naf, BlocksFor(x, naf, pre), pre)
\* scalar is a sequence of at most one element, the multiple of the generator
Rows(scalar, terms, pre) ==
  LET own == [i \in DOMAIN terms |-> OwnRow(terms[i][1], terms[i][2])] IN
  IF scalar = <<>> THEN own
  ELSE IF pre.numblocks # 0 /\ pre.points[1] = 1
  THEN own \o GeneratorRows(scalar[1], Wnaf(scalar[1], pre.w), pre, Longest(own))
  ELSE Append(own, OwnRow(scalar[1], 1))

\* r, while it is not at infinity, and whether it stands for its inverse
\* a mutant: the point is not inverted with the flag
TurnedByFlag(s, neg) == [s EXCEPT !.inverted = neg]
Turned(s, neg) ==
  IF neg = s.inverted THEN s
  ELSE [s EXCEPT !.inverted = neg, !.r = IF s.none THEN s.r ELSE InvertLog(s.r)]
Added(s, pt) == IF s.none THEN [s EXCEPT !.r = pt, !.none = FALSE] ELSE [s EXCEPT !.r = AddLogs(s.r, pt)]
DigitAdded(s, row, k) ==
  IF k > Len(row.naf) \/ row.naf[k] = 0 THEN s
  ELSE Added(Turned(s, row.naf[k] < 0), row.val[Magnitude(row.naf[k]) \div 2 + 1])
Interleaved(rows, n) ==
  FoldLeft(LAMBDA s, k :
      FoldLeft(LAMBDA t, row : DigitAdded(t, row, k),
               IF s.none THEN s ELSE [s EXCEPT !.r = DoubleLog(s.r)], rows),
    [r |-> 0, none |-> TRUE, inverted |-> FALSE], [i \in 1 .. n |-> n + 1 - i])
Ended(s) == IF s.none THEN 0 ELSE IF s.inverted THEN InvertLog(s.r) ELSE s.r
MulRows(rows) == Ended(Interleaved(rows, Longest(rows)))
WnafMul(scalar, terms, pre) ==
  IF scalar = <<>> /\ terms = <<>> THEN 0 ELSE MulRows(Rows(scalar, terms, pre))

(* --------------------------- what is computed --------------------------- *)
ComputesNaf == \E x \in NafScalars, w \in NafWindows :
  Calculates("naf", [x |-> x, w |-> w], Wnaf(x, w))
Multiplies == \E scalar \in {<<>>} \cup {<<x>> : x \in GeneratorScalars} :
  \E terms \in TermLists :
    \E pre \in IF scalar = <<>> THEN {FALSE} ELSE BOOLEAN :
      Calculates("mul", [scalar |-> scalar, terms |-> terms, pre |-> pre],
                 WnafMul(scalar, terms, IF pre THEN PrecomputeMult ELSE NoPreComp))

EcMultiplesNext == ComputesNaf \/ Multiplies

(* ------------------------------ properties ------------------------------ *)
\* where the digits of a form are not zero, but for those next to the last
NonZero(r) == {i \in DOMAIN r : r[i] # 0}
Value(r) == FoldLeft(LAMBDA s, i : s + r[i] * 2 ^ (i - 1), 0, [i \in DOMAIN r |-> i])

(* The digits of a form are zero or odd and below 2^w, they sum up to the    *)
(* scalar, any two that are not zero are more than w apart but for the last  *)
(* two, which may be w apart, and there is at most one more of them than     *)
(* bits; and whatever the signs, sizes and number of the scalars, whether    *)
(* the generator's multiples are kept or not, and however its form is split  *)
(* into blocks, the product is the sum of all multiples (wnaf.c).            *)
MultiplesAreSums ==
  /\ Calculated("naf") =>
       LET r == calc.out x == calc.in.x w == calc.in.w IN
       /\ Value(r) = x
       /\ Len(r) <= NumBits(x) + 1
       /\ \A i \in NonZero(r) : r[i] % 2 = 1 /\ Magnitude(r[i]) < 2 ^ w
       /\ \A i, j \in NonZero(r) : i < j => j - i >= IF j = Len(r) THEN w ELSE w + 1
  /\ Calculated("mul") =>
       calc.out = (FoldLeft(LAMBDA s, t : s + t[1] * t[2], 0, calc.in.terms)
                   + IF calc.in.scalar = <<>> THEN 0 ELSE calc.in.scalar[1]) % Order
=============================================================================
