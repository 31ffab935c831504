------------------------------ MODULE EcPoints -------------------------------
(***************************************************************************)
(* Points of elliptic curves (ecpoint.c, ec_short_weierstrass.c,           *)
(* ec_twisted_edwards.c, ec_montgomery.c) and their multiples (ec_mul.c,   *)
(* recoding.c).  A point object goes through a sequence of operations in   *)
(* the coordinates of its curve: <<X, Y, Z>> with (X/Z^2, Y/Z^3), <<X, Y,  *)
(* Z, T>> with (X/Z, Y/Z) and T = XY/Z, or <<X, Z, normalized>> with X/Z.  *)
(* Beside it goes the point of the curve that it should be.                *)
(***************************************************************************)
EXTENDS ModArith, Sequences, FiniteSets

CONSTANTS
  EcCurves,    \* [type, p, a, b, g, gOrd, coFactorPower, ...]; g is <<x, y>>
  EcWindow     \* SYMCRYPT_ECURVE_SW_DEF_WINDOW

ASSUME EcAssumption == EcWindow \in Nat /\ EcWindow >= 3

VARIABLES
  ecCurve,   \* the curve
  ecPoint,   \* the coordinates in the point object
  ecRef      \* the affine point that they should be, Zero for the identity

ecVars == <<ecCurve, ecPoint, ecRef>>

Zero == <<>>
Fld(c, x) == x % c.p
Inv(c, x) == InvMod(x % c.p, c.p)
-----------------------------------------------------------------------------
(* Short Weierstrass curves y^2 = x^3 + ax + b, Jacobian coordinates.      *)
SwSetZero == <<1, 1, 0>>

SwIsZero(P) == P[3] = 0

(* Equality of X and of Y over the common denominator; sign is 1, or -1    *)
(* for the negative of the second point.                                   *)
SwIsEqual(c, P, Q, sign) ==
  LET zz1 == Fld(c, P[3] * P[3])  zz2 == Fld(c, Q[3] * Q[3])
  IN /\ Fld(c, P[1] * zz2) = Fld(c, Q[1] * zz1)
     /\ Fld(c, P[2] * Fld(c, Q[3] * zz2)) = Fld(c, sign * Q[2] * Fld(c, P[3] * zz1))

SwOnCurve(c, P) ==
  LET zz == Fld(c, P[3] * P[3])
      zzzz == Fld(c, zz * zz)
      rhs == Fld(c, P[1] * P[1] * P[1]) + Fld(c, c.a * P[1] * zzzz) + Fld(c, c.b * zzzz * zz)
  IN Fld(c, P[2] * P[2]) = Fld(c, rhs)

SwDouble(c, P) ==
  LET double(yy, yyyy, zz) ==
        LET from(S, M) ==
              LET X3 == Fld(c, M * M - 2 * S)
              IN <<X3, Fld(c, M * (S - X3) - 8 * yyyy), Fld(c, (P[2] + P[3]) * (P[2] + P[3]) - yy - zz)>>
        IN from(Fld(c, 2 * ((P[1] + yy) * (P[1] + yy) - P[1] * P[1] - yyyy)),
                Fld(c, 3 * P[1] * P[1] + c.a * zz * zz))
  IN double(Fld(c, P[2] * P[2]), Fld(c, Fld(c, P[2] * P[2]) * P[2] * P[2]), Fld(c, P[3] * P[3]))

(* The differences of the x and of the y coordinates, over the common      *)
(* denominators.                                                           *)
SwH(c, P, Q) == Fld(c, Q[1] * P[3] * P[3] - P[1] * Q[3] * Q[3])
SwR(c, P, Q) == Fld(c, Q[2] * Fld(c, P[3] * P[3] * P[3]) - P[2] * Fld(c, Q[3] * Q[3] * Q[3]))

(* For points that differ and are not zero.                                *)
SwAddDiffNonZero(c, P, Q) ==
  LET U1 == Fld(c, P[1] * Q[3] * Q[3])
      S1 == Fld(c, P[2] * Fld(c, Q[3] * Q[3] * Q[3]))
      sum(H, r, J, V) ==
        LET X3 == Fld(c, r * r - J - 2 * V)
        IN <<X3, Fld(c, r * (V - X3) - 2 * S1 * J), Fld(c, 2 * P[3] * Q[3] * H)>>
      with(H, I) == sum(H, Fld(c, 2 * SwR(c, P, Q)), Fld(c, H * I), Fld(c, U1 * I))
      from(H) == with(H, Fld(c, 4 * H * H))
  IN from(SwH(c, P, Q))

(* Mutant: a point is never added to itself.                               *)
SwAddUnsafeNoDouble(c, P, Q) ==
  IF SwIsZero(P) THEN Q ELSE IF SwIsZero(Q) THEN P ELSE SwAddDiffNonZero(c, P, Q)

(* SymCryptShortWeierstrassAddSideChannelUnsafe                            *)
SwAddUnsafe(c, P, Q) ==
  IF SwIsZero(P) THEN Q
  ELSE IF SwIsZero(Q) THEN P
  ELSE IF SwH(c, P, Q) = 0 /\ SwR(c, P, Q) = 0 THEN SwDouble(c, P)
  ELSE SwAddDiffNonZero(c, P, Q)

(* The addition without branches: each special case is copied over the     *)
(* result of the one before.                                               *)
SwAdd(c, P, Q, public) ==
  IF public THEN SwAddUnsafe(c, P, Q)
  ELSE LET q0 == SwAddDiffNonZero(c, P, Q)
           q1 == IF SwIsEqual(c, P, Q, 1) THEN SwDouble(c, P) ELSE q0
           q2 == IF SwIsZero(Q) THEN P ELSE q1
       IN IF SwIsZero(P) THEN Q ELSE q2

SwNegate(c, P) == <<P[1], Fld(c, -P[2]), P[3]>>
-----------------------------------------------------------------------------
(* Twisted Edwards curves ax^2 + y^2 = 1 + bx^2y^2, extended coordinates.  *)
TeSetZero == <<0, 1, 1, 0>>

TeIsZero(P) == P[1] = 0 /\ P[2] = P[3]

TeIsEqual(c, P, Q, sign) ==
  /\ Fld(c, P[1] * Q[3]) = Fld(c, sign * Q[1] * P[3])
  /\ Fld(c, P[2] * Q[3]) = Fld(c, Q[2] * P[3])

TeOnCurve(c, P) ==
  LET xx == Fld(c, P[1] * P[1])  yy == Fld(c, P[2] * P[2])  zz == Fld(c, P[3] * P[3])
  IN Fld(c, Fld(c, c.a * xx + yy) * zz) = Fld(c, zz * zz + Fld(c, c.b * xx) * yy)

(* The coordinates from the four factors of the formulas.                  *)
TeProduct(c, E, F, G, H) == <<Fld(c, E * F), Fld(c, G * H), Fld(c, F * G), Fld(c, E * H)>>

TeDouble(c, P) ==
  LET double(A, B, D) ==
        TeProduct(c, Fld(c, (P[1] + P[2]) * (P[1] + P[2]) - A - B),
                  Fld(c, D + B - 2 * P[3] * P[3]), Fld(c, D + B), Fld(c, D - B))
  IN double(Fld(c, P[1] * P[1]), Fld(c, P[2] * P[2]), Fld(c, c.a * Fld(c, P[1] * P[1])))

(* The same formulas for every pair of points.                             *)
TeAdd(c, P, Q) ==
  LET A == Fld(c, P[1] * Q[1])
      B == Fld(c, P[2] * Q[2])
      C == Fld(c, c.b * Fld(c, P[4] * Q[4]))
      D == Fld(c, P[3] * Q[3])
  IN TeProduct(c, Fld(c, (P[1] + P[2]) * (Q[1] + Q[2]) - A - B),
               Fld(c, D - C), Fld(c, D + C), Fld(c, B - c.a * A))

TeNegate(c, P) == <<Fld(c, -P[1]), P[2], P[3], Fld(c, -P[4])>>
-----------------------------------------------------------------------------
(* The operations by the type of the curve, "sw" or "te" (ec_dispatch.c).  *)
EcpointSetZero(c) == IF c.type = "sw" THEN SwSetZero ELSE TeSetZero
EcpointIsZero(c, P) ==
  CASE c.type = "sw" -> SwIsZero(P) [] c.type = "te" -> TeIsZero(P) [] OTHER -> P[2] = 0
EcpointOnCurve(c, P) == IF c.type = "sw" THEN SwOnCurve(c, P) ELSE TeOnCurve(c, P)
EcpointDouble(c, P) == IF c.type = "sw" THEN SwDouble(c, P) ELSE TeDouble(c, P)
EcpointAdd(c, P, Q, public) == IF c.type = "sw" THEN SwAdd(c, P, Q, public) ELSE TeAdd(c, P, Q)
EcpointAddDiffNonZero(c, P, Q) == IF c.type = "sw" THEN SwAddDiffNonZero(c, P, Q) ELSE TeAdd(c, P, Q)
EcpointNegate(c, P) == IF c.type = "sw" THEN SwNegate(c, P) ELSE TeNegate(c, P)

(* Of Montgomery points, the x coordinates.                                *)
EcpointIsEqual(c, P, Q, sign) ==
  CASE c.type = "sw" -> SwIsEqual(c, P, Q, sign)
    [] c.type = "te" -> TeIsEqual(c, P, Q, sign)
    [] OTHER -> Fld(c, P[1] * Q[2]) = Fld(c, Q[1] * P[2])

(* SymCryptEcpointTransform into the coordinates of the curve.             *)
EcpointSetValue(c, A) ==
  CASE c.type = "sw" -> <<A[1], A[2], 1>>
    [] c.type = "te" -> <<A[1], A[2], 1, Fld(c, A[1] * A[2])>>
    [] OTHER -> <<A[1], 1, TRUE>>

(* And out of them, which a point with a zero in place of Z is not; only   *)
(* the identity of a twisted Edwards curve has coordinates.  A Montgomery  *)
(* point has 0 for a y coordinate.                                         *)
EcpointGetValue(c, P) ==
  LET z == IF c.type = "mont" THEN P[2] ELSE P[3]
      i == Inv(c, z)
  IN IF z = 0 THEN Zero
     ELSE CASE c.type = "sw" -> <<Fld(c, P[1] * i * i), Fld(c, Fld(c, P[2] * i) * i * i)>>
            [] c.type = "te" -> <<Fld(c, P[1] * i), Fld(c, P[2] * i)>>
            [] OTHER -> <<Fld(c, P[1] * i), 0>>
-----------------------------------------------------------------------------
(* SymCryptFixedWindowRecoding: the odd digit, between -2^(w-1) and        *)
(* 2^(w-1), that the low w bits of an odd number stand for.                *)
FixedWindowDigit(w, k) == (k % 2 ^ w) - 2 ^ (w - 1)

(* The digits of an odd number, the least significant one first; the last  *)
(* is what remains.                                                        *)
FixedWindowRecoding(w, k, n) ==
  LET rem[i \in 0 .. n - 1] ==
        IF i = 0 THEN k
        ELSE (rem[i - 1] - FixedWindowDigit(w, rem[i - 1])) \div 2 ^ (w - 1)
  IN [i \in 0 .. n - 1 |->
        IF i = n - 1 THEN rem[i] % 2 ^ (w - 1) ELSE FixedWindowDigit(w, rem[i])]

(* SymCryptWidthNafRecoding: a digit is odd, or it is 0.                   *)
WidthNafDigit(w, k) ==
  IF k % 2 = 0 THEN 0
  ELSE IF k % 2 ^ w > 2 ^ (w - 1) THEN (k % 2 ^ w) - 2 ^ w
  ELSE k % 2 ^ w

WidthNafRecoding(w, k, n) ==
  LET rem[i \in 0 .. n - 1] ==
        IF i = 0 THEN k ELSE (rem[i - 1] - WidthNafDigit(w, rem[i - 1])) \div 2
  IN [i \in 0 .. n - 1 |-> WidthNafDigit(w, rem[i])]

(* SymCryptPrecomputation: the odd multiples.                              *)
Precomputation(c, P) ==
  LET twice == EcpointDouble(c, P)
      f[i \in 0 .. 2 ^ (EcWindow - 2) - 1] ==
        IF i = 0 THEN P ELSE EcpointAddDiffNonZero(c, twice, f[i - 1])
  IN f

(* The entry of the table for an odd digit.                                *)
Entry(c, table, digit) ==
  IF digit < 0 THEN EcpointNegate(c, table[(-digit) \div 2]) ELSE table[digit \div 2]

DoubleTimes(c, P, n) ==
  LET f[i \in 0 .. n] == IF i = 0 THEN P ELSE EcpointDouble(c, f[i - 1])
  IN f[n]

(* The multiplication by the cofactor at the end of every multiple.        *)
CofactorMul(c, P, cofactor) == IF cofactor THEN DoubleTimes(c, P, c.coFactorPower) ELSE P

(* The last step of both multiplications: every zero becomes the same one. *)
ZeroNormalized(c, q) == IF EcpointIsZero(c, q) THEN EcpointSetZero(c) ELSE q

(* SymCryptEcpointScalarMulFixedWindow: an even scalar is replaced by its  *)
(* negative; only the last addition may meet equal points.                 *)
FixedWindowSum(c, digits, table, n) ==
  LET add(i, q, t) == IF i > 0 THEN EcpointAddDiffNonZero(c, q, t) ELSE EcpointAdd(c, q, t, FALSE)
      acc[i \in 0 .. n - 1] ==
        IF i = n - 1 THEN table[digits[i] \div 2]
        ELSE add(i, DoubleTimes(c, acc[i + 1], EcWindow - 1), Entry(c, table, digits[i]))
  IN acc[0]

ScalarMulFixedWindow(c, k, P, cofactor) ==
  LET w == EcWindow
      n == ((NumberBits(c.gOrd) + w - 2) \div (w - 1)) + 1
      digits == FixedWindowRecoding(w, IF k % 2 = 0 THEN c.gOrd - k ELSE k, n)
      signed(q) == IF k % 2 = 0 THEN EcpointNegate(c, q) ELSE q
  IN IF k = 0 \/ EcpointIsZero(c, P) THEN EcpointSetZero(c)
     ELSE ZeroNormalized(c, CofactorMul(c, signed(FixedWindowSum(c, digits, Precomputation(c, P), n)), cofactor))

(* SymCryptEcpointMultiScalarMulWnafWithInterleaving for two points.       *)
MultiScalarMul(c, ks, Ps, cofactor) ==
  LET n == NumberBits(c.gOrd) + 1
      isZero(j) == ks[j] = 0 \/ EcpointIsZero(c, Ps[j])
      naf(j) == WidthNafRecoding(EcWindow, ks[j], n)
      tables == [j \in 1 .. 2 |-> IF isZero(j) THEN <<>> ELSE Precomputation(c, Ps[j])]
      digit == [j \in 1 .. 2 |-> naf(j)]
      add(q, j, i) == IF isZero(j) \/ digit[j][i] = 0 THEN q
                      ELSE EcpointAdd(c, q, Entry(c, tables[j], digit[j][i]), TRUE)
      acc[i \in 0 .. n] ==
        IF i = n THEN EcpointSetZero(c)
        ELSE add(add(EcpointDouble(c, acc[i + 1]), 1, i), 2, i)
      sum == IF isZero(1) /\ isZero(2) THEN EcpointSetZero(c) ELSE acc[0]
  IN ZeroNormalized(c, CofactorMul(c, sum, cofactor))
-----------------------------------------------------------------------------
(* Montgomery curves y^2 = x^3 + ax^2 + x, x coordinates only.  a24 is     *)
(* (a + 2) / 4, as SymCryptEcurveAllocate keeps it.                        *)
A24(c) == Fld(c, (c.a + 2) * Inv(c, 4))

(* <<2A, A + B>> for points whose difference is D.                         *)
MontgomeryDoubleAndAdd(c, D, A, B) ==
  LET aa == Fld(c, (A[1] + A[2]) * (A[1] + A[2]))
      bb == Fld(c, (A[1] - A[2]) * (A[1] - A[2]))
      E == Fld(c, aa - bb)
      DA == Fld(c, (B[1] - B[2]) * (A[1] + A[2]))
      CB == Fld(c, (B[1] + B[2]) * (A[1] - A[2]))
  IN << <<Fld(c, aa * bb), Fld(c, E * Fld(c, bb + A24(c) * E))>>,
        <<Fld(c, D[2] * Fld(c, (DA + CB) * (DA + CB))), Fld(c, D[1] * Fld(c, (DA - CB) * (DA - CB)))>> >>

(* SymCryptMontgomeryPointScalarMul: the ladder over every bit that a      *)
(* scalar times the cofactor can have.  The Z of a normalized point is not *)
(* looked at.                                                              *)
MontgomeryPointScalarMul(c, k, P, cofactor) ==
  LET n == NumberBits(c.gOrd) + c.coFactorPower
      D == <<P[1], IF P[3] THEN 1 ELSE P[2]>>
      swapIf(i, s) == IF (k \div 2 ^ i) % 2 = 1 THEN <<s[2], s[1]>> ELSE s
      step(i, s) == swapIf(i, MontgomeryDoubleAndAdd(c, D, s[1], s[2]))
      acc[i \in 0 .. n] ==
        IF i = n THEN << <<1, 0>>, <<P[1], P[2]>> >> ELSE step(i, swapIf(i, acc[i + 1]))
      double[j \in 0 .. c.coFactorPower] ==
        IF j = 0 THEN acc[0][1]
        ELSE MontgomeryDoubleAndAdd(c, <<P[1], 1>>, double[j - 1], P)[1]
      unnormalized(q) == <<q[1], q[2], FALSE>>
  IN unnormalized(double[IF cofactor THEN c.coFactorPower ELSE 0])

EcpointScalarMul(c, k, P, cofactor) ==
  IF c.type = "mont" THEN MontgomeryPointScalarMul(c, k, P, cofactor)
  ELSE ScalarMulFixedWindow(c, k, P, cofactor)
-----------------------------------------------------------------------------
(* The group of the curve, from its equation.  Montgomery points have both *)
(* coordinates here; the curve and its twist share the x coordinates.      *)
RefZero(c) == IF c.type = "te" THEN <<0, 1>> ELSE Zero

RefNeg(c, P) ==
  IF P = Zero THEN Zero
  ELSE IF c.type = "te" THEN <<Fld(c, -P[1]), P[2]>> ELSE <<P[1], Fld(c, -P[2])>>

RefAddTe(c, P, Q) ==
  LET t == Fld(c, Fld(c, c.b * P[1] * Q[1]) * P[2] * Q[2])
  IN <<Fld(c, Fld(c, P[1] * Q[2] + P[2] * Q[1]) * Inv(c, 1 + t)),
       Fld(c, Fld(c, P[2] * Q[2] - c.a * P[1] * Q[1]) * Inv(c, 1 - t))>>

RefAddChord(c, P, Q, twist) ==
  LET a2 == IF c.type = "mont" THEN c.a ELSE 0
      a4 == IF c.type = "mont" THEN 1 ELSE c.a
      slope == IF P # Q THEN Fld(c, (Q[2] - P[2]) * Inv(c, Q[1] - P[1]))
               ELSE Fld(c, (3 * P[1] * P[1] + 2 * a2 * P[1] + a4) * Inv(c, 2 * twist * P[2]))
      third(m, x) == <<x, Fld(c, m * (P[1] - x) - P[2])>>
      along(m) == third(m, Fld(c, twist * m * m - a2 - P[1] - Q[1]))
  IN along(slope)

RefAdd(c, P, Q, twist) ==
  IF c.type = "te" THEN RefAddTe(c, P, Q)
  ELSE IF P = Zero THEN Q
  ELSE IF Q = Zero THEN P
  ELSE IF Q = RefNeg(c, P) THEN Zero
  ELSE RefAddChord(c, P, Q, twist)

RefMul(c, k, P, twist) ==
  LET f[i \in 0 .. k] == IF i = 0 THEN RefZero(c) ELSE RefAdd(c, f[i - 1], P, twist)
  IN f[k]

EcPointsOf(c) ==
  {A \in (0 .. c.p - 1) \X (0 .. c.p - 1) : EcpointOnCurve(c, EcpointSetValue(c, A))}

(* A point with the x coordinate x, on the curve or on its twist.          *)
MontLift(c, x) ==
  CHOOSE t \in (1 .. c.p - 1) \X (0 .. c.p - 1) :
    Fld(c, t[1] * t[2] * t[2]) = Fld(c, Fld(c, x * x * x) + Fld(c, c.a * x * x) + x)

(* The multiple of an affine point (of a Montgomery point, <<x, 0>>).      *)
EcRefMul(c, k, P) ==
  IF c.type # "mont" THEN RefMul(c, k, P, 1)
  ELSE IF P = Zero THEN Zero
  ELSE LET multiple(t) == RefMul(c, k, <<P[1], t[2]>>, t[1])
           x(R) == IF R = Zero THEN Zero ELSE <<R[1], 0>>
       IN x(multiple(MontLift(c, P[1])))

EcFactor(c, cofactor) == IF cofactor THEN 2 ^ c.coFactorPower ELSE 1
-----------------------------------------------------------------------------
(* The points that are imported: every point of the curve, every x         *)
(* coordinate of a Montgomery curve but 0, which the ladder cannot use as  *)
(* a difference.                                                           *)
EcImports(c) ==
  IF c.type = "mont" THEN {<<x, 0>> : x \in 1 .. c.p - 1} ELSE EcPointsOf(c)

EcInit ==
  /\ ecCurve \in EcCurves
  /\ ecRef = ecCurve.g
  /\ ecPoint = EcpointSetValue(ecCurve, ecCurve.g)

EcBecomes(coordinates, ref) == ecPoint' = coordinates /\ ecRef' = ref /\ UNCHANGED ecCurve

EcSetValue == \E A \in EcImports(ecCurve) : EcBecomes(EcpointSetValue(ecCurve, A), A)

EcHasAdd == ecCurve.type # "mont"

EcDouble ==
  EcHasAdd /\ EcBecomes(EcpointDouble(ecCurve, ecPoint), RefAdd(ecCurve, ecRef, ecRef, 1))

EcNegate == EcHasAdd /\ EcBecomes(EcpointNegate(ecCurve, ecPoint), RefNeg(ecCurve, ecRef))

EcAdd ==
  /\ EcHasAdd
  /\ \E A \in EcImports(ecCurve), public \in BOOLEAN :
       EcBecomes(EcpointAdd(ecCurve, ecPoint, EcpointSetValue(ecCurve, A), public),
                 RefAdd(ecCurve, ecRef, A, 1))

(* The point is of the group that the scalars are for, or, with the        *)
(* cofactor, will be, or the scalar is the order, to find out.  Montgomery *)
(* multiples are taken of points that could be imported.                   *)
EcScalarMul ==
  \E k \in 0 .. ecCurve.gOrd, cofactor \in BOOLEAN :
    /\ \/ cofactor /\ k < ecCurve.gOrd
       \/ ~cofactor /\ (k = ecCurve.gOrd \/ EcRefMul(ecCurve, ecCurve.gOrd, ecRef) = RefZero(ecCurve))
    /\ (ecCurve.type = "mont") => ecRef \in EcImports(ecCurve)
    /\ EcBecomes(EcpointScalarMul(ecCurve, k, ecPoint, cofactor),
                 EcRefMul(ecCurve, k * EcFactor(ecCurve, cofactor), ecRef))

EcMultiScalarMul ==
  /\ EcHasAdd
  /\ EcRefMul(ecCurve, ecCurve.gOrd, ecRef) = RefZero(ecCurve)
  /\ \E k1 \in 0 .. ecCurve.gOrd - 1, k2 \in 0 .. ecCurve.gOrd - 1 :
       EcBecomes(MultiScalarMul(ecCurve, <<k1, k2>>, <<EcpointSetValue(ecCurve, ecCurve.g), ecPoint>>, FALSE),
                 RefAdd(ecCurve, EcRefMul(ecCurve, k1, ecCurve.g), EcRefMul(ecCurve, k2, ecRef), 1))

EcNext == EcSetValue \/ EcDouble \/ EcNegate \/ EcAdd \/ EcScalarMul \/ EcMultiScalarMul

EcSpec == EcInit /\ [][EcNext]_ecVars
-----------------------------------------------------------------------------
(* After any sequence of operations the object is the point of the curve   *)
(* that the operations of the group give, zero included, although the      *)
(* formulas fail for equal points and for zero; it is on the curve by the  *)
(* test of the code, and the coordinates that depend on one another still  *)
(* do.                                                                     *)
EcIsReference ==
  /\ EcpointIsZero(ecCurve, ecPoint) <=> ecRef = RefZero(ecCurve)
  /\ (ecRef # Zero) => EcpointGetValue(ecCurve, ecPoint) = ecRef
  /\ EcHasAdd => EcpointOnCurve(ecCurve, ecPoint)
  /\ (ecCurve.type = "te") => Fld(ecCurve, ecPoint[4] * ecPoint[3]) = Fld(ecCurve, ecPoint[1] * ecPoint[2])

(* The test for equality, which compares fractions without dividing, is    *)
(* equality of points in whatever coordinates they have come to, and so    *)
(* for the test for a point or its negative; the zero point equals only    *)
(* itself.                                                                 *)
EcEqualityIsExact ==
  EcHasAdd =>
    \A A \in EcImports(ecCurve) \cup {RefZero(ecCurve)} :
      LET P == IF A = Zero THEN EcpointSetZero(ecCurve) ELSE EcpointSetValue(ecCurve, A)
      IN /\ EcpointIsEqual(ecCurve, ecPoint, P, 1) <=> A = ecRef
         /\ EcpointIsEqual(ecCurve, ecPoint, P, -1) <=> A = RefNeg(ecCurve, ecRef)

(* Points are computed and compared by the group law, whatever projective  *)
(* coordinates the operations before have left them in.                    *)
EcPointIsReference == EcIsReference /\ EcEqualityIsExact
=============================================================================
