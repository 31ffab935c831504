------------------------------- MODULE Modular -------------------------------
(***************************************************************************)
(* Modular arithmetic on the numbers of module Numbers (lib/fdef_mod.c,    *)
(* lib/modexp.c).  An element of a Montgomery modulus is stored multiplied *)
(* by R, the power of the word base of the object's size; a modulus gets   *)
(* its type when it is made and every operation goes through the functions *)
(* of that type.  The model is that of the code in C, without the types    *)
(* that assembly code implements.                                          *)
(***************************************************************************)
EXTENDS Numbers

CONSTANTS
  MmModuli,          \* [v, digits, operations, parityPublic, prime]
  MmOperands,        \* values of the second operand and of imported elements
  MmMinOperations,   \* 10 in the code: fewer do not pay for Montgomery form
  MmExponents,       \* [v, bits]: an exponent of at most the given bits
  MmMinWindow,       \* MIN_WINDOW_SIZE
  MmWindowCutoff,    \* cutoffs[0]
  MmMultiWindow,     \* SYMCRYPT_MODMULTIEXP_WINDOW_SIZE
  MmBlinding         \* random values that blind an inversion

ASSUME ModularAssumption ==
  /\ {MmMinOperations, MmMinWindow, MmMultiWindow} \subseteq Nat \ {0}
  /\ \A m \in MmModuli : m.v \in Nat \ {0} /\ m.v < Base ^ (m.digits * DigitWords)

VARIABLES
  mmMod,     \* the modulus object
  mmX,       \* an element, in the form of the modulus, or empty
  mmY,       \* another element
  mmValue    \* the integers that the elements should stand for

mmVars == <<mmMod, mmX, mmY, mmValue>>

InverseMod2e64(M) ==
  LET word == M % Base
      bit3 == ((((word % 8) - (word % 2)) * 6) \div 8) % 2
      first == (word + (IF bit3 = 1 THEN 8 - 16 * ((word \div 8) % 2) ELSE 0)) % Base
      newton(x, m, range) == (x * ((2 - ((x * m) % range)) % range)) % range
      three == newton(newton(newton(first, word, Base), word, Base), word, Base)
  IN newton(three, M, Wide)

MontgomeryFeature(w, operations, parityPublic) ==
  parityPublic /\ w[1] % 2 = 1 /\ operations >= MmMinOperations

(* SymCryptFdefIntToModulus; rsqr and inv are of Montgomery moduli.        *)
IntToModulus(w, operations, parityPublic, prime) ==
  LET divisor == IntToDivisor(w)
      n == Len(w)
      R2 == Zeroes(2 * n) \o <<1>> \o Zeroes(DigitWords - 1)
  IN [w |-> w, bits |-> divisor.bits, W |-> divisor.W, prime |-> prime,
      type |-> IF MontgomeryFeature(w, operations, parityPublic) THEN "montgomery" ELSE "generic",
      rsqr |-> RawDivMod(R2, divisor).r,
      inv  |-> IF w[1] % 2 = 0 THEN 0 ELSE (0 - InverseMod2e64(w[1] + WordAt(w, 2) * Base)) % Wide]
-----------------------------------------------------------------------------
(* One round of SymCryptFdefMontgomeryReduceC: the lowest word becomes 0   *)
(* and is dropped.                                                         *)
ReduceRound(m, p) ==
  LET n == Len(m.w)
      factor == ((m.inv % Base) * p.src[1]) % Base
      row == Ripple(0, [j \in 1 .. n |-> m.w[j] * factor + p.src[j]])
      top == row.c + p.src[n + 1] + p.hc
  IN [src |-> Tail(row.w) \o <<top % Base>> \o High(p.src, n + 1), hc |-> top \div Base]

(* Mutant: the carry out of the top word is not looked at.                 *)
ReducedNoCarry(m, src, hc) ==
  LET diff == RawSub(src, m.w) IN IF diff.c = 1 THEN src ELSE diff.w

Reduced(m, src, hc) ==
  LET diff == RawSub(src, m.w) IN IF hc = 0 /\ diff.c = 1 THEN src ELSE diff.w

MontgomeryReduce(m, src) ==
  LET n == Len(m.w)
      rounds[i \in 0 .. n] ==
        IF i = 0 THEN [src |-> src, hc |-> 0]
        ELSE LET before == rounds[i - 1] IN ReduceRound(m, before)
      last == rounds[n]
  IN Reduced(m, last.src, last.hc)

ModSetPost(m, w) == IF m.type = "montgomery" THEN MontgomeryReduce(m, RawMul(w, m.rsqr)) ELSE w
ModPreGet(m, x) ==
  IF m.type = "montgomery" THEN MontgomeryReduce(m, x \o Zeroes(Len(x))) ELSE x

TheElement(S) == CHOOSE e \in S : TRUE
ModMulGeneric(m, x, y) == RawDivMod(RawMul(x, y), m).r

(* Both are written with sets of one element so that TLC computes x and y  *)
(* first, and long chains of products do not nest.                         *)
ModMul(m, x, y) ==
  TheElement({IF m.type = "montgomery" THEN MontgomeryReduce(m, RawMul(a, b)) ELSE ModMulGeneric(m, a, b)
                : a \in {x}, b \in {y}})
ModSquare(m, x) ==
  TheElement({IF m.type = "montgomery" THEN MontgomeryReduce(m, RawSquare(a)) ELSE RawDivMod(RawSquare(a), m).r
                : a \in {x}})

ModAdd(m, x, y) ==
  LET sum == RawAdd(x, y)
      diff == RawSub(sum.w, m.w)
  IN IF sum.c = diff.c THEN diff.w ELSE sum.w

ModSub(m, x, y) ==
  LET diff == RawSub(x, y) IN IF diff.c = 1 THEN RawAdd(diff.w, m.w).w ELSE diff.w

ModNeg(m, x) == IF IsZero(x) THEN x ELSE RawSub(m.w, x).w

(* Halves e times: an odd element gets the modulus added, carry included.  *)
ModDivPow2(m, x, e) ==
  LET halved[i \in 0 .. e] ==
        IF i = 0 THEN x
        ELSE LET h == halved[i - 1]
                 sum == RawAdd(h, m.w)
             IN IF h[1] % 2 = 1 THEN IntShr1(sum.c, sum.w) ELSE IntShr1(0, h)
  IN halved[e]

(* A value of one word, reduced when the modulus has one word.             *)
SmallValue(m, u) == IF m.bits <= WordBits /\ u >= m.w[1] THEN u % m.w[1] ELSE u
ModElementSetValueUint32Generic(m, u) == <<SmallValue(m, u)>> \o Zeroes(Len(m.w) - 1)
ModElementSetValueUint32(m, u) == ModSetPost(m, ModElementSetValueUint32Generic(m, u))
ModElementSetValueNegUint32(m, u) ==
  ModSetPost(m, IF SmallValue(m, u) = 0 THEN Zeroes(Len(m.w)) ELSE RawSubUint32(m.w, SmallValue(m, u)).w)

(* Imports reduce the value.                                               *)
ModElementSetValue(m, w) == ModSetPost(m, RawDivMod(w, m).r)
ModElementToInt(m, x) == ModPreGet(m, x)
-----------------------------------------------------------------------------
(* The values that SymCryptFdefModSetRandomGeneric can return: it retries  *)
(* until the random bits are below the limit.  Giving up after 1000 tries, *)
(* which ends the program, is left out.                                    *)
RandomOffset(zero, one) == IF zero THEN 0 ELSE IF one THEN 1 ELSE 2
ModRandomValues(m, zero, one, minusOne) ==
  LET small == m.bits < 3
      offset == IF small THEN Least(RandomOffset(zero, one), m.w[1] - 1) ELSE RandomOffset(zero, one)
      ulimit == IF small \/ minusOne THEN 0 ELSE 1
      limit == RawSubUint32(m.w, offset + ulimit).w
      tries == {WordsOf(v, Len(m.w)) : v \in 0 .. 2 ^ m.bits - 1}
  IN {RawAddUint32(t, offset).w : t \in {t \in tries : RawIsLessThan(t, limit)}}

(* A step of the loop of SymCryptFdefModInvGeneric: A is Va * X and B is   *)
(* Vb * X modulo m.                                                        *)
InverseStep(m, p) ==
  LET diff == RawSub(p.B, p.A)
  IN IF p.done THEN p
     ELSE IF p.A[1] % 2 = 0 THEN [p EXCEPT !.A = IntShr1(0, p.A), !.Va = ModDivPow2(m, p.Va, 1)]
     ELSE IF p.A = <<1>> \o Zeroes(Len(m.w) - 1) THEN [p EXCEPT !.done = TRUE]
     ELSE IF IsZero(diff.w) THEN [p EXCEPT !.done = TRUE, !.status = "INVALID_ARGUMENT"]
     ELSE IF diff.c = 0 THEN [p EXCEPT !.A = diff.w, !.B = p.A, !.Va = ModSub(m, p.Vb, p.Va), !.Vb = p.Va]
     ELSE [p EXCEPT !.A = RawNeg(diff.w, 0).w, !.Va = ModSub(m, p.Va, p.Vb)]

(* The loop ends within two steps for every bit of both numbers.           *)
ModInvGeneric(m, x, R) ==
  LET X == ModMulGeneric(m, R, x)
      start == [A |-> X, B |-> m.w, Va |-> ModElementSetValueUint32Generic(m, 1),
                Vb |-> ModElementSetValueUint32Generic(m, 0), done |-> FALSE, status |-> "NO_ERROR"]
      steps == 4 * m.bits + 2
      loop[i \in 0 .. steps] ==
        IF i = 0 THEN start ELSE LET before == loop[i - 1] IN InverseStep(m, before)
      last == loop[steps]
      two == <<2 % Base>> \o Zeroes(Len(m.w) - 1)
  IN IF ~m.prime \/ IsZero(X) \/ (X[1] % 2 = 0 /\ m.w[1] % 2 = 0)
     THEN [w |-> x, status |-> "INVALID_ARGUMENT"]
     ELSE IF m.w = two THEN [w |-> x, status |-> "NO_ERROR"]
     ELSE [w |-> IF last.status = "NO_ERROR" THEN ModMulGeneric(m, last.Va, R) ELSE x,
           status |-> IF last.done THEN last.status ELSE "NO_END"]

(* A Montgomery element is reduced twice first, so that it stands for 1/R  *)
(* of what it did; the destination is written even if there is no inverse. *)
ModInv(m, x, R) ==
  IF m.type = "montgomery" THEN ModInvGeneric(m, ModPreGet(m, ModPreGet(m, x)), R)
  ELSE ModInvGeneric(m, x, R)
-----------------------------------------------------------------------------
(* Powers.  SymCryptModExpWindowed: a table of the powers below 2^W.       *)
ModExpWindowed(m, x, e, nBitsExp) ==
  LET nBits == Least(nBitsExp, Len(e) * WordBits)
      W == IF MmWindowCutoff < nBits THEN MmMinWindow + 1 ELSE MmMinWindow
      powers[i \in 0 .. 2 ^ W - 1] ==
        IF i = 0 THEN ModElementSetValueUint32(m, 1)
        ELSE IF i = 1 THEN x ELSE LET before == powers[i - 1] IN ModMul(m, before, x)
      iterations == (nBits - 1) \div W
      squared(t) == LET s[j \in 0 .. W] == IF j = 0 THEN t ELSE LET before == s[j - 1] IN ModSquare(m, before)
                    IN s[W]
      result[i \in 0 .. iterations] ==
        IF i = 0 THEN powers[IntGetBits(e, iterations * W, nBits - iterations * W)]
        ELSE LET before == result[i - 1]
             IN ModMul(m, squared(before), powers[IntGetBits(e, (iterations - i) * W, W)])
  IN result[iterations]

(* Reads the whole low word of the exponent.                               *)
ModExpSquareAndMultiply32(m, x, e) ==
  LET exp == e[1]
      bits == IntBitsizeOfValue(<<exp>>)
      loop[i \in 0 .. Most(bits - 1, 0)] ==
        IF i = 0 THEN [T1 |-> ModElementSetValueUint32(m, 1), T2 |-> x]
        ELSE LET before == loop[i - 1]
             IN [T1 |-> IF (exp \div 2 ^ (i - 1)) % 2 = 1 THEN ModMul(m, before.T1, before.T2) ELSE before.T1,
                 T2 |-> ModSquare(m, before.T2)]
      last == loop[bits - 1]
  IN IF exp = 0 THEN ModElementSetValueUint32(m, 1) ELSE ModMul(m, last.T1, last.T2)

ModExpGeneric(m, x, e, nBitsExp, public) ==
  IF public /\ nBitsExp <= WordBits THEN ModExpSquareAndMultiply32(m, x, e)
  ELSE ModExpWindowed(m, x, e, nBitsExp)

(* SymCryptPositiveWidthNafRecoding: odd digits of W bits, each followed   *)
(* by at least W - 1 zeroes.                                               *)
PositiveWidthNafRecoding(W, e, nBitsExp) ==
  LET scan[i \in 0 .. nBitsExp] ==
        IF i = 0 THEN [digits |-> <<>>, cntrZ |-> W]
        ELSE LET before == scan[i - 1]
                 T1 == IntGetBits(e, i - 1, Least(W, nBitsExp - i + 1))
                 store == before.cntrZ >= W /\ T1 % 2 = 1
             IN [digits |-> Append(before.digits, IF store THEN T1 ELSE 0),
                 cntrZ |-> IF store THEN 1 ELSE before.cntrZ + 1]
  IN scan[nBitsExp].digits

(* SymCryptModMultiExpWnafWithInterleaving for sequences of elements and   *)
(* exponents: bases with the power one are skipped, a zero ends it.        *)
ModMultiExp(m, xs, es, nBitsExp) ==
  LET one == ModElementSetValueUint32(m, 1)
      skip(j) == IsZero(es[j]) \/ xs[j] = one
      digits == [j \in DOMAIN xs |-> PositiveWidthNafRecoding(MmMultiWindow, es[j], nBitsExp)]
      odd(j) ==
        LET square == ModSquare(m, xs[j])
            p[i \in 0 .. 2 ^ (MmMultiWindow - 1) - 1] ==
              IF i = 0 THEN xs[j] ELSE LET before == p[i - 1] IN ModMul(m, square, before)
        IN p
      times(t, i) ==
        LET r[j \in 0 .. Len(xs)] ==
              IF j = 0 THEN t
              ELSE LET before == r[j - 1]
                   IN IF skip(j) \/ digits[j][i] = 0 THEN before ELSE ModMul(m, before, odd(j)[digits[j][i] \div 2])
        IN r[Len(xs)]
      result[i \in 0 .. nBitsExp] ==
        IF i = 0 THEN one
        ELSE LET before == result[i - 1] IN times(ModSquare(m, before), nBitsExp + 1 - i)
  IN IF \E j \in DOMAIN xs : ~IsZero(es[j]) /\ IsZero(xs[j]) THEN ModElementSetValueUint32(m, 0)
     ELSE IF \A j \in DOMAIN xs : skip(j) THEN one ELSE result[nBitsExp]

(* SymCryptModMultiExpGeneric: secret exponents are done one by one.       *)
ModMultiExpGeneric(m, xs, es, nBitsExp, public) ==
  LET product[j \in 0 .. Len(xs)] ==
        IF j = 0 THEN ModElementSetValueUint32(m, 1)
        ELSE LET before == product[j - 1] IN ModMul(m, before, ModExpWindowed(m, xs[j], es[j], nBitsExp))
  IN IF public THEN ModMultiExp(m, xs, es, nBitsExp) ELSE product[Len(xs)]
-----------------------------------------------------------------------------
(* A modulus is made and an element imported; a second element is given a  *)
(* value once and then replaced by the results of operations.              *)
ModularInit ==
  \E in \in MmModuli, v \in MmOperands :
    LET m == IntToModulus(WordsOf(in.v, in.digits * DigitWords), in.operations, in.parityPublic, in.prime)
    IN /\ mmMod = m
       /\ mmX = <<>>
       /\ mmY = ModElementSetValue(m, WordsOf(v, Len(m.w)))
       /\ mmValue = [m |-> in.v, x |-> 0, y |-> v % in.v]

ResultIs(w, v) ==
  /\ mmX' = w
  /\ mmValue' = [mmValue EXCEPT !.x = v % mmValue.m]
  /\ UNCHANGED <<mmMod, mmY>>

ModularSetValue ==
  /\ mmX = <<>>
  /\ \/ \E v \in MmOperands : ResultIs(ModElementSetValue(mmMod, WordsOf(v, Len(mmMod.w))), v)
     \/ \E u \in 0 .. Base - 1 : ResultIs(ModElementSetValueUint32(mmMod, u), u)
     \/ \E u \in 0 .. Base - 1 : ResultIs(ModElementSetValueNegUint32(mmMod, u), 0 - u)

ModularSetRandom ==
  /\ mmX = <<>>
  /\ \E r \in ModRandomValues(mmMod, TRUE, TRUE, TRUE) : ResultIs(ModSetPost(mmMod, r), ValueOf(r))

ModularSum ==
  /\ mmX # <<>>
  /\ \/ ResultIs(ModAdd(mmMod, mmX, mmY), mmValue.x + mmValue.y)
     \/ ResultIs(ModSub(mmMod, mmX, mmY), mmValue.x - mmValue.y)
     \/ ResultIs(ModNeg(mmMod, mmX), 0 - mmValue.x)

ModularProduct ==
  /\ mmX # <<>>
  /\ \/ ResultIs(ModMul(mmMod, mmX, mmY), mmValue.x * mmValue.y)
     \/ ResultIs(ModSquare(mmMod, mmX), mmValue.x * mmValue.x)

(* The integer h for which 2^e * h is v modulo the odd m.                  *)
HalvedValue(v, e, m) == CHOOSE h \in 0 .. m - 1 : (h * 2 ^ e) % m = v % m

ModularDivPow2 ==
  /\ mmX # <<>> /\ mmMod.w[1] % 2 = 1
  /\ \E e \in {0, 1, WordBits + 1} :
       ResultIs(ModDivPow2(mmMod, mmX, e), HalvedValue(mmValue.x, e, mmValue.m))

(* The destination of a failed inversion is not used.                      *)
InverseValue(v, m) == CHOOSE i \in 0 .. m - 1 : (v * i) % m = 1 % m
ModularInv ==
  /\ mmX # <<>>
  /\ \E R \in ModRandomValues(mmMod, FALSE, TRUE, TRUE) :
       /\ ValueOf(R) \in MmBlinding \cup {mmValue.m - 1}
       /\ LET inverse == ModInv(mmMod, mmX, R)
          IN IF inverse.status = "NO_ERROR" THEN ResultIs(inverse.w, InverseValue(mmValue.x, mmValue.m))
             ELSE ResultIs(<<>>, 0)

(* The power of an integer modulo m.                                       *)
PowerValue(v, e, m) ==
  LET p[i \in 0 .. e] == IF i = 0 THEN 1 % m ELSE (p[i - 1] * v) % m IN p[e]

ModularExp ==
  /\ mmX # <<>>
  /\ \E e \in MmExponents, public \in BOOLEAN :
       ResultIs(ModExpGeneric(mmMod, mmX, WordsOf(e.v, 2 * DigitWords), e.bits, public),
                PowerValue(mmValue.x, e.v, mmValue.m))

ModularMultiExp ==
  /\ mmX # <<>>
  /\ \E e, f \in MmExponents, public \in BOOLEAN :
       ResultIs(ModMultiExpGeneric(mmMod, <<mmX, mmY>>, <<WordsOf(e.v, 2 * DigitWords), WordsOf(f.v, 2 * DigitWords)>>,
                                   Most(e.bits, f.bits), public),
                PowerValue(mmValue.x, e.v, mmValue.m) * PowerValue(mmValue.y, f.v, mmValue.m))

ModularNext ==
  \/ ModularSetValue \/ ModularSetRandom \/ ModularSum \/ ModularProduct
  \/ ModularDivPow2 \/ ModularInv \/ ModularExp \/ ModularMultiExp
-----------------------------------------------------------------------------
(* Random elements have every value that the flags allow and no other; for *)
(* moduli below four -1 is always allowed.                                 *)
RandomIsExact ==
  \A zero, one, minusOne \in BOOLEAN :
    LET low == RandomOffset(zero, one)
        high == IF minusOne \/ mmValue.m < 4 THEN mmValue.m - 1 ELSE mmValue.m - 2
    IN {ValueOf(r) : r \in ModRandomValues(mmMod, zero, one, minusOne)} = Least(low, high) .. high

(* Property.  After any sequence of operations an element is reduced, as   *)
(* comparisons word by word need, and stands for the integer that the same *)
(* operations give; an inversion fails exactly if there is no inverse, and *)
(* a random element has any of the values that its flags allow.            *)
ModElementIsReference ==
  IF mmX = <<>> THEN RandomIsExact
  ELSE /\ ValueOf(mmX) < mmValue.m
       /\ ValueOf(ModElementToInt(mmMod, mmX)) = mmValue.x
       /\ ModInv(mmMod, mmX, WordsOf(1 % mmValue.m, Len(mmX))).status = "NO_ERROR" <=>
            mmMod.prime /\ \E i \in 1 .. mmValue.m - 1 : (mmValue.x * i) % mmValue.m = 1
=============================================================================
