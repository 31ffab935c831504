------------------------------- MODULE Numbers -------------------------------
(***************************************************************************)
(* Numbers of any size in the default format (lib/fdef_int.c,              *)
(* lib/fdef_general.c) and the greatest common divisor on them             *)
(* (lib/gen_int.c).  A number object is a sequence of words, the least     *)
(* significant first, a whole number of digits of DigitWords words.  The   *)
(* word is that of the code in C, 32 bits there; sums are taken in a type  *)
(* of twice the width.  The algorithms work word by word as in the code    *)
(* and are compared with the integers they stand for.                      *)
(***************************************************************************)
EXTENDS Integers, Sequences

CONSTANTS
  NmByteBits,   \* 8 in the code
  NmWordBytes,  \* 4 in the code
  DigitWords,   \* SYMCRYPT_FDEF_DIGIT_NUINT32
  NmMaxDigits,  \* of the first operand
  NmOperands    \* [v, digits] of the second operand

ASSUME NumbersAssumption ==
  /\ {NmByteBits, NmWordBytes, DigitWords, NmMaxDigits} \subseteq Nat \ {0}
  /\ \A o \in NmOperands : o.v \in Nat /\ o.digits \in 1 .. NmMaxDigits

WordBits == NmByteBits * NmWordBytes
Base == 2 ^ WordBits
Wide == Base * Base

VARIABLES
  nmA,   \* a number object
  nmB    \* another one

nmVars == <<nmA, nmB>>

(* The integer that words stand for, and the n low words of an integer.    *)
ValueOf(w) ==
  LET f[i \in 0 .. Len(w)] == IF i = 0 THEN 0 ELSE f[i - 1] + w[i] * Base ^ (i - 1)
  IN f[Len(w)]
WordsOf(v, n) == [i \in 1 .. n |-> (v \div Base ^ (i - 1)) % Base]

Zeroes(n) == [i \in 1 .. n |-> 0]
Low(w, n) == SubSeq(w, 1, n)
High(w, n) == SubSeq(w, n + 1, Len(w))
Least(m, n) == IF m < n THEN m ELSE n
Most(m, n) == IF m < n THEN n ELSE m

(* The loops over the words: t holds what is added to the carry of the     *)
(* words before.                                                           *)
Ripple(carry, t) ==
  LET n == Len(t)
      loop[i \in 0 .. n] ==
        IF i = 0 THEN [w |-> <<>>, c |-> carry]
        ELSE LET before == loop[i - 1]
                 v == (t[i] + before.c) % Wide
             IN [w |-> Append(before.w, v % Base), c |-> v \div Base]
  IN loop[n]

(* The same for differences, where the carry is one bit of the upper half. *)
Borrow(carry, t) ==
  LET n == Len(t)
      loop[i \in 0 .. n] ==
        IF i = 0 THEN [w |-> <<>>, c |-> carry]
        ELSE LET before == loop[i - 1]
                 v == (t[i] - before.c) % Wide
             IN [w |-> Append(before.w, v % Base), c |-> (v \div Base) % 2]
  IN loop[n]

RawAdd(a, b) == Ripple(0, [i \in 1 .. Len(a) |-> a[i] + b[i]])
RawAddUint32(a, u) == Ripple(u, a)
RawSub(a, b) == Borrow(0, [i \in 1 .. Len(a) |-> a[i] - b[i]])
RawNeg(a, carry) == Borrow(carry, [i \in 1 .. Len(a) |-> 0 - a[i]])
IntMulUint32(a, u) == Ripple(0, [i \in 1 .. Len(a) |-> a[i] * u])

(* SymCryptFdefRawSubUint32, whose first carry is the subtrahend.          *)
RawSubUint32(a, u) == Borrow(u, a)

(* Sums and differences of objects of different sizes in one of n words.   *)
IntAddMixedSize(a, b, n) ==
  LET short == IF Len(a) < Len(b) THEN a ELSE b
      long == IF Len(a) < Len(b) THEN b ELSE a
      low == RawAdd(short, Low(long, Len(short)))
      high == RawAddUint32(High(long, Len(short)), low.c)
      w == low.w \o high.w
  IN IF Len(w) < n THEN [w |-> w \o <<high.c>> \o Zeroes(n - Len(w) - 1), c |-> 0]
     ELSE [w |-> w, c |-> high.c]

IntSubMixedSize(a, b, n) ==
  LET low == RawSub(Low(a, Least(Len(a), Len(b))), Low(b, Least(Len(a), Len(b))))
      high == IF Len(a) < Len(b) THEN RawNeg(High(b, Len(a)), low.c)
              ELSE RawSubUint32(High(a, Len(b)), low.c)
      c == IF Len(a) = Len(b) THEN low.c ELSE high.c
      w == low.w \o high.w
  IN [w |-> w \o [i \in 1 .. n - Len(w) |-> (0 - c) % Base], c |-> c]

IsZero(w) == \A i \in 1 .. Len(w) : w[i] = 0
RawIsLessThan(a, b) == RawSub(a, b).c = 1
IntIsLessThan(a, b) ==
  LET n == Least(Len(a), Len(b))
      low == RawIsLessThan(Low(a, n), Low(b, n))
  IN IF Len(a) <= Len(b) THEN low \/ ~IsZero(High(b, n)) ELSE low /\ IsZero(High(a, n))

(* The copy into an object of n words.                                     *)
IntCopyMixedSize(a, n) ==
  [w |-> Low(a, Least(Len(a), n)) \o Zeroes(n - Least(Len(a), n)),
   status |-> IF IsZero(High(a, Least(Len(a), n))) THEN "NO_ERROR" ELSE "BUFFER_TOO_SMALL"]

IntBitsizeOfValue(a) ==
  LET bits == {k \in 1 .. Len(a) * WordBits : (a[(k - 1) \div WordBits + 1] \div 2 ^ ((k - 1) % WordBits)) % 2 = 1}
  IN IF bits = {} THEN 0 ELSE CHOOSE k \in bits : \A l \in bits : l <= k
-----------------------------------------------------------------------------
(* Shifts and bits.                                                        *)
WordAt(w, i) == IF i \in 1 .. Len(w) THEN w[i] ELSE 0

IntMulPow2(a, e) ==
  [i \in 1 .. Len(a) |->
     LET k == i - e \div WordBits
     IN ((WordAt(a, k) * Base + WordAt(a, k - 1)) \div 2 ^ (WordBits - (e % WordBits))) % Base]

IntDivPow2(a, e) ==
  [i \in 1 .. Len(a) |->
     LET k == i + e \div WordBits
     IN ((WordAt(a, k) + WordAt(a, k + 1) * Base) \div 2 ^ (e % WordBits)) % Base]

IntShr1(highestBit, a) ==
  LET above == Append(Tail(a), highestBit)
  IN Low([i \in 1 .. Len(a) |-> a[i] \div 2 + ((above[i] * 2 ^ (WordBits - 1)) % Base)], Len(a))

IntModPow2(a, e) ==
  [i \in 1 .. Len(a) |->
     IF i - 1 < e \div WordBits THEN a[i] ELSE IF i - 1 > e \div WordBits THEN 0 ELSE a[i] % 2 ^ (e % WordBits)]

IntGetBits(a, iBit, nBits) ==
  LET k == iBit \div WordBits + 1
      s == iBit % WordBits
  IN (a[k] \div 2 ^ s + (IF s = 0 THEN 0 ELSE (WordAt(a, k + 1) * 2 ^ (WordBits - s)) % Base)) % (2 ^ nBits)

(* SymCryptFdefIntSetBits: a part of the value goes into each of two words. *)
WithField(w, value, from, bits) == w - ((w \div 2 ^ from) % 2 ^ bits) * 2 ^ from + value * 2 ^ from
IntSetBits(a, value, iBit, nBits) ==
  LET k == iBit \div WordBits + 1
      s == iBit % WordBits
      low == Least(nBits, WordBits - s)
      v == value % 2 ^ nBits
  IN [i \in 1 .. Len(a) |->
        IF i = k THEN WithField(a[i], v % 2 ^ low, s, low)
        ELSE IF i = k + 1 /\ s # 0 THEN WithField(a[i], v \div 2 ^ low, 0, nBits - low)
        ELSE a[i]]
-----------------------------------------------------------------------------
(* SymCryptFdefRawSetValue and SymCryptFdefRawGetValue: bytes are a        *)
(* sequence in the given order.                                            *)
Reversed(s) == [i \in 1 .. Len(s) |-> s[Len(s) + 1 - i]]
ByteBase == 2 ^ NmByteBits

RawSetValue(bytes, format, n) ==
  LET b == IF format = "lsb" THEN bytes ELSE Reversed(bytes)
      word[i \in 0 .. NmWordBytes, k \in 1 .. n] ==
        IF i = 0 THEN 0
        ELSE word[i - 1, k] + WordAt(b, (k - 1) * NmWordBytes + i) * ByteBase ^ (i - 1)
  IN [w |-> [k \in 1 .. n |-> word[NmWordBytes, k]],
      status |-> IF \E i \in n * NmWordBytes + 1 .. Len(b) : b[i] # 0 THEN "BUFFER_TOO_SMALL" ELSE "NO_ERROR"]

RawGetValue(a, cb, format) ==
  LET byte(i) == (WordAt(a, (i - 1) \div NmWordBytes + 1) \div ByteBase ^ ((i - 1) % NmWordBytes)) % ByteBase
      b == [i \in 1 .. cb |-> byte(i)]
  IN [bytes |-> IF format = "lsb" THEN b ELSE Reversed(b),
      status |-> IF \E i \in cb + 1 .. Len(a) * NmWordBytes : byte(i) # 0 THEN "BUFFER_TOO_SMALL" ELSE "NO_ERROR"]
-----------------------------------------------------------------------------
(* Products.  A row adds the product of one word, at its position, to dst. *)
WithRow(dst, row, from) ==
  Low(dst, from) \o row.w \o <<row.c>> \o High(dst, from + Len(row.w) + 1)

RawMul(a, b) ==
  LET rows[i \in 0 .. Len(a)] ==
        IF i = 0 THEN Zeroes(Len(a) + Len(b))
        ELSE LET dst == rows[i - 1]
             IN WithRow(dst, Ripple(0, [j \in 1 .. Len(b) |-> b[j] * a[i] + dst[i - 1 + j]]), i - 1)
  IN rows[Len(a)]

(* The third pass of SymCryptFdefRawSquareC: squares on the even columns.  *)
SquareColumns(a, doubled) ==
  Ripple(0, [i \in 1 .. 2 * Len(a) |->
               doubled[i] + (IF i % 2 = 1 THEN a[(i + 1) \div 2] * a[(i + 1) \div 2] ELSE 0)]).w

(* SymCryptFdefRawSquareC: the products of different words, doubled.       *)
RawSquare(a) ==
  LET n == Len(a)
      rows[i \in 0 .. n] ==
        IF i = 0 THEN Zeroes(2 * n)
        ELSE LET dst == rows[i - 1]
                 row == Ripple(0, [j \in 1 .. n - i |-> a[i + j] * a[i] + dst[2 * i + j - 1]])
             IN WithRow(dst, row, 2 * i - 1)
      cross == rows[n]
  IN SquareColumns(a, Ripple(0, [i \in 1 .. 2 * n |-> 2 * cross[i]]).w)

IntMulMixedSize(a, b, n) == RawMul(a, b) \o Zeroes(n - Len(a) - Len(b))
-----------------------------------------------------------------------------
(* Division.  SymCryptFdefIntToDivisor finds W, which is                   *)
(* (2^(nBits + WordBits) - 1) \div value - Base, bit by bit.               *)
TopOfProduct(a, W, nWords) ==
  LET p[i \in 0 .. nWords] ==
        IF i = 0 THEN 0 ELSE ((p[i - 1] + W * a[i]) % Wide) \div Base + a[i]
  IN p[nWords]

IntToDivisor(a) ==
  LET nBits == IntBitsizeOfValue(a)
      nWords == (nBits + WordBits - 1) \div WordBits
      shift == ((nBits + WordBits - 1) % WordBits) + 1
      search[k \in 0 .. WordBits] ==
        IF k = 0 THEN 0
        ELSE LET before == search[k - 1]
                 try == before + 2 ^ (WordBits - k)
             IN IF (TopOfProduct(a, try, nWords) \div 2 ^ shift) % 2 = 1 THEN before ELSE try
  IN [w |-> a, bits |-> nBits, W |-> search[WordBits]]

(* Mutant: the implicit top bit of the reciprocal is not added in.         *)
QuotientEstimateRough(W, X0, X1) ==
  ((W * X0 + X1 + (IF X1 \div 2 ^ (WordBits - 1) = 1 THEN W \div 2 ELSE 0)) % Wide) \div Base

(* One word of the quotient from the two words that follow its position.   *)
QuotientEstimate(W, X0, X1) ==
  ((W * X0 + X0 * Base + X1 + (IF X1 \div 2 ^ (WordBits - 1) = 1 THEN W \div 2 ELSE 0)) % Wide) \div Base

(* One word of the quotient in SymCryptFdefRawDivMod: the product with the *)
(* estimate is subtracted from k + 1 words at position nQ of tmp, and the  *)
(* divisor added back if that was too much.  ok is not in the code, it     *)
(* stands for its assertions.                                              *)
DivAddBack(d, k, s, nQ, Qest, sub) ==
  LET add == Ripple(0, [i \in 1 .. k |-> sub.w[i] + sub.c * d.w[i]])
  IN [tmp |-> Low(s.tmp, nQ + 2) \o add.w \o <<sub.w[k + 1]>> \o High(s.tmp, nQ + k + 3),
      q |-> <<(Qest - sub.c) % Base>> \o s.q,
      ok |-> s.ok /\ sub.c = add.c /\ sub.w[k + 1] = (0 - sub.c) % Base]

DivSubtract(d, k, s, nQ, Qest, product) ==
  DivAddBack(d, k, s, nQ, Qest,
             Borrow(0, [i \in 1 .. k + 1 |-> s.tmp[nQ + 2 + i] - (IF i <= k THEN product.w[i] ELSE product.c)]))

DivStep(d, k, s, nQ) ==
  LET word(i) == ((s.tmp[i + 1] * Base + s.tmp[i]) \div 2 ^ (WordBits - ((0 - d.bits) % WordBits))) % Base
      with(Qest) == DivSubtract(d, k, s, nQ, Qest, Ripple(0, [i \in 1 .. k |-> d.w[i] * Qest]))
  IN with(Least(QuotientEstimate(d.W, word(nQ + k + 2), word(nQ + k + 1)) + 1, Base - 1))

DivResult(d, k, last) ==
  [q |-> last.q \o Zeroes(k - 1), r |-> SubSeq(last.tmp, 3, k + 2) \o Zeroes(Len(d.w) - k), ok |-> last.ok]

(* SymCryptFdefRawDivMod: tmp has two words of zeroes on each side.        *)
RawDivMod(a, d) ==
  LET n == Len(a)
      k == (d.bits + WordBits - 1) \div WordBits
      run[i \in 0 .. n - k + 1] ==
        IF i = 0 THEN [tmp |-> <<0, 0>> \o a \o <<0, 0>>, q |-> <<>>, ok |-> TRUE]
        ELSE DivStep(d, k, run[i - 1], n - k + 1 - i)
  IN IF n < k THEN [q |-> Zeroes(n), r |-> a \o Zeroes(Len(d.w) - n), ok |-> TRUE]
     ELSE DivResult(d, k, run[n - k + 1])
-----------------------------------------------------------------------------
(* Greatest common divisors.  SymCryptUint64Gcd, for inputs of one word:   *)
(* b is kept odd and one of the two loses a bit in every round.            *)
Uint64Gcd(a, b) ==
  LET round[i \in 0 .. 2 * WordBits - 1] ==
        IF i = 0 THEN IF b % 2 = 1 THEN <<a, b>> ELSE <<b, a>>
        ELSE LET p == round[i - 1]
                 small == Least(p[1], p[2])
             IN IF p[1] % 2 = 0 THEN <<p[1] \div 2, p[2]>> ELSE <<(Most(p[1], p[2]) - small) \div 2, small>>
  IN round[2 * WordBits - 1][2]

(* One round of SymCryptIntExtendedGcd: A is A1 * s1 and B is B1 * s1      *)
(* modulo s2, and B is odd.  A is made even and halved, and A1 with it.    *)
GcdSwap(p) ==
  IF p.A[1] % 2 = 1 /\ RawIsLessThan(p.A, p.B) THEN [A |-> p.B, B |-> p.A, A1 |-> p.B1, B1 |-> p.A1] ELSE p
GcdAddBack(diff, s2, n) == IF diff.c = 1 THEN IntAddMixedSize(diff.w, s2, n).w ELSE diff.w
GcdSubtract(q, s2, n) ==
  IF q.A[1] % 2 = 0 THEN q
  ELSE [q EXCEPT !.A = RawSub(q.A, q.B).w, !.A1 = GcdAddBack(RawSub(q.A1, q.B1), s2, n)]
GcdHalve(q, sum) ==
  [q EXCEPT !.A = IntShr1(0, q.A), !.A1 = IF q.A1[1] % 2 = 1 THEN IntShr1(sum.c, sum.w) ELSE IntShr1(0, q.A1)]
GcdRound(p, s2, n) ==
  LET halved(q) == GcdHalve(q, IntAddMixedSize(q.A1, s2, n)) IN halved(GcdSubtract(GcdSwap(p), s2, n))

(* The results of SymCryptIntExtendedGcd from the B and B1 of its loop;    *)
(* A and B are the sources in n words.                                     *)
GcdSecondInverse(A, Q, n) == IntSubMixedSize(A, RawDivMod(Q, IntToDivisor(A)).r, n).w
GcdResults(s1, s2, A, B, last, gcd, n) ==
  [gcd |-> last.B,
   lcm |-> RawDivMod(RawMul(s1, s2), gcd).q,
   inv1 |-> RawDivMod(last.B1, IntToDivisor(IntCopyMixedSize(RawDivMod(s2, gcd).q, n).w)).r,
   inv2 |-> GcdSecondInverse(A, RawDivMod(IntSubMixedSize(IntMulMixedSize(last.B1, s1, 2 * n), last.B, 2 * n).w,
                                          IntToDivisor(B)).q, n)]

(* SymCryptIntExtendedGcd for s1 not zero and s2 odd.                      *)
IntExtendedGcd(s1, s2) ==
  LET n == Most(Len(s1), Len(s2))
      A == IntCopyMixedSize(s1, n).w
      B == IntCopyMixedSize(s2, n).w
      t == (Len(s1) + Len(s2)) * WordBits - 1
      rounds[i \in 0 .. t] ==
        IF i = 0 THEN [A |-> A, B |-> B, A1 |-> <<1>> \o Zeroes(n - 1), B1 |-> Zeroes(n)]
        ELSE GcdRound(rounds[i - 1], s2, n)
      results(last) == GcdResults(s1, s2, A, B, last, IntToDivisor(last.B), n)
  IN results(rounds[t])
-----------------------------------------------------------------------------
(* The operations on two objects: the result goes to the first.            *)
NumbersInit ==
  /\ nmA = <<>>
  /\ nmB \in {WordsOf(o.v, o.digits * DigitWords) : o \in NmOperands}

(* The first object is allocated and given a value.                        *)
NumbersSetValue ==
  /\ nmA = <<>>
  /\ \E words \in {digits * DigitWords : digits \in 1 .. NmMaxDigits}, format \in {"lsb", "msb"} :
       \E bytes \in [1 .. words * NmWordBytes -> 0 .. ByteBase - 1] :
         nmA' = RawSetValue(bytes, format, words).w
  /\ UNCHANGED nmB

NumbersAdd ==
  /\ nmA # <<>>
  /\ nmA' = IntAddMixedSize(nmA, nmB, Most(Len(nmA), Len(nmB))).w
  /\ UNCHANGED nmB

NumbersSub ==
  /\ nmA # <<>>
  /\ nmA' = IntSubMixedSize(nmA, nmB, Most(Len(nmA), Len(nmB))).w
  /\ UNCHANGED nmB

NumbersMul ==
  /\ nmA # <<>> /\ Len(nmA) + Len(nmB) <= NmMaxDigits * DigitWords
  /\ nmA' = IntMulMixedSize(nmA, nmB, NmMaxDigits * DigitWords)
  /\ UNCHANGED nmB

NumbersDivMod ==
  /\ nmA # <<>> /\ ~IsZero(nmB)
  /\ LET divided == RawDivMod(nmA, IntToDivisor(nmB)) IN nmA' \in {divided.q, divided.r}
  /\ UNCHANGED nmB

NumbersGcd ==
  /\ ~IsZero(nmA) /\ nmB[1] % 2 = 1
  /\ nmA' = IntExtendedGcd(nmA, nmB).gcd
  /\ UNCHANGED nmB

NumbersNext == NumbersSetValue \/ NumbersAdd \/ NumbersSub \/ NumbersMul \/ NumbersDivMod \/ NumbersGcd
-----------------------------------------------------------------------------
(* Sums, differences, comparisons, shifts, bit fields and the              *)
(* conversions from and to bytes are those of the integers, with carries,  *)
(* borrows and errors exactly when the result does not fit.                *)
ArithmeticIsExact ==
  LET va == ValueOf(nmA)
      vb == ValueOf(nmB)
      n == Most(Len(nmA), Len(nmB))
      bits == Len(nmA) * WordBits
      sum(m) == IntAddMixedSize(nmA, nmB, m)
      difference(m) == IntSubMixedSize(nmA, nmB, m)
  IN /\ \A m \in {n, n + DigitWords} :
          /\ ValueOf(sum(m).w) + Base ^ m * sum(m).c = va + vb
          /\ ValueOf(difference(m).w) - Base ^ m * difference(m).c = va - vb
     /\ IntIsLessThan(nmA, nmB) <=> va < vb
     /\ ValueOf(RawAddUint32(nmA, nmB[1]).w) = (va + nmB[1]) % Base ^ Len(nmA)
     /\ ValueOf(RawSubUint32(nmA, nmB[1]).w) = (va - nmB[1]) % Base ^ Len(nmA)
     /\ ValueOf(RawNeg(nmA, 0).w) = (0 - va) % Base ^ Len(nmA)
     /\ va < 2 ^ IntBitsizeOfValue(nmA) /\ (va > 0 => va >= 2 ^ (IntBitsizeOfValue(nmA) - 1))
     /\ LET copy == IntCopyMixedSize(nmA, Len(nmB))
        IN /\ copy.status = "NO_ERROR" <=> va < Base ^ Len(nmB)
           /\ ValueOf(copy.w) = va % Base ^ Len(nmB)
     /\ vb <= bits =>
          /\ ValueOf(IntMulPow2(nmA, vb)) = (va * 2 ^ vb) % Base ^ Len(nmA)
          /\ ValueOf(IntDivPow2(nmA, vb)) = va \div 2 ^ vb
          /\ ValueOf(IntModPow2(nmA, vb)) = va % 2 ^ vb
          /\ \A format \in {"lsb", "msb"} :
               LET got == RawGetValue(nmA, vb, format)
               IN /\ got.status = "NO_ERROR" <=> va < ByteBase ^ vb
                  /\ got.status = "NO_ERROR" => RawSetValue(got.bytes, format, Len(nmA)).w = nmA
     /\ \A k \in 1 .. WordBits :
          vb + k <= bits =>
            LET field == IntGetBits(nmA, vb, k)
            IN /\ field = (va \div 2 ^ vb) % 2 ^ k
               /\ \A u \in {0, 2 ^ k - 1} :
                    ValueOf(IntSetBits(nmA, u, vb, k)) = va + (u - field) * 2 ^ vb

(* Greatest common divisors, with the multiple and the inverses made from  *)
(* them, are those of the integers.                                        *)
GcdIsExact(va, vb, gcd, g) ==
  /\ va % gcd = 0 /\ vb % gcd = 0
  /\ \A d \in gcd + 1 .. Least(va, vb) : va % d # 0 \/ vb % d # 0
  /\ ValueOf(g.lcm) * gcd = va * vb
  /\ (ValueOf(g.inv1) * va) % vb = gcd % vb /\ ValueOf(g.inv1) < vb \div gcd
  /\ gcd # vb => (ValueOf(g.inv2) * vb) % va = gcd % va /\ ValueOf(g.inv2) <= va

(* Products and squares, quotients and remainders from estimates of the    *)
(* quotient's words, and greatest common divisors are those of the         *)
(* integers.                                                               *)
DivisionIsExact(va, vb) ==
  /\ ValueOf(RawMul(nmA, nmB)) = va * vb
  /\ ValueOf(RawSquare(nmA)) = va * va
  /\ \A p \in {IntMulUint32(nmA, nmB[1])} : ValueOf(p.w) + Base ^ Len(nmA) * p.c = va * nmB[1]
  /\ vb > 0 =>
       \A divisor \in {IntToDivisor(nmB)} :
         /\ divisor.W = (2 ^ (divisor.bits + WordBits) - 1) \div vb - Base
         /\ \A divided \in {RawDivMod(nmA, divisor)} :
              divided.ok /\ ValueOf(divided.q) = va \div vb /\ ValueOf(divided.r) = va % vb
  /\ va > 0 /\ vb % 2 = 1 =>
       \A g \in {IntExtendedGcd(nmA, nmB)} : GcdIsExact(va, vb, ValueOf(g.gcd), g)
  /\ nmA[1] % 2 = 1 \/ nmB[1] % 2 = 1 =>
       \A d \in {Uint64Gcd(nmA[1], nmB[1])} :
         /\ nmA[1] % d = 0 /\ nmB[1] % d = 0
         /\ \A e \in d + 1 .. Base : nmA[1] % e # 0 \/ nmB[1] % e # 0

(* Property.  The functions of lib/fdef_int.c and lib/gen_int.c, which     *)
(* work word by word with carries, borrows and estimates, compute what the *)
(* integers give for every operand they take.                              *)
IntIsExact == nmA # <<>> => ArithmeticIsExact /\ DivisionIsExact(ValueOf(nmA), ValueOf(nmB))
=============================================================================
