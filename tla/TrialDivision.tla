---------------------------- MODULE TrialDivision ----------------------------
(***************************************************************************)
(* The search for small divisors before a primality test                   *)
(* (lib/fdef_general.c).  A context holds lists of small primes, in groups *)
(* whose product is small enough that a number can be reduced by a group   *)
(* eight words at a time without an overflow of the double word.  Primes   *)
(* that divide the word base less one are tested on the sum of the words.  *)
(***************************************************************************)
EXTENDS Integers, Sequences

CONSTANTS
  TdWordBits,      \* 32 in the code
  TdSpecial,       \* <<3, 5, 17>> in the code: they divide 2^32 - 1
  TdGroupSpec,     \* g_SymCryptSmallPrimeGroupsSpec: [nPrimes, nGroups, maxPrime], the last with no groups
  TdMinSieve,      \* 32 in the code
  TdMaxPrime,      \* SYMCRYPT_TRIALDIVISION_MAX_SMALL_PRIME
  TdReduceCycles, TdTestCycles, TdRabinMillerCycles,  \* the measured costs
  TdSizes,         \* sizes of contexts in digits
  TdSources        \* numbers as words, a multiple of eight of them

ASSUME TrialAssumption ==
  /\ TdWordBits \in Nat \ {0} /\ Len(TdGroupSpec) > 0
  /\ \A i \in DOMAIN TdSpecial : (2 ^ TdWordBits - 1) % TdSpecial[i] = 0
  /\ \A w \in TdSources : Len(w) % 8 = 0

TdBase == 2 ^ TdWordBits
TdWide == TdBase * TdBase

VARIABLES
  tdContext,  \* the context
  tdSource,   \* the number last looked at, or empty
  tdDivisor   \* what was found

tdVars == <<tdContext, tdSource, tdDivisor>>

(* The low double word of a product.                                       *)
MulWide(a, b) ==
  (((a % TdBase) * (b % TdBase)) +
   TdBase * (((a \div TdBase) * (b % TdBase) + (a % TdBase) * (b \div TdBase)) % TdBase)) % TdWide

(* What SymCryptInverseMod2e64 computes, by doubling the correct bits.     *)
TdInverse(p) ==
  LET newton[i \in 0 .. TdWordBits] ==
        IF i = 0 THEN p
        ELSE LET x == newton[i - 1] IN MulWide(x, (2 - MulWide(x, p)) % TdWide)
  IN newton[TdWordBits]

TrialPrime(p) == [p |-> p, inv |-> TdInverse(p), limit |-> (TdWide - 1) \div p]

IsMultipleOfSmallPrime(v, prime) == MulWide(v, prime.inv) <= prime.limit
-----------------------------------------------------------------------------
(* SymCryptGenerateSmallPrimes: index i of the sieve stands for 2 * i + 1. *)
GenerateSmallPrimes(limit) ==
  LET nSieve == ((IF limit < TdMinSieve THEN TdMinSieve ELSE limit) - 1) \div 2 + 1
      marked[i \in 0 .. nSieve - 1] ==
        IF i = 0 THEN {}
        ELSE LET before == marked[i - 1]
                 square == 2 * (i * i + i)
             IN IF i \in before \/ square > nSieve THEN before
                ELSE before \cup {k \in square .. nSieve - 1 : (k - square) % (2 * i + 1) = 0}
      composite == marked[nSieve - 1]
  IN SelectSeq([i \in 1 .. nSieve - 1 |-> 2 * i + 1],
               LAMBDA p : (p - 1) \div 2 \notin composite /\ \A s \in DOMAIN TdSpecial : TdSpecial[s] # p)

(* The largest prime that is worth a test for numbers of a size, from the  *)
(* cost of a primality test less a fifth.                                  *)
LargestTrialPrime(nDigits) ==
  LET rabinMiller == nDigits * nDigits * nDigits * ((TdRabinMillerCycles * 8) \div 10)
      perPrime(i) == (nDigits * TdReduceCycles) \div TdGroupSpec[i].nPrimes + TdTestCycles
      ends(i) == TdGroupSpec[i].nGroups = 0 \/ TdGroupSpec[i].maxPrime * perPrime(i) >= rabinMiller
      last == CHOOSE i \in DOMAIN TdGroupSpec : ends(i) /\ \A j \in 1 .. i - 1 : ~ends(j)
      least == IF last = 1 THEN 0 ELSE TdGroupSpec[last - 1].maxPrime
      most == rabinMiller \div perPrime(last)
      bounded == IF most < TdMaxPrime THEN most ELSE TdMaxPrime
  IN IF bounded < least THEN least ELSE bounded

(* How many primes each group has: primes that do not fill a group are     *)
(* left out.                                                               *)
GroupSizes(n) ==
  LET take[i \in 1 .. Len(TdGroupSpec), left \in 0 .. n] ==
        LET spec == TdGroupSpec[i]
        IN IF left < spec.nPrimes * spec.nGroups \/ spec.nGroups = 0
           THEN [g \in 1 .. left \div spec.nPrimes |-> spec.nPrimes]
           ELSE [g \in 1 .. spec.nGroups |-> spec.nPrimes] \o take[i + 1, left - spec.nPrimes * spec.nGroups]
  IN take[1, n]

(* SymCryptFdefInitTrialDivisionGroup: the powers of the base modulo the   *)
(* product of the primes.                                                  *)
TrialGroup(primes) ==
  LET product[i \in 0 .. Len(primes)] == IF i = 0 THEN 1 ELSE product[i - 1] * primes[i]
      M == product[Len(primes)]
      factor[i \in 1 .. 9] == IF i = 1 THEN TdBase % M ELSE (factor[i - 1] * (TdBase % M)) % M
  IN [primes |-> [i \in DOMAIN primes |-> TrialPrime(primes[i])], factor |-> <<>> \o [i \in 1 .. 9 |-> factor[i]]]

CreateTrialDivisionContext(nDigits) ==
  LET primes == GenerateSmallPrimes(LargestTrialPrime(nDigits))
      sizes == GroupSizes(Len(primes))
      from[g \in 0 .. Len(sizes)] == IF g = 0 THEN 0 ELSE from[g - 1] + sizes[g]
  IN [special |-> [i \in DOMAIN TdSpecial |-> TrialPrime(TdSpecial[i])],
      groups |-> [g \in DOMAIN sizes |-> TrialGroup(SubSeq(primes, from[g - 1] + 1, from[g]))],
      primes |-> SubSeq(primes, 1, from[Len(sizes)])]
-----------------------------------------------------------------------------
WordSum(w) ==
  LET sum[i \in 0 .. Len(w)] == IF i = 0 THEN 0 ELSE (sum[i - 1] + w[i]) % TdWide IN sum[Len(w)]

(* Mutant: the upper word of what was reduced is multiplied as the lower.  *)
AboveEightOneFactor(above, factor) == ((above % TdBase) + (above \div TdBase)) * factor[8]

(* What was reduced so far stands above the next eight words.              *)
AboveEight(above, factor) == (above % TdBase) * factor[8] + (above \div TdBase) * factor[9]

EightWords(w, at, above, factor) ==
  (w[at] + w[at + 1] * factor[1] + w[at + 2] * factor[2] + w[at + 3] * factor[3] + w[at + 4] * factor[4]
   + w[at + 5] * factor[5] + w[at + 6] * factor[6] + w[at + 7] * factor[7] + AboveEight(above, factor)) % TdWide

ReducedByGroup(w, factor) ==
  LET acc[i \in 0 .. Len(w) \div 8] ==
        IF i = 0 THEN 0
        ELSE LET above == acc[i - 1] IN EightWords(w, Len(w) - 8 * i + 1, above, factor)
  IN acc[Len(w) \div 8]

(* The first of a set of indices, or zero.                                 *)
FirstOf(S) == IF S = {} THEN 0 ELSE CHOOSE i \in S : \A j \in S : i <= j

(* The first of some primes that divides a value, or zero.                 *)
FirstDivisor(primes, v) == FirstOf({i \in DOMAIN primes : IsMultipleOfSmallPrime(v, primes[i])})

(* SymCryptFdefIntFindSmallDivisor: zero if none is found.                 *)
IntFindSmallDivisor(context, w) ==
  LET special == FirstDivisor(context.special, WordSum(w))
      inGroup(g) == FirstDivisor(g.primes, ReducedByGroup(w, g.factor))
      group == FirstOf({i \in DOMAIN context.groups : inGroup(context.groups[i]) # 0})
  IN IF w[1] % 2 = 0 THEN 2
     ELSE IF special # 0 THEN context.special[special].p
     ELSE IF group # 0 THEN context.groups[group].primes[inGroup(context.groups[group])].p ELSE 0
-----------------------------------------------------------------------------
TrialInit ==
  /\ tdContext \in {CreateTrialDivisionContext(nDigits) : nDigits \in TdSizes}
  /\ tdSource = <<>>
  /\ tdDivisor = 0

TrialFind ==
  \E w \in TdSources :
    /\ tdSource' = w
    /\ tdDivisor' = IntFindSmallDivisor(tdContext, w)
    /\ UNCHANGED tdContext

TrialNext == tdSource = <<>> /\ TrialFind

(* The remainder of the number modulo a prime.                             *)
Remainder(w, p) ==
  LET r[i \in 0 .. Len(w)] == IF i = 0 THEN 0 ELSE (r[i - 1] * (TdBase % p) + w[Len(w) + 1 - i]) % p
  IN r[Len(w)]

(* Property.  A divisor that is found divides the number; none is found    *)
(* only if neither 2 nor any prime up to the largest of the context does,  *)
(* so that the reductions have not overflowed and the groups have lost no  *)
(* prime.                                                                  *)
SmallDivisorIsRight ==
  tdSource # <<>> =>
    LET largest == tdContext.primes[Len(tdContext.primes)]
        primes == {p \in 2 .. largest : \A d \in 2 .. p - 1 : p % d # 0}
    IN IF tdDivisor # 0 THEN Remainder(tdSource, tdDivisor) = 0
       ELSE \A p \in primes : Remainder(tdSource, p) # 0
=============================================================================
