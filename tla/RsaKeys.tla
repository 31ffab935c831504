------------------------------- MODULE RsaKeys -------------------------------
(***************************************************************************)
(* RSA keys (lib/rsakey.c), the arithmetic with remainders under it        *)
(* (lib/crt.c) and the core of encryption and decryption (lib/rsa_enc.c).  *)
(* A key object is made for moduli of up to bits bits and two primes; the  *)
(* numbers of an import are those of the caller, and nothing checks that   *)
(* they belong together but the decryption, which encrypts its result      *)
(* again.                                                                  *)
(***************************************************************************)
EXTENDS ModArith, FiniteSets

CONSTANTS
  RsSizes,         \* nBitsOfModulus of the keys created
  RsMinBits,       \* SYMCRYPT_RSAKEY_MIN_BITSIZE_MODULUS
  RsMinPrimeBits,  \* SYMCRYPT_RSAKEY_MIN_BITSIZE_PRIME
  RsExponents,     \* public exponents for generation
  RsImports,       \* [n, e, p, q] to import; p = 0: without primes
  RsJunk           \* some of the numbers that wrong private fields may give

ASSUME RsAssumption ==
  /\ RsSizes \subseteq Nat /\ \A bits \in RsSizes : bits >= RsMinBits
  /\ RsMinBits \in Nat \ {0} /\ RsMinPrimeBits \in Nat \ {0, 1}
  /\ RsExponents \subseteq Nat /\ RsJunk \subseteq Nat

VARIABLES
  rsKey,      \* the key object
  rsStatus    \* what the last call returned

rsVars == <<rsKey, rsStatus>>

(* last and mixed are not in the code: what the last call on the key did,  *)
(* and whether a call failed when it had replaced a part of the primes,    *)
(* their exponents and their inverse.                                      *)
RsakeyCreate(bits) ==
  [bits |-> bits, has |-> FALSE, n |-> 0, e |-> 0, p |-> 0, q |-> 0, d |-> 0, dp |-> 0, dq |-> 0,
   inv |-> 0, last |-> "created", mixed |-> FALSE]

RsInit == rsStatus = "NO_ERROR" /\ \E bits \in RsSizes : rsKey = RsakeyCreate(bits)

RsFailed(k, status) == [key |-> [k EXCEPT !.last = "failed"], status |-> status]
RsMixed(k, status) == RsFailed([k EXCEPT !.mixed = TRUE], status)
RsDone(k, how) == [key |-> [k EXCEPT !.last = how], status |-> "NO_ERROR"]

(* What fits an object with the digits of the modulus.                     *)
RsLimit(k) == 2 ^ (DigitsOf(k.bits) * DigitBits)

Coprime(a, b) == \A f \in 2 .. b : a % f # 0 \/ b % f # 0
RsIsPrime(x) == x > 1 /\ \A f \in 2 .. x - 1 : x % f # 0
-----------------------------------------------------------------------------
(* SymCryptCrtGenerateInverses: what the extended GCD leaves for primes    *)
(* that are not coprime is not an inverse, and is not refused.             *)
CrtInverses(p, q) == IF Coprime(p, q) THEN {InvMod(q % p, p)} ELSE {x % p : x \in RsJunk}

CrtExponent(d, prime) == d % (prime - 1)

(* SymCryptRsakeyCalculatePrivateFields, for any inverse.                  *)
RsakeyCalculatePrivateFields(k, how) ==
  LET phi == (k.p - 1) * (k.q - 1)
      d == InvMod(k.e % phi, phi)
  IN IF phi >= RsLimit(k) THEN {RsMixed(k, "BUFFER_TOO_SMALL")}
     ELSE IF k.e % 2 = 0 \/ k.e = 1 \/ ~Coprime(phi, k.e) THEN {RsMixed(k, "INVALID_ARGUMENT")}
     ELSE {RsDone([k EXCEPT !.d = d, !.dp = CrtExponent(d, k.p), !.dq = CrtExponent(d, k.q),
                            !.inv = inv, !.has = TRUE, !.mixed = FALSE], how) :
             inv \in CrtInverses(k.p, k.q)}

(* SymCryptIntGenerateRandomPrime: 3 modulo 4 and such that e is invertible. *)
RandomPrimes(low, high, e) ==
  {x \in low .. high - 1 : x % 4 = 3 /\ RsIsPrime(x) /\ Coprime(x - 1, e)}

(* The primes of SymCryptRsakeyGenerate: the second range is half the      *)
(* first for moduli of an odd size.                                        *)
GeneratedPrimes(bits, e) ==
  LET b == (bits + 1) \div 2
      half == IF bits % 2 = 1 THEN 2 ELSE 1
      low == 3 * 2 ^ (b - 2)
      high == 2 ^ b - 1
  IN RandomPrimes(low, high, e) \X RandomPrimes(low \div half, high \div half, e)

(* SymCryptRsakeyGenerate.  Nothing keeps the primes apart but their size. *)
RsakeyGenerateResults(k, e) ==
  LET start == [k EXCEPT !.e = e]
      keyed(pq) == [start EXCEPT !.p = pq[1], !.q = pq[2], !.n = pq[1] * pq[2]]
  IN {RsMixed(start, "INVALID_ARGUMENT")} \cup
     (IF e = 0 THEN {}
      ELSE UNION {IF NumberBits(keyed(pq).n) # k.bits THEN {RsMixed(keyed(pq), "EXTERNAL_FAILURE")}
                  ELSE RsakeyCalculatePrivateFields(keyed(pq), "generated") :
                    pq \in GeneratedPrimes(k.bits, e)})

RsakeyGenerate ==
  \E e \in RsExponents : \E r \in RsakeyGenerateResults(rsKey, e) :
    rsKey' = r.key /\ rsStatus' = r.status
-----------------------------------------------------------------------------
(* SymCryptRsakeySetValue: modulus and exponent are in the object before   *)
(* anything is known of the primes, and an import without primes leaves    *)
(* those of the earlier key and hasPrivateKey as they are.                 *)
RsakeySetValueResults(k, in) ==
  LET k1 == [k EXCEPT !.n = in.n]
      k2 == [k1 EXCEPT !.e = in.e]
      k3 == [k2 EXCEPT !.p = in.p, !.q = in.q]
      short == \E x \in {in.p, in.q} : NumberBits(x) < RsMinPrimeBits
  IN IF in.n >= RsLimit(k) THEN {RsFailed(k, "BUFFER_TOO_SMALL")}
     ELSE IF NumberBits(in.n) > k.bits THEN {RsFailed(k1, "INVALID_ARGUMENT")}
     ELSE IF NumberBits(in.n) < RsMinBits THEN {RsFailed(k1, "WRONG_KEY_SIZE")}
     ELSE IF in.p = 0 THEN {RsDone(k2, "public")}
     ELSE IF in.p >= RsLimit(k) \/ in.q >= RsLimit(k) THEN {RsMixed(k2, "BUFFER_TOO_SMALL")}
     ELSE IF short THEN {RsMixed(k2, "WRONG_KEY_SIZE")}
     ELSE IF in.p % 2 = 0 \/ in.q % 2 = 0 THEN {RsMixed(k3, "INVALID_ARGUMENT")}
     ELSE RsakeyCalculatePrivateFields(k3, "private")

RsakeySetValue ==
  \E in \in RsImports : \E r \in RsakeySetValueResults(rsKey, in) :
    rsKey' = r.key /\ rsStatus' = r.status

(* SymCryptRsakeyGetValue and SymCryptRsakeyGetCrtValue.                   *)
RsakeyGetValue(k) == [n |-> k.n, e |-> k.e, p |-> IF k.has THEN k.p ELSE 0, q |-> IF k.has THEN k.q ELSE 0]
RsakeyGetCrtValue(k) == IF k.has THEN <<k.dp, k.dq, k.inv, k.d>> ELSE <<>>

RsNext == RsakeyGenerate \/ RsakeySetValue

RsSpec == RsInit /\ [][RsNext]_rsVars
-----------------------------------------------------------------------------
SizeofModulus(k) == BytesOf(NumberBits(k.n))
RsAnswer(status, value) == [status |-> status, value |-> value]

(* SymCryptRsaCoreVerifyInput: a shorter input is below any modulus of     *)
(* the size.                                                               *)
RsaInputOK(k, x, cbSrc, cbDst) ==
  /\ cbSrc <= SizeofModulus(k) /\ cbDst >= SizeofModulus(k)
  /\ (cbSrc = SizeofModulus(k)) => x < k.n

RsaCoreEnc(k, x, cbSrc, cbDst) ==
  IF RsaInputOK(k, x, cbSrc, cbDst)
  THEN RsAnswer("NO_ERROR", PowMod(x % k.n, k.e, k.n)) ELSE RsAnswer("INVALID_ARGUMENT", 0)

(* SymCryptCrtSolve, Garner's formula.                                     *)
CrtSolve(k, r0, r1) == k.q * ((k.inv * ((r0 - (r1 % k.p)) % k.p)) % k.p) + r1

(* The candidate of SymCryptRsaCoreDecCrt.  Private fields that a failed   *)
(* call left mixed may give any number.                                    *)
RsaCandidates(k, x) ==
  IF k.mixed THEN RsJunk
  ELSE {CrtSolve(k, ModExp(x % k.p, k.dp, NumberBits(k.p), k.p), ModExp(x % k.q, k.dq, NumberBits(k.q), k.q))}

(* Mutant: the result is not encrypted again.                              *)
RsaVerifiedNever(k, x, m) == TRUE
RsaVerified(k, x, m) == PowMod(m % k.n, k.e, k.n) = x

(* SymCryptRsaCoreDecCrt, which SymCryptRsaRawDecrypt calls.               *)
RsaCoreDecCrt(k, x, cbSrc, cbDst) ==
  IF ~k.has \/ ~RsaInputOK(k, x, cbSrc, cbDst) THEN {RsAnswer("INVALID_ARGUMENT", 0)}
  ELSE {IF m >= RsLimit(k) THEN RsAnswer("BUFFER_TOO_SMALL", 0)
        ELSE IF ~RsaVerified(k, x, m) THEN RsAnswer("HARDWARE_FAILURE", 0)
        ELSE IF m >= 2 ^ (cbDst * ByteBits) THEN RsAnswer("BUFFER_TOO_SMALL", 0)
        ELSE RsAnswer("NO_ERROR", m) : m \in RsaCandidates(k, x)}

(* SymCryptRsaCoreDec, the decryption without remainders.                  *)
RsaCoreDec(k, x) == ModExp(x % k.n, k.d, NumberBits(k.n), k.n)
-----------------------------------------------------------------------------
(* Numbers at the edges of the modulus and the multiples of the primes.    *)
RsSamples(k) ==
  {x \in (0 .. 9) \cup (k.n - 6 .. k.n + 2) \cup {i * f : i \in 1 .. 4, f \in {k.p, k.q}}
         \cup {i * (k.n \div 11) : i \in 1 .. 11} : x >= 0}

RsUsable(k) == k.last \in {"public", "private", "generated"}

RsPair(k) == /\ k.last \in {"private", "generated"} /\ k.n = k.p * k.q
             /\ k.p # k.q /\ RsIsPrime(k.p) /\ RsIsPrime(k.q)

(* Decryption that succeeds gives a number that encrypts to its input,     *)
(* whatever the object went through: primes that are none, primes of       *)
(* another modulus, private fields of an earlier key or of a failed        *)
(* import beside a public key imported later.  With the product of two     *)
(* different primes decryption inverts encryption on every input below     *)
(* the modulus, with and without remainders and in inputs with and without *)
(* leading zeroes; larger inputs are refused.  A generated key has such    *)
(* primes or equal ones, the size that was asked for, and a fresh key that *)
(* imports it is the same key.                                             *)
RsaIsExact ==
  LET cb == SizeofModulus(rsKey)
  IN /\ RsUsable(rsKey) =>
          \A x \in RsSamples(rsKey), wide \in {0, 1} :
            (x < 2 ^ (cb * ByteBits)) =>
              \A a \in RsaCoreDecCrt(rsKey, x, cb, cb + wide) :
                (a.status = "NO_ERROR") => rsKey.has /\ PowMod(a.value % rsKey.n, rsKey.e, rsKey.n) = x
     /\ RsPair(rsKey) =>
          \A m \in RsSamples(rsKey), cbSrc \in {cb - 1, cb} : (m < 2 ^ (cbSrc * ByteBits)) =>
            LET c == RsaCoreEnc(rsKey, m, cbSrc, cb)
            IN IF m >= rsKey.n THEN c.status # "NO_ERROR"
               ELSE /\ c.status = "NO_ERROR"
                    /\ RsaCoreDecCrt(rsKey, c.value, cb, cb) = {RsAnswer("NO_ERROR", m)}
                    /\ RsaCoreDec(rsKey, c.value) = m
     /\ (rsKey.last = "generated") =>
          /\ RsPair(rsKey) \/ rsKey.p = rsKey.q
          /\ NumberBits(rsKey.n) = rsKey.bits
          /\ \E r \in RsakeySetValueResults(RsakeyCreate(rsKey.bits), RsakeyGetValue(rsKey)) :
               r.status = "NO_ERROR" /\ RsakeyGetCrtValue(r.key) = RsakeyGetCrtValue(rsKey)
=============================================================================
