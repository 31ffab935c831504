------------------------------- MODULE DlGroup -------------------------------
(***************************************************************************)
(* The group objects of dlgroup.c: generation of P, Q and G from a seed by *)
(* FIPS 186-2 and 186-3, import with or without verification of how the    *)
(* parameters came about, and the named safe-prime groups, by name or      *)
(* recognised on import.  A hash algorithm is a function on small numbers, *)
(* a seed is a number with its size in bytes.                              *)
(***************************************************************************)
EXTENDS ModArith, Sequences, FiniteSets, Bitwise

CONSTANTS
  DgMaxBitsP, DgMaxBitsQ,  \* what the object was created for
  DgMinBitsP, DgMinBitsQ,  \* SYMCRYPT_DLGROUP_MIN_BITSIZE_P and _Q
  DgHashBits,              \* the output of every hash algorithm
  DgHashAlgs,              \* the hash algorithms: [a, b, c]
  DgSha1,                  \* the one of them that is SHA-1
  DgNamedPrimes,           \* the named safe primes: [p, minBits, defaultBits]
  DgNamedMark,             \* named primes end in ones modulo this (2^64)
  DgCountRange,            \* the range of count, 2^16
  DgImports                \* what is passed to SymCryptDlgroupSetValue

ASSUME DgAssumption == DgSha1 \in DgHashAlgs /\ DgMaxBitsQ <= DgHashBits /\ DgHashBits <= DgMaxBitsP

VARIABLES dgGroup, dgStatus
dgVars == <<dgGroup, dgStatus>>

NoHash == [a |-> 0, b |-> 0, c |-> 0]
NoSeed == [v |-> 0, cb |-> 0]
NotGiven == 0

HashOf(h, x) == (h.a * x * x + h.b * x + h.c) % 2 ^ DgHashBits
HashForG(h, seed, count) == HashOf(h, 3 * seed + 5 * count)

DgIsPrime(n) == n > 1 /\ \A d \in 2 .. n - 1 : n % d # 0

(* made is not in the code: how the last call left the group ("no": it     *)
(* failed).                                                                *)
DlgroupCreate ==
  [nBitsOfP |-> DgMaxBitsP, nBitsOfQ |-> DgMaxBitsQ, p |-> 0, q |-> 0, g |-> 0, hasQ |-> FALSE,
   safe |-> FALSE, minBits |-> 0, defaultBits |-> DgMaxBitsQ, nBitsOfSeed |-> DgMaxBitsQ,
   seed |-> 0, seedBuffer |-> TRUE, fips |-> "none", hash |-> NoHash, counter |-> 0, made |-> "no"]

DgInit == dgGroup = DlgroupCreate /\ dgStatus = "NO_ERROR"
-----------------------------------------------------------------------------
(* SymCryptDlgroupGeneratePrimeQ_FIPS: the candidate for Q.                *)
PrimeQ_FIPS(g, seed) ==
  LET N == g.nBitsOfQ
      digest == IF g.fips = "186-2"
                THEN HashOf(g.hash, seed) ^^ HashOf(g.hash, (seed + 1) % 2 ^ N)
                ELSE HashOf(g.hash, seed)
      low == digest % 2 ^ (N - 1)
  IN 2 ^ (N - 1) + (IF low % 2 = 0 THEN low + 1 ELSE low)

(* The number W for a value of the counter: as many hashes as fill P, the  *)
(* first at the low end, of the seed as it goes on counting.               *)
W_FIPS(g, seed, counter) ==
  LET chunks == (BytesOf(g.nBitsOfP) + BytesOf(DgHashBits) - 1) \div BytesOf(DgHashBits)
      first == seed + counter * chunks + (IF g.fips = "186-2" THEN 1 ELSE 0)
      f[j \in 0 .. chunks] ==
        IF j = 0 THEN 0
        ELSE f[j - 1] + 2 ^ (DgHashBits * (j - 1)) * HashOf(g.hash, (first + j) % 2 ^ g.nBitsOfSeed)
  IN f[chunks]

(* The candidate for P: the number next to W that is 1 modulo 2Q.          *)
CandidateP(g, seed, q, counter) ==
  LET near(X) == LET c == X % (2 * q) IN IF c = 0 THEN X + 1 ELSE X - (c - 1)
  IN near((W_FIPS(g, seed, counter) % 2 ^ (g.nBitsOfP - 1)) + 2 ^ (g.nBitsOfP - 1))

(* SymCryptDlgroupGeneratePrimeP_FIPS: the first counter up to a limit     *)
(* whose candidate still has its top bit and is prime.                     *)
PrimeP_FIPS(g, seed, q, maxCounter) ==
  LET good(p) == p >= 2 ^ (g.nBitsOfP - 1) /\ DgIsPrime(p)
      first(candidates) ==
        LET tries == {i \in 0 .. maxCounter : good(candidates[i])}
            i == CHOOSE x \in tries : \A y \in tries : x <= y
        IN IF tries = {} THEN [found |-> FALSE, p |-> 0, counter |-> 0]
           ELSE [found |-> TRUE, p |-> candidates[i], counter |-> i]
  IN first([i \in 0 .. maxCounter |-> CandidateP(g, seed, q, i)])

(* SymCryptDlgroupGenerateGenG_FIPS; count must not wrap.                  *)
GenG_FIPS(g, seed) ==
  LET power(count) == PowMod(HashForG(g.hash, seed, count) % g.p, (g.p - 1) \div g.q, g.p)
      good == {count \in 1 .. DgCountRange - 1 : power(count) \notin {0, 1}}
  IN IF (g.p - 1) % g.q # 0 THEN [status |-> "INVALID_ARGUMENT", g |-> g.g]
     ELSE IF good = {} THEN [status |-> "FIPS_FAILURE", g |-> power(DgCountRange - 1)]
     ELSE [status |-> "NO_ERROR", g |-> power(CHOOSE x \in good : \A y \in good : x <= y)]
-----------------------------------------------------------------------------
GroupFailed(g, status) == [group |-> [g EXCEPT !.made = "no"], status |-> status]
GroupMade(g, how) == [group |-> [g EXCEPT !.made = how], status |-> "NO_ERROR"]

(* The last step of SymCryptDlgroupGenerate, for P and Q that it made.     *)
GeneratedG(g) ==
  LET withG(G) == IF G.status = "NO_ERROR" THEN GroupMade([g EXCEPT !.g = G.g], "generated")
                  ELSE GroupFailed([g EXCEPT !.g = G.g], G.status)
  IN withG(GenG_FIPS(g, g.seed))

(* SymCryptDlgroupGenerate in an object that is no safe-prime group.       *)
DlgroupGenerate ==
  /\ dgGroup.seedBuffer /\ dgGroup.nBitsOfP = DgMaxBitsP
  /\ \E std \in {"186-2", "186-3"}, h \in DgHashAlgs \cup {NoHash} :
       IF (std = "186-2") # (h = NoHash)
       THEN dgStatus' = "INVALID_ARGUMENT" /\ UNCHANGED dgGroup
       ELSE LET bitsQ == IF dgGroup.nBitsOfQ = 0 THEN DgMaxBitsQ ELSE dgGroup.nBitsOfQ
                g == [dgGroup EXCEPT !.fips = std, !.hash = IF h = NoHash THEN DgSha1 ELSE h,
                        !.nBitsOfQ = bitsQ, !.nBitsOfSeed = bitsQ,
                        !.defaultBits = IF dgGroup.nBitsOfQ = 0 THEN bitsQ ELSE @]
            IN \E seed \in 0 .. 2 ^ bitsQ - 1 : \E q \in {PrimeQ_FIPS(g, seed)} :
                 /\ DgIsPrime(q)
                 /\ \E P \in {PrimeP_FIPS(g, seed, q, 4 * g.nBitsOfP - 1)} :
                      /\ P.found
                      /\ \E r \in {GeneratedG([g EXCEPT !.seed = seed, !.q = q, !.p = P.p,
                                                     !.counter = P.counter, !.hasQ = TRUE])} :
                           dgGroup' = r.group /\ dgStatus' = r.status

(* The fields of a named safe-prime group.                                 *)
AsNamed(g, named) ==
  [g EXCEPT !.p = named.p, !.q = (named.p - 1) \div 2, !.g = 2, !.hasQ = TRUE, !.safe = TRUE,
            !.fips = "none", !.minBits = named.minBits, !.defaultBits = named.defaultBits,
            !.hash = NoHash, !.counter = 0, !.nBitsOfSeed = 0, !.seed = 0, !.seedBuffer = FALSE,
            !.nBitsOfP = NumberBits(named.p), !.nBitsOfQ = NumberBits(named.p) - 1]

DlgroupSetValueSafePrime ==
  \E named \in DgNamedPrimes :
    IF NumberBits(named.p) > DgMaxBitsP \/ NumberBits(named.p) > DgMaxBitsQ + 1
    THEN dgStatus' = "INVALID_ARGUMENT" /\ UNCHANGED dgGroup
    ELSE LET r == GroupMade(AsNamed(dgGroup, named), "named")
         IN dgGroup' = r.group /\ dgStatus' = r.status
-----------------------------------------------------------------------------
(* SymCryptDlgroupAutoCompleteNamedSafePrimeGroup looks for the P that was *)
(* imported, when G is 2.                                                  *)
NamedLike(g) ==
  {named \in DgNamedPrimes : g.p % DgNamedMark = DgNamedMark - 1 /\ g.g = 2 /\ named.p = g.p}

(* Mutant: the counter that was given is not compared.                     *)
FipsVerifiedAnyCounter(g) ==
  LET P == PrimeP_FIPS(g, g.seed, g.q, g.counter)
  IN /\ PrimeQ_FIPS(g, g.seed) = g.q /\ DgIsPrime(g.q)
     /\ P.found /\ P.p = g.p
     /\ g.g \notin {0, 1}
     /\ ModExp(g.g, g.q, g.nBitsOfQ, g.p) = 1

(* The verification of SymCryptDlgroupSetValue: Q, P and the counter are   *)
(* generated again, G has the order Q.                                     *)
FipsVerified(g) ==
  LET P == PrimeP_FIPS(g, g.seed, g.q, g.counter)
  IN /\ PrimeQ_FIPS(g, g.seed) = g.q /\ DgIsPrime(g.q)
     /\ P = [found |-> TRUE, p |-> g.p, counter |-> g.counter]
     /\ g.g \notin {0, 1}
     /\ ModExp(g.g, g.q, g.nBitsOfQ, g.p) = 1

(* The fields that the import of Q sets, or of no Q.                       *)
WithQ(g, q) ==
  LET bits == NumberBits(q)
  IN [g EXCEPT !.q = q, !.nBitsOfQ = bits, !.defaultBits = bits, !.nBitsOfSeed = bits,
               !.hasQ = (q # NotGiven), !.safe = FALSE, !.minBits = 0]

(* The seeds that are drawn for an import: where neither G nor a seed is   *)
(* given, as many bytes as Q has.                                          *)
DrawnSeeds(in) ==
  IF in.g = NotGiven /\ in.seed = NoSeed THEN 0 .. 2 ^ (ByteBits * BytesOf(NumberBits(in.q))) - 1 ELSE {0}

(* The part of SymCryptDlgroupSetValue after P, Q and G: seed, counter, a  *)
(* generated G, the verification.                                          *)
DlgroupSetGeneration(g0, in, drawn) ==
  LET g1 == [g0 EXCEPT !.fips = in.fips]
      g2 == [g1 EXCEPT !.seed = IF in.seed # NoSeed THEN in.seed.v ELSE IF in.g = NotGiven THEN drawn ELSE @]
      g3 == [g2 EXCEPT !.counter = in.counter]
      G == GenG_FIPS(g3, g3.seed)
      g4 == IF in.g = NotGiven THEN [g3 EXCEPT !.g = G.g] ELSE g3
  IN IF in.seed # NoSeed /\ in.seed.cb # BytesOf(g1.nBitsOfSeed) THEN GroupFailed(g1, "INVALID_ARGUMENT")
     ELSE IF in.g = NotGiven /\ G.status # "NO_ERROR" THEN GroupFailed(g4, G.status)
     ELSE IF in.fips # "none" /\ ~FipsVerified(g4) THEN GroupFailed(g4, "AUTHENTICATION_FAILURE")
     ELSE GroupMade(g4, IF in.fips = "none" THEN "imported" ELSE "verified")

(* A number goes into as many digits as the largest one needs; what is     *)
(* left over is an error.                                                  *)
InDigits(n, maxBits) == n % 2 ^ (DigitBits * DigitsOf(maxBits))
FitsDigits(n, maxBits) == InDigits(n, maxBits) = n

(* SymCryptDlgroupSetValue in the order of its checks.                     *)
DlgroupSetValueResult(g, in, drawn) ==
  LET needs == in.q # NotGiven /\ in.seed # NoSeed /\ ((in.fips = "186-2") = (in.hash = NoHash))
      sha1 == in.fips = "186-2" \/ (in.hash = NoHash /\ in.g = NotGiven)
      g1 == [g EXCEPT !.hash = IF sha1 THEN DgSha1 ELSE in.hash, !.p = InDigits(in.p, DgMaxBitsP)]
      bitsP == NumberBits(in.p)
      g2 == [g1 EXCEPT !.nBitsOfP = bitsP, !.q = 0, !.seed = 0]
      bitsQ == NumberBits(in.q)
      g3 == WithQ(g2, in.q)
      g4 == IF in.g = NotGiven THEN g3 ELSE [g3 EXCEPT !.g = in.g % in.p]
  IN IF in.g = NotGiven /\ in.q = NotGiven THEN [group |-> g, status |-> "INVALID_ARGUMENT"]
     ELSE IF in.fips # "none" /\ ~needs THEN [group |-> g, status |-> "AUTHENTICATION_FAILURE"]
     ELSE IF ~FitsDigits(in.p, DgMaxBitsP) THEN GroupFailed(g1, "BUFFER_TOO_SMALL")
     ELSE IF bitsP > DgMaxBitsP THEN GroupFailed(g1, "INVALID_ARGUMENT")
     ELSE IF bitsP < DgMinBitsP THEN GroupFailed(g1, "WRONG_KEY_SIZE")
     ELSE IF in.fips # "none" /\ in.counter > 4 * bitsP - 1 THEN GroupFailed(g1, "AUTHENTICATION_FAILURE")
     ELSE IF in.p % 2 = 0 THEN GroupFailed(g1, "INVALID_ARGUMENT")
     ELSE IF ~FitsDigits(in.q, DgMaxBitsQ) THEN GroupFailed(g2, "BUFFER_TOO_SMALL")
     ELSE IF in.q # NotGiven /\ bitsQ > DgMaxBitsQ THEN GroupFailed(g2, "INVALID_ARGUMENT")
     ELSE IF in.q # NotGiven /\ bitsQ < DgMinBitsQ THEN GroupFailed(g2, "WRONG_KEY_SIZE")
     ELSE IF in.q # NotGiven /\ in.q % 2 = 0 THEN GroupFailed(g2, "INVALID_ARGUMENT")
     ELSE IF in.g # NotGiven /\ NamedLike(g4) # {}
     THEN IF g.fips # "none" THEN GroupFailed(g4, "INVALID_ARGUMENT")
          ELSE GroupMade(AsNamed(g4, CHOOSE n \in NamedLike(g4) : TRUE),
                         IF in.fips = "none" THEN "named" ELSE "verified")
     ELSE DlgroupSetGeneration(g4, in, drawn)

(* Into an object that has been a safe-prime group, and so has no buffer   *)
(* for a seed, no group with a seed is imported.                           *)
DlgroupSetValue ==
  \E in \in DgImports :
    /\ dgGroup.seedBuffer \/ (in.seed = NoSeed /\ in.g # NotGiven /\ in.q = NotGiven)
    /\ \E drawn \in DrawnSeeds(in) :
         \E r \in {DlgroupSetValueResult(dgGroup, in, drawn)} : dgGroup' = r.group /\ dgStatus' = r.status

DgNext == DlgroupGenerate \/ DlgroupSetValueSafePrime \/ DlgroupSetValue

DgSpec == DgInit /\ [][DgNext]_dgVars
-----------------------------------------------------------------------------
(* What SymCryptDlgroupGetValue returns, as the input of an import.        *)
Exported(g) ==
  [p |-> g.p, q |-> g.q, g |-> g.g, hash |-> IF g.fips = "186-2" THEN NoHash ELSE g.hash,
   seed |-> [v |-> g.seed, cb |-> BytesOf(g.nBitsOfSeed)], counter |-> g.counter, fips |-> g.fips]

(* A generated group is one: Q divides P - 1, G has the order Q.  And a    *)
(* fresh object that imports it with the verification of its standard      *)
(* accepts it; with another counter it is refused.                         *)
DgGeneratedVerifies ==
  (dgGroup.made = "generated") =>
    /\ DgIsPrime(dgGroup.p) /\ DgIsPrime(dgGroup.q) /\ NumberBits(dgGroup.p) = dgGroup.nBitsOfP
    /\ (dgGroup.p - 1) % dgGroup.q = 0
    /\ dgGroup.g # 1 /\ PowMod(dgGroup.g, dgGroup.q, dgGroup.p) = 1
    /\ DlgroupSetValueResult(DlgroupCreate, Exported(dgGroup), 0).status = "NO_ERROR"
    /\ \A c \in {dgGroup.counter - 1, dgGroup.counter + 1} \cap Nat :
         DlgroupSetValueResult(DlgroupCreate, [Exported(dgGroup) EXCEPT !.counter = c], 0).status
           = "AUTHENTICATION_FAILURE"

(* After a call that succeeds, whatever group the object held before, the  *)
(* sizes kept beside the numbers are theirs, there is a Q just when the    *)
(* flag says so, and the private key lengths of a safe-prime group are     *)
(* within Q; a group of another kind has none of its own.                  *)
DgFieldsMatch ==
  (dgGroup.made # "no") =>
    /\ dgGroup.nBitsOfP = NumberBits(dgGroup.p) /\ dgGroup.nBitsOfQ = NumberBits(dgGroup.q)
    /\ dgGroup.hasQ <=> dgGroup.q # 0
    /\ dgGroup.minBits <= dgGroup.defaultBits /\ dgGroup.defaultBits <= dgGroup.nBitsOfQ
    /\ IF dgGroup.safe THEN dgGroup.p = 2 * dgGroup.q + 1 /\ dgGroup.fips = "none"
       ELSE dgGroup.minBits = 0 /\ dgGroup.defaultBits = dgGroup.nBitsOfQ

(* Whatever group an object held before, one that was generated passes the *)
(* verification of its own standard, although generation stops at the      *)
(* first counter that works and verification at the counter it is given,   *)
(* and every field that a call leaves belongs to the new group.            *)
DgGroupIsSound == DgGeneratedVerifies /\ DgFieldsMatch

(* inc/symcrypt.h of SymCryptDlgroupSetValue: with a FIPS standard "the    *)
(* algorithm verifies that the input P,Q,G parameters are properly         *)
(* generated by the corresponding standard".                               *)
DgImportVerified == (dgGroup.made = "verified") => FipsVerified(dgGroup)
=============================================================================
