---------------------------- MODULE KeyDerivation ----------------------------
(***************************************************************************)
(* The key derivation functions over a MAC: HKDF (lib/hkdf.c), PBKDF2      *)
(* (lib/pbkdf2.c), SP800-108 in counter mode (lib/sp800_108.c) and the     *)
(* PRFs of TLS 1.0/1.1 and 1.2 (lib/tlsprf.c).  The MAC is a parameter.    *)
(* A key is expanded once and then used for any number of derivations.     *)
(***************************************************************************)
EXTENDS Integers, Sequences, Bitwise

CONSTANTS
  KdByte,             \* 256: the number of values of a byte
  KdMac(_, _, _),     \* the MAC of an algorithm, a key and a message
  KdResultSize,       \* resultSize, of the algorithms "mac", "md5" and "sha1"
  KdChunk,            \* SYMCRYPT_TLS_1_1_CHUNK_SIZE
  KdMaxLabel, KdMaxSeed,   \* SYMCRYPT_TLS_MAX_LABEL_SIZE, SYMCRYPT_TLS_MAX_SEED_SIZE
  KdKeys, KdSalts, KdLabels, KdContexts,    \* byte strings
  KdIterations,       \* iteration counts of PBKDF2
  KdLengths           \* lengths of results

ASSUME KeyDerivationAssumption ==
  /\ KdByte \in Nat \ {0, 1}
  /\ KdChunk % KdResultSize["md5"] = 0 /\ KdChunk % KdResultSize["sha1"] = 0

VARIABLES
  kdKey,    \* the expanded key, with the inputs it was made from
  kdAsked,  \* the inputs of the last derivation
  kdGiven   \* its status and result

kdVars == <<kdKey, kdAsked, kdGiven>>

KdLabelAbsent == <<-1>>       \* cbLabel == (SIZE_T) -1

Lesser(m, n) == IF m < n THEN m ELSE n
CeilDiv(n, d) == (n + d - 1) \div d

(* SYMCRYPT_STORE_MSBFIRST32, of a UINT32.                                 *)
StoreMsbFirst32(n) == [i \in 1 .. 4 |-> (n \div KdByte ^ (4 - i)) % KdByte]
KdUint32Max == KdByte ^ 4 - 1

XorBytes(a, b) == [i \in 1 .. Len(a) |-> a[i] ^^ b[i]]

KdOk(result) == [status |-> "NO_ERROR", result |-> result]
KdError(status) == [status |-> status, result |-> <<>>]
-----------------------------------------------------------------------------
(* HKDF.                                                                   *)
HkdfExtractPrk(ikm, salt) == KdMac("mac", salt, ikm)

(* memcpy of at most the bytes that are left to be written.                *)
HkdfStored(partial, left) == SubSeq(partial, 1, Lesser(left, Len(partial)))

HkdfDerive(macKey, info, cbResult) ==
  LET size == KdResultSize["mac"]
      nBlocks == IF cbResult <= size THEN 1 ELSE CeilDiv(cbResult, size)
      T[i \in 1 .. nBlocks] ==
        IF i = 1 THEN LET partial == KdMac("mac", macKey, info \o <<1>>)
                      IN [partial |-> partial, out |-> HkdfStored(partial, cbResult)]
        ELSE LET before == T[i - 1]
                 partial == KdMac("mac", macKey, (before.partial \o info) \o <<i % KdByte>>)
             IN [partial |-> partial,
                 out |-> before.out \o HkdfStored(partial, cbResult - (i - 1) * size)]
  IN IF cbResult > (KdByte - 1) * size THEN KdError("WRONG_DATA_SIZE") ELSE KdOk(T[nBlocks].out)
-----------------------------------------------------------------------------
(* PBKDF2.  The buffer of the block holds its number, then the first MAC,  *)
(* to which the other iterations are added.                                *)
Pbkdf2Block(macKey, salt, iterationCnt, iBlock) ==
  LET rounds[i \in 1 .. iterationCnt] ==
        IF i = 1 THEN LET first == KdMac("mac", macKey, salt \o StoreMsbFirst32(iBlock))
                      IN [work |-> first, block |-> first]
        ELSE LET before == rounds[i - 1]
                 work == KdMac("mac", macKey, before.work)
             IN [work |-> work, block |-> XorBytes(work, before.block)]
  IN rounds[iterationCnt].block

Pbkdf2Derive(macKey, salt, iterationCnt, cbResult) ==
  LET size == KdResultSize["mac"]
      written[k \in 0 .. CeilDiv(cbResult, size)] ==
        IF k = 0 THEN <<>>
        ELSE LET before == written[k - 1]
             IN before \o SubSeq(Pbkdf2Block(macKey, salt, iterationCnt, k % (KdUint32Max + 1)),
                                 1, Lesser(cbResult - Len(before), size))
  IN IF iterationCnt = 0 THEN KdError("WRONG_ITERATION_COUNT") ELSE KdOk(written[CeilDiv(cbResult, size)])
-----------------------------------------------------------------------------
(* SP800-108.  Without a label the context is the generic parameter.       *)
Sp800_108Input(label, context, iBlock, cbResult) ==
  ((StoreMsbFirst32(iBlock) \o (IF label = KdLabelAbsent THEN <<>> ELSE Append(label, 0)))
     \o context) \o StoreMsbFirst32((8 * cbResult) % (KdUint32Max + 1))

Sp800_108Derive(macKey, label, context, cbResult) ==
  LET size == KdResultSize["mac"]
      written[k \in 0 .. CeilDiv(cbResult, size)] ==
        IF k = 0 THEN <<>>
        ELSE LET before == written[k - 1]
             IN before \o SubSeq(KdMac("mac", macKey, Sp800_108Input(label, context, k % (KdUint32Max + 1), cbResult)),
                                 1, Lesser(cbResult - Len(before), size))
  IN IF cbResult > KdUint32Max \div 8 THEN KdError("INVALID_ARGUMENT")
     ELSE KdOk(written[CeilDiv(cbResult, size)])
-----------------------------------------------------------------------------
(* TLS.  The halves of the secret share its middle byte if it is odd.      *)
TlsPrf1_1ExpandKey(key) ==
  LET cbHalfSecret == Len(key) \div 2
      cbKeySize == cbHalfSecret + (Len(key) % 2)
  IN [md5 |-> SubSeq(key, 1, cbKeySize), sha1 |-> SubSeq(key, cbHalfSecret + 1, cbHalfSecret + cbKeySize)]

TlsPrfMac(alg, macKey, ai, seed) == KdMac(alg, macKey, ai \o seed)

(* SymCryptTlsPrfPHash: the result and the A(i) behind it.  aiIn is <<>>   *)
(* for the first A(i).                                                     *)
TlsPrfPHash(alg, macKey, seed, aiIn, cbResult) ==
  LET size == KdResultSize[alg]
      first == IF aiIn = <<>> THEN TlsPrfMac(alg, macKey, seed, <<>>) ELSE aiIn
      loop[k \in 0 .. CeilDiv(cbResult, size)] ==
        IF k = 0 THEN [out |-> <<>>, ai |-> first]
        ELSE LET before == loop[k - 1]
                 partial == TlsPrfMac(alg, macKey, before.ai, seed)
             IN [out |-> before.out \o SubSeq(partial, 1, Lesser(cbResult - Len(before.out), size)),
                 ai |-> TlsPrfMac(alg, macKey, before.ai, <<>>)]
  IN loop[CeilDiv(cbResult, size)]

TlsSizesOK(label, seed) == Len(label) <= KdMaxLabel /\ Len(seed) <= KdMaxSeed

(* Mutant: every chunk starts from the first A(i).                         *)
TlsNextAiRestarts(ai, hash) == ai

(* The A(i) that the next chunk continues from.                            *)
TlsNextAi(ai, hash) == hash.ai

TlsPrf1_1Derive(keys, label, seed, cbResult) ==
  LET both == label \o seed
      chunks[k \in 0 .. CeilDiv(cbResult, KdChunk)] ==
        IF k = 0 THEN [out |-> <<>>, md5 |-> TlsPrfMac("md5", keys.md5, both, <<>>),
                       sha1 |-> TlsPrfMac("sha1", keys.sha1, both, <<>>)]
        ELSE LET before == chunks[k - 1]
                 n == Lesser(cbResult - Len(before.out), KdChunk)
                 pMd5 == TlsPrfPHash("md5", keys.md5, both, before.md5, n)
                 pSha1 == TlsPrfPHash("sha1", keys.sha1, both, before.sha1, n)
             IN [out |-> before.out \o XorBytes(pMd5.out, pSha1.out),
                 md5 |-> TlsNextAi(before.md5, pMd5), sha1 |-> TlsNextAi(before.sha1, pSha1)]
  IN IF ~TlsSizesOK(label, seed) THEN KdError("WRONG_DATA_SIZE")
     ELSE KdOk(chunks[CeilDiv(cbResult, KdChunk)].out)

TlsPrf1_2Derive(macKey, label, seed, cbResult) ==
  IF ~TlsSizesOK(label, seed) THEN KdError("WRONG_DATA_SIZE")
  ELSE KdOk(TlsPrfPHash("mac", macKey, label \o seed, <<>>, cbResult).out)
-----------------------------------------------------------------------------
KdKinds == {"hkdf", "hkdf_prk", "pbkdf2", "sp800_108", "tls1_1", "tls1_2"}

KeyDerivationInit ==
  /\ kdKey = [kind |-> "none", key |-> <<>>, salt |-> <<>>, expanded |-> <<>>]
  /\ kdAsked = [label |-> <<>>, context |-> <<>>, iterations |-> 0, cbResult |-> 0]
  /\ kdGiven = KdError("none")

(* SymCryptHkdfExpandKey, SymCryptHkdfPrkExpandKey, and the ExpandKey of   *)
(* the others: the expanded key of a MAC is the key.                       *)
KdExpanded(kind, key, salt) ==
  CASE kind = "hkdf" -> HkdfExtractPrk(key, salt)
    [] kind = "tls1_1" -> TlsPrf1_1ExpandKey(key)
    [] OTHER -> key

KdExpandKey(kind, key, salt) ==
  /\ kdKey.kind = "none"
  /\ kdKey' = [kind |-> kind, key |-> key, salt |-> salt, expanded |-> KdExpanded(kind, key, salt)]
  /\ UNCHANGED <<kdAsked, kdGiven>>

KdDerived(kind, expanded, label, context, iterations, cbResult) ==
  CASE kind \in {"hkdf", "hkdf_prk"} -> HkdfDerive(expanded, context, cbResult)
    [] kind = "pbkdf2" -> Pbkdf2Derive(expanded, context, iterations, cbResult)
    [] kind = "sp800_108" -> Sp800_108Derive(expanded, label, context, cbResult)
    [] kind = "tls1_1" -> TlsPrf1_1Derive(expanded, label, context, cbResult)
    [] kind = "tls1_2" -> TlsPrf1_2Derive(expanded, label, context, cbResult)

KdTakesLabel(kind) == kind \in {"sp800_108", "tls1_1", "tls1_2"}

(* A derivation: the assertions ask PBKDF2 and SP800-108 for cbResult > 0. *)
(* It only reads the expanded key, so a behaviour has one.                 *)
KdDerive(label, context, iterations, cbResult) ==
  /\ kdKey.kind # "none" /\ kdGiven = KdError("none")
  /\ kdKey.kind \in {"pbkdf2", "sp800_108"} => cbResult > 0
  /\ label = KdLabelAbsent => kdKey.kind = "sp800_108"
  /\ ~KdTakesLabel(kdKey.kind) => label = <<>>
  /\ kdKey.kind # "pbkdf2" => iterations = 1
  /\ kdAsked' = [label |-> label, context |-> context, iterations |-> iterations, cbResult |-> cbResult]
  /\ kdGiven' = KdDerived(kdKey.kind, kdKey.expanded, label, context, iterations, cbResult)
  /\ UNCHANGED kdKey

KeyDerivationNext ==
  \/ \E kind \in KdKinds, key \in KdKeys, salt \in KdSalts : KdExpandKey(kind, key, salt)
  \/ \E label \in KdLabels \cup {KdLabelAbsent}, context \in KdContexts, iterations \in KdIterations,
        cbResult \in KdLengths : KdDerive(label, context, iterations, cbResult)
-----------------------------------------------------------------------------
(* The standards, block by block.  RFC 5869: OKM is the first bytes of     *)
(* T(1) | T(2) | ...; RFC 8018: block i is the sum of U1, U2, ...;         *)
(* SP800-108: K(i) = PRF(i | label | 0 | context | L); RFC 2246, 5246:     *)
(* P_hash is HMAC(A(1) + seed) | HMAC(A(2) + seed) | ...  Byte p of a      *)
(* result is byte ((p-1) % size) + 1 of block ((p-1) \div size) + 1.       *)
OfBlocks(Block(_), size, n) == [p \in 1 .. n |-> Block(((p - 1) \div size) + 1)[((p - 1) % size) + 1]]

RefHkdf(prk, info, n) ==
  LET T[i \in Nat] == IF i = 0 THEN <<>> ELSE KdMac("mac", prk, T[i - 1] \o info \o <<i>>)
      block(i) == T[i]
  IN OfBlocks(block, KdResultSize["mac"], n)

RefPbkdf2(key, salt, c, n) ==
  LET U[i \in Nat, j \in Nat] == KdMac("mac", key, IF j = 1 THEN salt \o StoreMsbFirst32(i) ELSE U[i, j - 1])
      sum[i \in Nat, j \in Nat] == IF j = 1 THEN U[i, 1] ELSE XorBytes(sum[i, j - 1], U[i, j])
      block(i) == sum[i, c]
  IN OfBlocks(block, KdResultSize["mac"], n)

RefSp800_108(key, label, context, n) ==
  LET fixed == IF label = KdLabelAbsent THEN context ELSE label \o <<0>> \o context
      block(i) == KdMac("mac", key, StoreMsbFirst32(i) \o fixed \o StoreMsbFirst32(8 * n))
  IN OfBlocks(block, KdResultSize["mac"], n)

RefPHash(alg, key, seed, n) ==
  LET A[i \in Nat] == IF i = 0 THEN seed ELSE KdMac(alg, key, A[i - 1])
      block(i) == KdMac(alg, key, A[i] \o seed)
  IN OfBlocks(block, KdResultSize[alg], n)

RefTls1_1(key, seed, n) ==
  LET half == CeilDiv(Len(key), 2)
  IN XorBytes(RefPHash("md5", SubSeq(key, 1, half), seed, n),
              RefPHash("sha1", SubSeq(key, Len(key) - half + 1, Len(key)), seed, n))

(* Property.  A derivation gives the bytes that its standard defines from  *)
(* the original key, also if the length is no multiple of the block, of    *)
(* the chunk or if the key is odd, and however often the expanded key was  *)
(* used; it fails exactly if the standard has no such result or the inputs *)
(* are longer than the library takes.                                      *)
KdfIsReference ==
  LET n == kdAsked.cbResult
      kind == kdKey.kind
      both == kdAsked.label \o kdAsked.context
      impossible == \/ kind \in {"hkdf", "hkdf_prk"} /\ n > (KdByte - 1) * KdResultSize["mac"]
                    \/ kind = "pbkdf2" /\ kdAsked.iterations = 0
                    \/ kind = "sp800_108" /\ 8 * n > KdUint32Max
                    \/ kind \in {"tls1_1", "tls1_2"} /\ ~TlsSizesOK(kdAsked.label, kdAsked.context)
      expected ==
        CASE kind = "hkdf" -> RefHkdf(KdMac("mac", kdKey.salt, kdKey.key), kdAsked.context, n)
          [] kind = "hkdf_prk" -> RefHkdf(kdKey.key, kdAsked.context, n)
          [] kind = "pbkdf2" -> RefPbkdf2(kdKey.key, kdAsked.context, kdAsked.iterations, n)
          [] kind = "sp800_108" -> RefSp800_108(kdKey.key, kdAsked.label, kdAsked.context, n)
          [] kind = "tls1_1" -> RefTls1_1(kdKey.key, both, n)
          [] kind = "tls1_2" -> RefPHash("mac", kdKey.key, both, n)
  IN kdGiven.status # "none" =>
       IF impossible THEN kdGiven.status # "NO_ERROR"
       ELSE kdGiven.status = "NO_ERROR" /\ kdGiven.result = expected
=============================================================================
