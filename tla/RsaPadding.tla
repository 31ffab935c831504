------------------------------ MODULE RsaPadding ------------------------------
(***************************************************************************)
(* RSA encryption and signatures with their paddings: PKCS #1 v1.5, OAEP   *)
(* and PSS (lib/rsa_padding.c, lib/rsa_enc.c).  The exponentiations are    *)
(* left out: RsaKeys shows that they invert each other on the numbers      *)
(* below the modulus, so a ciphertext or signature is the padded buffer it *)
(* stands for.  The hash function is a parameter.                          *)
(***************************************************************************)
EXTENDS ConstantTime, Bitwise

CONSTANTS
  RpBits,         \* 8: the bits of a byte
  RpHash(_),      \* the hash function
  RpHashSize,     \* SymCryptHashResultSize
  RpMinPS,        \* 8: the least number of padding bytes of PKCS #1
  RpMaxEncoding,  \* 0x80: the greatest encoding of a hash that is signed
  RpPssZeroes,    \* 8: the zeroes before the hash in M'
  RpFF, RpBC, RpSequence, RpOctetString,   \* the bytes 0xff, 0xbc, 0x30 and 0x04
  RpKeys,         \* records nBitsOfModulus, hasPrivateKey
  RpMessages, RpLabels, RpHashes, RpOids,   \* byte strings
  RpOidLists,     \* lists of OIDs, the empty one among them
  RpFills,        \* random non-zero bytes
  RpSeeds,        \* random strings as long as a hash
  RpSaltSizes, RpRooms,   \* lengths of salts, of output buffers
  RpPlaces,       \* where a byte is changed
  RpChanges       \* values that it is changed to

ASSUME RsaPaddingAssumption ==
  /\ RpFF = 2 ^ RpBits - 1 /\ RpBC % 2 = 0 /\ 0 \notin RpFills
  /\ \A seed \in RpSeeds : Len(seed) = RpHashSize
  /\ \A n \in RpSaltSizes : n <= RpHashSize
  /\ <<>> \in RpOidLists

VARIABLES
  rpKey,      \* the key
  rpScheme,   \* the scheme and the inputs of the last encryption or signature
  rpText,     \* its result, which may have been changed since
  rpDone      \* the last decryption or verification: inputs, status and result

rpVars == <<rpKey, rpScheme, rpText, rpDone>>

RpByte == 2 ^ RpBits
RpJunk == RpByte          \* a byte that was never written

(* SymCryptRsakeySizeofModulus.                                            *)
RsakeySizeofModulus(key) == (key.nBitsOfModulus + RpBits - 1) \div RpBits

RpZeroBytes(n) == [i \in 1 .. n |-> 0]
RpXor(a, b) == [i \in 1 .. Len(a) |-> a[i] ^^ b[i]]
RpOk(text) == [status |-> "NO_ERROR", text |-> text]
RpError(status) == [status |-> status, text |-> <<>>]
-----------------------------------------------------------------------------
(* SymCryptRsaPaddingMaskGeneration: the count is stored in its last byte  *)
(* only while that is enough.                                              *)
RsaMgfCount(i, nIterations) ==
  IF nIterations < RpByte THEN <<0, 0, 0, i % RpByte>>
  ELSE [j \in 1 .. 4 |-> (i \div RpByte ^ (4 - j)) % RpByte]

RsaPaddingMaskGeneration(src, cbDst) ==
  LET nIterations == (cbDst + RpHashSize - 1) \div RpHashSize
      mask[i \in 0 .. nIterations] ==
        IF i = 0 THEN <<>>
        ELSE LET before == mask[i - 1]
             IN before \o SubSeq(RpHash(src \o RsaMgfCount(i - 1, nIterations)), 1,
                                 SmallerOf(RpHashSize, cbDst - Len(before)))
  IN mask[nIterations]
-----------------------------------------------------------------------------
(* PKCS #1 encryption: 00 02 PS 00 M.                                      *)
RsaPkcs1ApplyEncryptionPadding(plaintext, ps, cbFormat) ==
  IF cbFormat < Len(plaintext) + 3 + RpMinPS THEN RpError("INVALID_ARGUMENT")
  ELSE RpOk((<<0, 2>> \o [i \in 1 .. cbFormat - (Len(plaintext) + 3) |-> ps] \o <<0>>) \o plaintext)

(* Mutant: the first zero may come one byte too early.                     *)
Pkcs1TooEarlyOff(iFirstZero) == iFirstZero < 1 + RpMinPS

(* The padding is too short: it starts at index 2.                         *)
Pkcs1TooEarly(iFirstZero) == iFirstZero < 2 + RpMinPS

(* SymCryptRsaPkcs1RemoveEncryptionPadding: format is the whole buffer,    *)
(* rotated so that the message comes first; dst is <<>> if only the size   *)
(* is asked for.                                                           *)
RsaPkcs1RemoveEncryptionPadding(format, cbFormat, dst, sizeOnly) ==
  LET zeroes == {i \in 2 .. cbFormat - 1 : format[i + 1] = 0}
      iFirstZero == IF zeroes = {} THEN 0 ELSE CHOOSE i \in zeroes : \A j \in zeroes : i <= j
      paddingError == format[1] # 0 \/ format[2] # 2 \/ zeroes = {} \/ Pkcs1TooEarly(iFirstZero)
      cbPlaintext == IF paddingError THEN 0 ELSE cbFormat - iFirstZero - 1
      rotated == ScsRotateBuffer(format, (iFirstZero + 1) % Len(format))
      tooSmall == ~sizeOnly /\ Len(dst) < cbPlaintext
  IN IF cbFormat < 3 + RpMinPS THEN [status |-> "INVALID_ARGUMENT", size |-> 0, dst |-> dst]
     ELSE [status |-> IF paddingError THEN "INVALID_ARGUMENT" ELSE IF tooSmall THEN "BUFFER_TOO_SMALL" ELSE "NO_ERROR",
           size |-> cbPlaintext,
           dst |-> IF sizeOnly THEN dst ELSE ScsCopy(rotated, cbPlaintext, dst, SmallerOf(Len(dst), cbFormat))]
-----------------------------------------------------------------------------
(* OAEP: a zero, the masked seed and the masked DB.                        *)
OaepMasked(DB, seed) ==
  LET maskedDB == RpXor(DB, RsaPaddingMaskGeneration(seed, Len(DB)))
  IN (<<0>> \o RpXor(seed, RsaPaddingMaskGeneration(maskedDB, RpHashSize))) \o maskedDB

OaepSeed(format) ==
  RpXor(SubSeq(format, 2, RpHashSize + 1),
        RsaPaddingMaskGeneration(SubSeq(format, RpHashSize + 2, Len(format)), RpHashSize))
OaepDB(format) ==
  LET maskedDB == SubSeq(format, RpHashSize + 2, Len(format))
  IN RpXor(maskedDB, RsaPaddingMaskGeneration(OaepSeed(format), Len(maskedDB)))

RsaOaepApplyEncryptionPadding(plaintext, label, seed, cbFormat) ==
  LET cbPS == cbFormat - (Len(plaintext) + 2 * RpHashSize + 2)
      DB == (RpHash(label) \o RpZeroBytes(cbPS) \o <<1>>) \o plaintext
  IN IF cbPS < 0 THEN RpError("INVALID_ARGUMENT") ELSE RpOk(OaepMasked(DB, seed))

(* The size is stored before the room is looked at.                        *)
RsaOaepRemoveEncryptionPadding(format, label, dst, sizeOnly) ==
  LET cbDB == Len(format) - (RpHashSize + 1)
      DB == OaepDB(format)
      stops == {i \in RpHashSize + 1 .. cbDB : DB[i] # 0}
      stop == CHOOSE i \in stops : \A j \in stops : i <= j
      cnt == IF stops = {} THEN cbDB ELSE stop
      badPS == stops # {} /\ DB[stop] # 1
      fails == [status |-> "INVALID_ARGUMENT", size |-> 0, dst |-> dst]
  IN IF Len(format) < 2 * RpHashSize + 2 THEN fails
     ELSE IF format[1] # 0 \/ SubSeq(DB, 1, RpHashSize) # RpHash(label) \/ badPS THEN fails
     ELSE IF sizeOnly THEN [status |-> "NO_ERROR", size |-> cbDB - cnt, dst |-> dst]
     ELSE IF Len(dst) < cbDB - cnt THEN [status |-> "BUFFER_TOO_SMALL", size |-> cbDB - cnt, dst |-> dst]
     ELSE [status |-> "NO_ERROR", size |-> cbDB - cnt,
           dst |-> ScsCopy(SubSeq(DB, cnt + 1, cbDB), cbDB - cnt, dst, Len(dst))]
-----------------------------------------------------------------------------
(* PKCS #1 signatures: 00 01 FF .. FF 00 and the encoding of the hash.     *)
(* oid is <<>> if there is none.                                           *)
RsaPkcs1Encoding(hash, oid, noAsn1) ==
  LET octets == <<RpOctetString, Len(hash)>> \o hash
      inner == <<RpSequence, Len(oid)>> \o oid \o octets
  IN IF noAsn1 THEN hash ELSE IF oid = <<>> THEN octets ELSE <<RpSequence, Len(inner)>> \o inner

RsaPkcs1ApplySignaturePadding(hash, oid, noAsn1, cbFormat) ==
  LET encoding == RsaPkcs1Encoding(hash, oid, noAsn1)
  IN IF Len(encoding) > RpMaxEncoding \/ 3 + RpMinPS + Len(encoding) > cbFormat THEN RpError("INVALID_ARGUMENT")
     ELSE RpOk((<<0, 1>> \o [i \in 1 .. cbFormat - 3 - Len(encoding) |-> RpFF] \o <<0>>) \o encoding)

RsaPkcs1CheckSignaturePadding(hash, oid, format, noAsn1) ==
  LET made == RsaPkcs1ApplySignaturePadding(hash, oid, noAsn1, Len(format))
  IN IF made.status # "NO_ERROR" THEN made.status
     ELSE IF made.text = format THEN "NO_ERROR" ELSE "SIGNATURE_VERIFICATION_FAILURE"

(* Whether the hash alone is compared: if no array of OIDs is given, or if *)
(* none of them matched and they are optional.                             *)
Pkcs1WithoutOid(given, status, optional) == ~given \/ (status # "NO_ERROR" /\ optional)

(* pHashOIDs is NULL if ~given, and then oids is <<>>.  The status starts  *)
(* as NO_ERROR, and stays so if the array that is given has no OID.        *)
RsaPkcs1VerifySignaturePadding(hash, given, oids, format, optional) ==
  LET tried[i \in 0 .. Len(oids)] ==
        IF i = 0 THEN "NO_ERROR"
        ELSE LET before == tried[i - 1]
             IN IF i > 1 /\ before = "NO_ERROR" THEN before
                ELSE RsaPkcs1CheckSignaturePadding(hash, oids[i], format, FALSE)
      status == tried[Len(oids)]
  IN IF Pkcs1WithoutOid(given, status, optional) THEN RsaPkcs1CheckSignaturePadding(hash, <<>>, format, TRUE)
     ELSE status
-----------------------------------------------------------------------------
(* PSS.  A modulus of 1 bit more than whole bytes has an encoding of one   *)
(* byte less, behind a zero.                                               *)
PssShort(nBits) == nBits % RpBits = 1
PssHash(hash, salt) == RpHash((RpZeroBytes(RpPssZeroes) \o hash) \o salt)
PssZeroBits(cbFormat, nBits) == RpBits * cbFormat + 1 - nBits

RsaPssApplySignaturePadding(hash, salt, nBits, cbWhole) ==
  LET cbFormat == IF PssShort(nBits) THEN cbWhole - 1 ELSE cbWhole
      cbDB == cbFormat - (RpHashSize + 1)
      DB == (RpZeroBytes(cbDB - Len(salt) - 1) \o <<1>>) \o salt
      H == PssHash(hash, salt)
      masked == RpXor(DB, RsaPaddingMaskGeneration(H, cbDB))
      first == masked[1] % 2 ^ (RpBits - PssZeroBits(cbFormat, nBits))
      EM == ((<<first>> \o Tail(masked)) \o H) \o <<RpBC>>
  IN IF cbFormat < RpHashSize + Len(salt) + 2 THEN RpError("INVALID_ARGUMENT")
     ELSE RpOk(IF PssShort(nBits) THEN <<0>> \o EM ELSE EM)

RsaPssVerifySignaturePadding(hash, cbSalt, whole, nBits) ==
  LET format == IF PssShort(nBits) THEN Tail(whole) ELSE whole
      room == 2 ^ (RpBits - PssZeroBits(Len(format), nBits))
      cbDB == Len(format) - (RpHashSize + 1)
      H == SubSeq(format, cbDB + 1, cbDB + RpHashSize)
      unmasked == RpXor(SubSeq(format, 1, cbDB), RsaPaddingMaskGeneration(H, cbDB))
      DB == <<unmasked[1] % room>> \o Tail(unmasked)
      salt == SubSeq(DB, cbDB - cbSalt + 1, cbDB)
      failed == \/ PssShort(nBits) /\ whole[1] # 0
                \/ Len(format) < RpHashSize + cbSalt + 2
                \/ format[1] \div room # 0 \/ format[Len(format)] # RpBC
                \/ \E i \in 1 .. cbDB - cbSalt - 1 : DB[i] # 0
                \/ DB[cbDB - cbSalt] # 1
                \/ H # PssHash(hash, salt)
  IN IF failed THEN "SIGNATURE_VERIFICATION_FAILURE" ELSE "NO_ERROR"
-----------------------------------------------------------------------------
RsaPaddingInit ==
  /\ rpKey \in RpKeys
  /\ rpScheme = [scheme |-> "none"]
  /\ rpText = <<>>
  /\ rpDone = [op |-> "none"]

(* A ciphertext or signature is made, or the call fails.                   *)
RpMade(scheme, made) ==
  /\ rpText = <<>>
  /\ made.status = "NO_ERROR"
  /\ rpText' = made.text /\ rpScheme' = scheme
  /\ UNCHANGED <<rpKey, rpDone>>

RsaPkcs1Encrypt(message, fill) ==
  RpMade([scheme |-> "pkcs1", message |-> message],
         RsaPkcs1ApplyEncryptionPadding(message, fill, RsakeySizeofModulus(rpKey)))

RsaOaepEncrypt(message, label, seed) ==
  RpMade([scheme |-> "oaep", message |-> message, label |-> label],
         RsaOaepApplyEncryptionPadding(message, label, seed, RsakeySizeofModulus(rpKey)))

(* SymCryptRsaRawEncrypt: the caller has padded.                           *)
RsaRawEncrypt(scheme, text) ==
  /\ RpMade([scheme |-> scheme], RpOk(text))
  /\ Len(text) = RsakeySizeofModulus(rpKey)

RsaPkcs1Sign(hash, oid, noAsn1) ==
  /\ rpKey.hasPrivateKey
  /\ RpMade([scheme |-> "pkcs1 signature", hash |-> hash, oid |-> oid, noAsn1 |-> noAsn1],
            RsaPkcs1ApplySignaturePadding(hash, oid, noAsn1, RsakeySizeofModulus(rpKey)))

RsaPssSign(hash, salt) ==
  /\ rpKey.hasPrivateKey
  /\ RpMade([scheme |-> "pss", hash |-> hash, salt |-> salt],
            RsaPssApplySignaturePadding(hash, salt, rpKey.nBitsOfModulus, RsakeySizeofModulus(rpKey)))

(* A byte of it is changed on its way, such that it still is a number of   *)
(* at most nBitsOfModulus bits.                                            *)
RpChange(p, v) ==
  /\ rpText # <<>> /\ p <= Len(rpText) /\ v # rpText[p] /\ rpDone.op = "none"
  /\ p = 1 => v < 2 ^ (rpKey.nBitsOfModulus - RpBits * (Len(rpText) - 1))
  /\ rpDone' = [op |-> "changed"]
  /\ rpText' = [rpText EXCEPT ![p] = v]
  /\ UNCHANGED <<rpKey, rpScheme>>

RpOpens(done) ==
  /\ rpText # <<>> /\ rpDone.op \in {"none", "changed"}
  /\ rpDone' = done
  /\ UNCHANGED <<rpKey, rpScheme, rpText>>
RpFresh(room) == [i \in 1 .. room |-> RpJunk]

(* SymCryptRsaPkcs1Decrypt: the buffer behind the modulus was never        *)
(* written, nor is the size without a private key.  A room of 0 stands for *)
(* no buffer, which asks for the size.                                     *)
RsaPkcs1Decrypt(room) ==
  LET cbModulus == RsakeySizeofModulus(rpKey)
      cbTmp == RoundUpPow2Sizet(cbModulus)
      removed == IF ~rpKey.hasPrivateKey THEN [status |-> "INVALID_ARGUMENT", size |-> RpJunk, dst |-> RpFresh(room)]
                 ELSE RsaPkcs1RemoveEncryptionPadding(rpText \o RpFresh(cbTmp - cbModulus), cbModulus, RpFresh(room), room = 0)
  IN RpOpens([op |-> "pkcs1", room |-> room, status |-> removed.status, size |-> removed.size, dst |-> removed.dst])

RsaOaepDecrypt(label, room) ==
  LET removed == IF ~rpKey.hasPrivateKey THEN [status |-> "INVALID_ARGUMENT", size |-> 0, dst |-> RpFresh(room)]
                 ELSE RsaOaepRemoveEncryptionPadding(rpText, label, RpFresh(room), room = 0)
  IN RpOpens([op |-> "oaep", label |-> label, room |-> room,
              status |-> removed.status, size |-> removed.size, dst |-> removed.dst])

RsaPkcs1Verify(hash, given, oids, optional) ==
  RpOpens([op |-> "pkcs1 signature", hash |-> hash, given |-> given, oids |-> oids, optional |-> optional,
           status |-> RsaPkcs1VerifySignaturePadding(hash, given, oids, rpText, optional)])

RsaPssVerify(hash, cbSalt) ==
  RpOpens([op |-> "pss", hash |-> hash, cbSalt |-> cbSalt,
           status |-> RsaPssVerifySignaturePadding(hash, cbSalt, rpText, rpKey.nBitsOfModulus)])

(* Blocks that only a caller who pads by himself makes: OAEP without its   *)
(* 0x01, PKCS #1 without the zero behind the padding.                      *)
RpOaepWithoutOne(label, seed) ==
  OaepMasked(RpHash(label) \o RpZeroBytes(RsakeySizeofModulus(rpKey) - 2 * RpHashSize - 1), seed)
RpPkcs1WithoutZero(fill) == [i \in 1 .. RsakeySizeofModulus(rpKey) |-> IF i = 1 THEN 0 ELSE IF i = 2 THEN 2 ELSE fill]

RsaPaddingNext ==
  \/ \E message \in RpMessages, fill \in RpFills : RsaPkcs1Encrypt(message, fill)
  \/ \E message \in RpMessages, label \in RpLabels, seed \in RpSeeds : RsaOaepEncrypt(message, label, seed)
  \/ \E label \in RpLabels, seed \in RpSeeds : RsaRawEncrypt("oaep", RpOaepWithoutOne(label, seed))
  \/ \E fill \in RpFills : RsaRawEncrypt("pkcs1", RpPkcs1WithoutZero(fill))
  \/ \E hash \in RpHashes, oid \in RpOids \cup {<<>>}, noAsn1 \in BOOLEAN : RsaPkcs1Sign(hash, oid, noAsn1)
  \/ \E hash \in RpHashes, seed \in RpSeeds, n \in RpSaltSizes : RsaPssSign(hash, SubSeq(seed, 1, n))
  \/ \E p \in RpPlaces, v \in RpChanges : RpChange(p, v)
  \/ \E room \in RpRooms : rpScheme.scheme = "pkcs1" /\ RsaPkcs1Decrypt(room)
  \/ \E label \in RpLabels, room \in RpRooms : rpScheme.scheme = "oaep" /\ RsaOaepDecrypt(label, room)
  \/ \E hash \in RpHashes, given, optional \in BOOLEAN, oids \in RpOidLists :
       rpScheme.scheme = "pkcs1 signature" /\ (given \/ oids = <<>>) /\ RsaPkcs1Verify(hash, given, oids, optional)
  \/ \E hash \in RpHashes, n \in RpSaltSizes : rpScheme.scheme = "pss" /\ RsaPssVerify(hash, n)
-----------------------------------------------------------------------------
(* What the standard calls a padding, read back from the buffer.           *)
RefPkcs1Plain(text) ==
  {m \in {SubSeq(text, n, Len(text)) : n \in 4 + RpMinPS .. Len(text) + 1} :
     LET ps == SubSeq(text, 3, Len(text) - Len(m) - 1)
     IN /\ text[1] = 0 /\ text[2] = 2 /\ text[Len(text) - Len(m)] = 0
        /\ \A i \in DOMAIN ps : ps[i] # 0}

RefOaepPlain(DB, label) ==
  {SubSeq(DB, n + 1, Len(DB)) : n \in
     {n \in RpHashSize + 1 .. Len(DB) :
        /\ SubSeq(DB, 1, RpHashSize) = RpHash(label) /\ DB[n] = 1
        /\ \A i \in RpHashSize + 1 .. n - 1 : DB[i] = 0}}

(* Not the standard: the label's hash and zeroes to the end of the block.  *)
(* The code takes it for the empty message.                                *)
OaepHasNoOne(DB, label) == DB = RpHash(label) \o RpZeroBytes(Len(DB) - RpHashSize)

OaepPlainOfCode(text, label) ==
  UNION {IF text[1] # 0 THEN {} ELSE IF OaepHasNoOne(DB, label) THEN {<<>>} ELSE RefOaepPlain(DB, label) :
           DB \in {OaepDB(text)}}

(* The salt that a buffer was made with, if it was.                        *)
RefSalt(text, cbSalt) ==
  LET n == Len(text) - RpHashSize - 1
      H == SubSeq(text, n + 1, n + RpHashSize)
      cbDB == IF PssShort(rpKey.nBitsOfModulus) THEN n - 1 ELSE n
      mask == RsaPaddingMaskGeneration(H, cbDB)
  IN RpXor(SubSeq(text, n - cbSalt + 1, n), SubSeq(mask, cbDB - cbSalt + 1, cbDB))

RefIsPss(text, hash, cbSalt) ==
  /\ Len(text) >= RpHashSize + cbSalt + (IF PssShort(rpKey.nBitsOfModulus) THEN 3 ELSE 2)
  /\ text[1] < 2 ^ (rpKey.nBitsOfModulus - 1 - RpBits * (Len(text) - 1))
  /\ RsaPssApplySignaturePadding(hash, RefSalt(text, cbSalt), rpKey.nBitsOfModulus, Len(text)) = RpOk(text)

RefIsDigestInfo(e, oid, hash) ==
  LET n == Len(oid)
  IN /\ Len(e) = 6 + n + Len(hash)
     /\ e[1] = RpSequence /\ e[2] = Len(e) - 2 /\ e[3] = RpSequence /\ e[4] = n
     /\ SubSeq(e, 5, 4 + n) = oid
     /\ e[5 + n] = RpOctetString /\ e[6 + n] = Len(hash) /\ SubSeq(e, 7 + n, Len(e)) = hash

RefPkcs1Signed(text) ==
  {e \in {SubSeq(text, n, Len(text)) : n \in 4 + RpMinPS .. Len(text) + 1} :
     /\ text[1] = 0 /\ text[2] = 1 /\ text[Len(text) - Len(e)] = 0 /\ Len(e) <= RpMaxEncoding
     /\ \A i \in 3 .. Len(text) - Len(e) - 1 : text[i] = RpFF}

(* What a signature is accepted for, by the words of the header: an OID of *)
(* the list, or the bare hash if there is no list or it is optional.       *)
RefPkcs1Accepts(text, hash, given, oids, optional) ==
  \E e \in RefPkcs1Signed(text) :
     \/ \E i \in DOMAIN oids : RefIsDigestInfo(e, oids[i], hash)
     \/ (~given \/ optional) /\ e = hash

(* A decryption has answered with the one message of plain, if there is    *)
(* one, or with its size if there is no room for it.                       *)
RpAnswers(plain) ==
  IF ~rpKey.hasPrivateKey \/ plain = {}
  THEN /\ rpDone.status = "INVALID_ARGUMENT" /\ rpDone.dst = RpFresh(rpDone.room)
       /\ rpKey.hasPrivateKey => rpDone.size = 0
  ELSE \E m \in plain :
         /\ rpDone.size = Len(m)
         /\ IF rpDone.room = 0 THEN rpDone.status = "NO_ERROR"
            ELSE IF Len(m) > rpDone.room THEN rpDone.status = "BUFFER_TOO_SMALL"
            ELSE rpDone.status = "NO_ERROR" /\ rpDone.dst = m \o RpFresh(rpDone.room - Len(m))

(* Property.  Decryption returns exactly the message that the padding of   *)
(* its input holds, or its size to a caller without a buffer or with a     *)
(* short one, writes nothing behind it, and refuses an input without       *)
(* padding with the buffer left as it was; a signature is accepted exactly *)
(* if it is a signature of that hash under the OIDs and the salt length    *)
(* that the verifier asks for.  Two exceptions are the code's own: OAEP    *)
(* takes a block without the 0x01 for the empty message                    *)
(* (rsa_padding.c:548-560), and with an array of no OIDs every signature   *)
(* is accepted (rsa_padding.c:789-811; RsaVerifiesAsDocumented).           *)
RsaPaddingIsExact ==
  LET ok == rpDone.status = "NO_ERROR"
      emptyArray == rpDone.given /\ rpDone.oids = <<>>
  IN /\ rpDone.op = "pkcs1" => RpAnswers(RefPkcs1Plain(rpText))
     /\ rpDone.op = "oaep" => \E plain \in {OaepPlainOfCode(rpText, rpDone.label)} : RpAnswers(plain)
     /\ rpDone.op = "pkcs1 signature" =>
          (ok <=> emptyArray \/ RefPkcs1Accepts(rpText, rpDone.hash, rpDone.given, rpDone.oids, rpDone.optional))
     /\ rpDone.op = "pss" => (ok <=> RefIsPss(rpText, rpDone.hash, rpDone.cbSalt))

(* Property, of the words of inc/symcrypt.h:6259-6267: a verification      *)
(* succeeds only for a signature of that hash, under whatever OID.         *)
(* SymCryptRsaPkcs1VerifySignaturePadding checks nothing if the list of    *)
(* OIDs is empty.                                                          *)
RsaVerifiesAsDocumented ==
  rpDone.op = "pkcs1 signature" /\ rpDone.status = "NO_ERROR" =>
    \E e \in RefPkcs1Signed(rpText) :
      Len(rpDone.hash) <= Len(e) /\ SubSeq(e, Len(e) - Len(rpDone.hash) + 1, Len(e)) = rpDone.hash
=============================================================================
