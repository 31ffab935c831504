------------------------------ MODULE AeadState ------------------------------
(***************************************************************************)
(* The authenticated encryptions, and the stream cipher and the MAC that   *)
(* one of them is built from, as objects in the hands of a caller who      *)
(* passes the message in parts of any size: GCM (Init, AuthPart, Encrypt-  *)
(* and DecryptPart, Final), CCM (Init, Part, Final), ChaCha20 (Init,       *)
(* SetOffset, Crypt), Poly1305 (Init, Append, Result), and the one-call    *)
(* functions of GCM, CCM and ChaCha20-Poly1305.  What is allowed when is   *)
(* what inc/symcrypt.h says of the calls and what the code asserts.        *)
(***************************************************************************)
EXTENDS ChaChaPoly

CONSTANTS
  PartSizes,     \* the sizes of the parts that are passed
  AuthSizes,     \* the sizes of the parts of associated data
  OneShotSizes,  \* the sizes of the data of the one-call functions
  Declared,      \* the values of cbData passed to SymCryptCcmInit
  Offsets,       \* the offsets passed to SymCryptChaCha20SetOffset
  MaxAuth,       \* bound: associated data of one message
  MaxStream      \* bound: position in a ChaCha20 stream, bytes in a Poly1305 message

ASSUME AeadAssumption ==
  /\ PartSizes \cup AuthSizes \cup OneShotSizes \cup Declared \cup Offsets \subseteq Nat
  /\ \A cb \in Declared : CcmValidData(cb)

VARIABLES
  alg,      \* which algorithm the object is of
  st,       \* its state
  phase,    \* "idle", "auth" (associated data may come), "data" or "done"
  dir,      \* "encrypt" or "decrypt"
  call,     \* what the caller passed: nonce, first offset, bytes of each kind
  oneShot,  \* the message was passed in a single call
  genuine,  \* the tag given for a decryption is the one its message has
  out,      \* what pbDst holds
  tag,      \* the tag that was returned
  status    \* what the last Final or one-call function returned

vars == <<alg, st, phase, dir, call, oneShot, genuine, out, tag, status>>

Algorithms == {"gcm", "ccm", "chacha20", "poly1305", "chacha20poly1305"}
Directions == {"encrypt", "decrypt"}
Nonces == 0 .. NonceRange - 1

NoTag == Tag(<<>>, <<>>)
NoCall == [nonce |-> 0, from |-> 0, auth |-> 0, data |-> 0]

(* The caller's bytes from one position to another.                        *)
AuthBytes(from, to) == [i \in 1 .. to - from |-> Atom("auth", from + i, 0)]
DataBytes(from, to) == [i \in 1 .. to - from |-> Atom("data", from + i, 0)]

(* What the destination held before the call.                              *)
Untouched(cb) == [i \in 1 .. cb |-> Atom("stale", 1, i)]

PolyKey == [j \in 1 .. PolyKeySize |-> Atom("polykey", 0, j)]

StartState ==
  [gcm |-> GcmUninitialised, ccm |-> CcmWiped, chacha20 |-> ChaCha20InitState(0),
   poly1305 |-> Poly1305InitState(PolyKey), chacha20poly1305 |-> <<>>]

Init ==
  /\ alg \in Algorithms
  /\ st = StartState[alg]
  /\ phase = "idle"
  /\ dir = "encrypt"
  /\ call = NoCall
  /\ oneShot = FALSE
  /\ genuine = TRUE
  /\ out = <<>>
  /\ tag = NoTag
  /\ status = "none"
-----------------------------------------------------------------------------
(* A new message in memory that is fresh or was wiped by the last one.  An *)
(* Init in the middle of a message does the same: all it leaves of the     *)
(* state are the two block buffers, as stale as those of fresh memory.     *)
Begin(newPhase, d, newCall) ==
  /\ phase' = newPhase
  /\ dir' = d
  /\ call' = newCall
  /\ oneShot' = FALSE
  /\ genuine' = TRUE
  /\ out' = <<>>
  /\ tag' = NoTag
  /\ status' = "none"

(* k bytes of data and what came out for them.                             *)
Continue(k, dst) ==
  /\ phase' = "data"
  /\ call' = [call EXCEPT !.data = @ + k]
  /\ out' = out \o dst
  /\ UNCHANGED <<dir, oneShot, genuine, tag, status>>

(* k bytes at the caller's position in the data.                           *)
NextData(k) == DataBytes(call.data, call.data + k)

(* SymCryptEqual against the tag the caller has: the right one or not.     *)
Verdict(computed, given) == IF computed = given THEN "NO_ERROR" ELSE "AUTHENTICATION_FAILURE"
-----------------------------------------------------------------------------
(* The key stream and the tag of the standards for what was passed.        *)
KeyByte(a, c, i) ==
  CASE a = "gcm" -> GcmKeyByte(c.nonce, i)
    [] a = "ccm" -> CcmKeyByte(c.nonce, i)
    [] a = "chacha20" -> ChaChaKeyByte(c.from + i - 1)
    [] a = "chacha20poly1305" -> ChaChaKeyByte(ChaChaBlock + i - 1)

ReferenceOut(a, c) ==
  [i \in 1 .. c.data |-> XorByte(Atom("data", i, 0), KeyByte(a, c, i))]

ReferenceTag(a, c, d) ==
  LET auth   == AuthBytes(0, c.auth)
      data   == DataBytes(0, c.data)
      cipher == IF d = "encrypt" THEN ReferenceOut(a, c) ELSE data
      plain  == IF d = "encrypt" THEN data ELSE ReferenceOut(a, c)
  IN CASE a = "gcm" -> GcmReferenceTag(c.nonce, auth, cipher)
       [] a = "ccm" -> CcmReferenceTag(c.nonce, auth, plain)
       [] a = "poly1305" -> PolyReferenceTag(PolyKey, data)
       [] a = "chacha20poly1305" -> ChaChaReferenceTag(auth, cipher)

(* The tag that comes with a ciphertext: the sender's, or another.         *)
GivenTag(good, c) == IF good THEN ReferenceTag(alg, c, "decrypt") ELSE NoTag

(* The end of an incremental message: a tag goes out or a verdict.         *)
Finish(computed, good) ==
  /\ phase' = "done"
  /\ genuine' = good
  /\ tag' = IF dir = "encrypt" THEN computed ELSE NoTag
  /\ status' = IF dir = "encrypt" THEN "NO_ERROR" ELSE Verdict(computed, GivenTag(good, call))
  /\ UNCHANGED <<dir, call, oneShot, out>>
-----------------------------------------------------------------------------
GcmInit ==
  /\ alg = "gcm" /\ phase \in {"idle", "done"}
  /\ \E n \in Nonces, d \in Directions :
       /\ st' = GcmInitState(st, n)
       /\ Begin("auth", d, [NoCall EXCEPT !.nonce = n])
  /\ UNCHANGED alg

(* "It may not be called after any encrypt or decrypt function."           *)
GcmAuthPart ==
  /\ alg = "gcm" /\ phase = "auth"
  /\ \E k \in AuthSizes :
       /\ call.auth + k <= MaxAuth
       /\ st' = [GcmAddMacData(st, AuthBytes(call.auth, call.auth + k)) EXCEPT !.cbAuthData = @ + k]
       /\ call' = [call EXCEPT !.auth = @ + k]
  /\ UNCHANGED <<alg, phase, dir, oneShot, genuine, out, tag, status>>

(* SymCryptGcmEncryptPart and SymCryptGcmDecryptPart up to the size limit. *)
GcmPart ==
  /\ alg = "gcm" /\ phase \in {"auth", "data"}
  /\ \E k \in PartSizes, onePass \in BOOLEAN :
       /\ st.cbData + k <= GcmMaxDataSize
       /\ LET part == GcmPartState(st, NextData(k), dir, onePass)
          IN st' = part.st /\ Continue(k, part.dst)
  /\ UNCHANGED alg

GcmFinal ==
  /\ alg = "gcm" /\ phase \in {"auth", "data"}
  /\ \E good \in BOOLEAN : Finish(GcmComputeTag(st), good)
  /\ st' = GcmWiped
  /\ UNCHANGED alg

CcmInit ==
  /\ alg = "ccm" /\ phase \in {"idle", "done"}
  /\ \E n \in Nonces, d \in Directions, cbAuth \in 0 .. MaxAuth, cb \in Declared :
       /\ st' = CcmInitState(n, AuthBytes(0, cbAuth), cb)
       /\ Begin("data", d, [NoCall EXCEPT !.nonce = n, !.auth = cbAuth])
  /\ UNCHANGED alg

CcmPart ==
  /\ alg = "ccm" /\ phase = "data"
  /\ \E k \in PartSizes :
       /\ st.bytesProcessed + k <= st.cbData
       /\ LET part == CcmPartState(st, NextData(k), dir)
          IN st' = part.st /\ Continue(k, part.dst)
  /\ UNCHANGED alg

CcmFinal ==
  /\ alg = "ccm" /\ phase = "data"
  /\ st.bytesProcessed = st.cbData
  /\ \E good \in BOOLEAN : Finish(CcmComputeTag(st), good)
  /\ st' = CcmWiped
  /\ UNCHANGED alg

ChaCha20Init ==
  /\ alg = "chacha20" /\ phase \in {"idle", "done"}
  /\ \E offset \in Offsets :
       /\ st' = [ChaCha20InitState(offset) EXCEPT !.keystream = st.keystream]
       /\ Begin("data", "encrypt", [NoCall EXCEPT !.from = offset])
  /\ UNCHANGED alg

SetOffset ==
  /\ alg = "chacha20" /\ phase = "data"
  /\ \E offset \in Offsets :
       /\ st' = ChaCha20SetOffset(st, offset)
       /\ Begin("data", "encrypt", [NoCall EXCEPT !.from = offset])
  /\ UNCHANGED alg

ChaCha20Crypt ==
  /\ alg = "chacha20" /\ phase = "data"
  /\ \E k \in PartSizes :
       /\ st.offset + k <= MaxStream
       /\ LET part == ChaCha20CryptState(st, NextData(k))
          IN st' = part.st /\ Continue(k, part.dst)
  /\ UNCHANGED alg

Poly1305Init ==
  /\ alg = "poly1305" /\ phase \in {"idle", "done"}
  /\ st' = [Poly1305InitState(PolyKey) EXCEPT !.buf = st.buf]
  /\ Begin("data", "encrypt", NoCall)
  /\ UNCHANGED alg

Poly1305Append ==
  /\ alg = "poly1305" /\ phase = "data"
  /\ \E k \in PartSizes :
       /\ call.data + k <= MaxStream
       /\ st' = Poly1305AppendState(st, NextData(k))
       /\ Continue(k, <<>>)
  /\ UNCHANGED alg

Poly1305Result ==
  /\ alg = "poly1305" /\ phase = "data"
  /\ Finish(Poly1305Tag(st), TRUE)
  /\ st' = [Poly1305InitState(PolyKey) EXCEPT !.buf = Zeroes(PolyBlock)]
  /\ UNCHANGED alg
-----------------------------------------------------------------------------
(* A message in one call.  dst is what was written on the way: to pbDst    *)
(* before the verdict in GCM and CCM, only after it in ChaCha20-Poly1305.  *)
Whole(c, d, good, dst, newTag, newStatus) ==
  /\ phase' = "done"
  /\ dir' = d
  /\ call' = c
  /\ oneShot' = TRUE
  /\ genuine' = good
  /\ out' = dst
  /\ tag' = newTag
  /\ status' = newStatus
  /\ UNCHANGED <<alg, st>>

(* Mutant: what was decrypted stays in pbDst.                              *)
AfterRefusalKept(verdict, dst) == dst

(* GCM and CCM: SymCryptWipe( pbDst, cbData ) unless the tag was right.    *)
AfterRefusal(verdict, dst) == IF verdict = "NO_ERROR" THEN dst ELSE Zeroes(Len(dst))

OneShotCalls ==
  [nonce : Nonces, from : {0}, auth : 0 .. MaxAuth, data : OneShotSizes]

(* SymCryptGcmEncrypt and SymCryptGcmDecrypt.                              *)
GcmWhole ==
  /\ alg = "gcm" /\ phase = "idle"
  /\ \E c \in OneShotCalls, d \in Directions, onePass \in BOOLEAN, good \in BOOLEAN :
       /\ c.data <= GcmMaxDataSize
       /\ \E r \in {GcmOneShot(c.nonce, AuthBytes(0, c.auth), DataBytes(0, c.data), d, onePass)} :
            LET verdict == Verdict(r.tag, GivenTag(good, c))
            IN IF d = "encrypt" THEN Whole(c, d, good, r.dst, r.tag, "NO_ERROR")
               ELSE Whole(c, d, good, AfterRefusal(verdict, r.dst), NoTag, verdict)

(* SymCryptCcmEncrypt and SymCryptCcmDecrypt: Init, Part and Final.        *)
CcmWhole ==
  /\ alg = "ccm" /\ phase = "idle"
  /\ \E c \in OneShotCalls, d \in Directions, good \in BOOLEAN :
       /\ CcmValidData(c.data)
       /\ \E part \in {CcmPartState(CcmInitState(c.nonce, AuthBytes(0, c.auth), c.data),
                                    DataBytes(0, c.data), d)} :
            LET computed == CcmComputeTag(part.st)
                verdict == Verdict(computed, GivenTag(good, c))
            IN IF d = "encrypt" THEN Whole(c, d, good, part.dst, computed, "NO_ERROR")
               ELSE Whole(c, d, good, AfterRefusal(verdict, part.dst), NoTag, verdict)

(* SymCryptChaCha20Poly1305Encrypt and ...Decrypt, which check the size.   *)
ChaChaPolyWhole ==
  /\ alg = "chacha20poly1305" /\ phase \in {"idle", "done"}
  /\ \E c \in OneShotCalls, d \in Directions, good \in BOOLEAN :
       LET r == ChaChaOneShot(AuthBytes(0, c.auth), DataBytes(0, c.data), d)
           verdict == Verdict(r.tag, GivenTag(good, c))
       IN IF c.data > ChaChaMaxDataSize
          THEN Whole(c, d, good, Untouched(c.data), NoTag, "WRONG_DATA_SIZE")
          ELSE IF d = "encrypt" THEN Whole(c, d, good, r.dst, r.tag, "NO_ERROR")
          ELSE Whole(c, d, good, IF verdict = "NO_ERROR" THEN r.dst ELSE Untouched(c.data),
                     NoTag, verdict)

Next ==
  \/ GcmInit \/ GcmAuthPart \/ GcmPart \/ GcmFinal \/ GcmWhole
  \/ CcmInit \/ CcmPart \/ CcmFinal \/ CcmWhole
  \/ ChaCha20Init \/ SetOffset \/ ChaCha20Crypt
  \/ Poly1305Init \/ Poly1305Append \/ Poly1305Result
  \/ ChaChaPolyWhole

Spec == Init /\ [][Next]_vars
-----------------------------------------------------------------------------
Accepted == status \in {"none", "NO_ERROR"}

(* What a one-call decryption that failed leaves in the buffer.            *)
RefusedIsWiped ==
  (oneShot /\ status # "NO_ERROR") =>
    \A i \in DOMAIN out : \A atom \in out[i] : atom[1] # "data"

(* However the message was cut, in whichever mixture of the one-pass and   *)
(* the two-pass code, every byte of output is the byte of input under the  *)
(* key stream byte that the standard has for its position.  The tag that   *)
(* is returned is the standard's for the message as a whole, up to the     *)
(* longest message, whose counter carries into the nonce; and a decryption *)
(* accepts exactly the messages that come with that tag, and a one-call    *)
(* decryption that does not leaves nothing of the data in the caller's     *)
(* buffer.                                                                 *)
AeadIsReference ==
  /\ RefusedIsWiped
  /\ (alg # "poly1305" /\ (Accepted \/ ~oneShot)) => out = ReferenceOut(alg, call)
  /\ (phase = "done" /\ status # "WRONG_DATA_SIZE") =>
       IF dir = "encrypt" THEN tag = ReferenceTag(alg, call, dir)
       ELSE genuine <=> (status = "NO_ERROR")
-----------------------------------------------------------------------------
(* The inductive invariant behind it.                                      *)
(* Counter mode n bytes after the counter value start: the counter is past *)
(* the blocks begun, and of a block begun and not ended the key stream is  *)
(* kept.                                                                   *)
Begun(n, block) == (n + block - 1) \div block

CtrLaw(keystream, counter, start, n, block, space) ==
  /\ Text(keystream, block)
  /\ counter = (start + Begun(n, block)) % space
  /\ n % block # 0 => keystream = KeyBlock((start + n \div block) % space, block)

(* A MAC that takes whole blocks has taken the first part of a text, and   *)
(* the rest, less than a block, waits in the buffer.                       *)
MacLaw(chain, buffer, count, text, block) ==
  /\ Text(buffer, block) /\ count \in 0 .. block - 1
  /\ Text(chain, Len(chain)) /\ Len(chain) % block = 0
  /\ chain \o Slice(buffer, 0, count) = text
  /\ Text(text, Len(text))

(* What the MACs have been given so far.                                   *)
CipherText == IF dir = "encrypt" THEN out ELSE DataBytes(0, call.data)
PlainText == IF dir = "encrypt" THEN DataBytes(0, call.data) ELSE out
GcmText ==
  IF phase = "auth" THEN AuthBytes(0, call.auth)
  ELSE PadToBlock(AuthBytes(0, call.auth), BlockSize) \o CipherText
CcmText ==
  (CcmStartBlock(call.nonce, call.auth, st.cbData)
     \o PadToBlock(CcmAuthLength(call.auth) \o AuthBytes(0, call.auth), BlockSize)) \o PlainText

Busy == phase \in {"auth", "data"}

GcmLaw ==
  /\ DOMAIN st = DOMAIN GcmWiped
  /\ Text(st.macBlock, BlockSize) /\ Text(st.keystreamBlock, BlockSize)
  /\ Busy =>
       /\ st.cbData = call.data /\ st.cbAuthData = call.auth
       /\ call.data <= GcmMaxDataSize /\ (phase = "auth" => call.data = 0)
       /\ CtrLaw(st.keystreamBlock, st.counter, FirstCounter(call.nonce), call.data, BlockSize, GcmSpace)
       /\ MacLaw(st.ghash, st.macBlock, st.bytesInMacBlock, GcmText, BlockSize)

(* The bytes of CCM's macBlock that nothing was XORed on are zero.         *)
CcmLaw ==
  Busy =>
    /\ DOMAIN st = DOMAIN CcmWiped
    /\ phase = "data" /\ st.bytesProcessed = call.data
    /\ st.cbData \in Nat /\ CcmValidData(st.cbData) /\ call.data <= st.cbData
    /\ CtrLaw(st.keystreamBlock, st.counter, call.nonce * CcmCounterRange + 1, call.data, BlockSize, CcmSpace)
    /\ MacLaw(st.chain, st.macBlock, st.bytesInMacBlock, CcmText, BlockSize)
    /\ \A i \in st.bytesInMacBlock + 1 .. BlockSize : st.macBlock[i] = ZeroByte

ChaChaLaw ==
  /\ DOMAIN st = DOMAIN ChaCha20InitState(0)
  /\ Text(st.keystream, ChaChaBlock)
  /\ Busy =>
       /\ phase = "data" /\ st.offset = call.from + call.data /\ st.keystreamBufferValid \in BOOLEAN
       /\ (st.keystreamBufferValid /\ st.offset % ChaChaBlock # 0) =>
            st.keystream = KeyBlock((st.offset \div ChaChaBlock) % ChaChaRange, ChaChaBlock)

(* The accumulator of Poly1305 has the blocks with a 1 behind each.        *)
PolyLaw ==
  /\ DOMAIN st = DOMAIN Poly1305InitState(PolyKey)
  /\ Text(st.buf, PolyBlock)
  /\ Busy =>
       /\ phase = "data" /\ dir = "encrypt" /\ st.key = PolyKey
       /\ LET taken == DataBytes(0, RoundDown(call.data, PolyBlock))
          IN st.a = WithOnes(taken) /\ MacLaw(taken, st.buf, st.bytesInBuffer, DataBytes(0, call.data), PolyBlock)

AeadTypeOK ==
  /\ alg \in Algorithms /\ phase \in {"idle", "auth", "data", "done"} /\ dir \in Directions
  /\ call \in [nonce : Nonces, from : Nat, auth : Nat, data : Nat]
  /\ oneShot \in BOOLEAN /\ genuine \in BOOLEAN
  /\ Busy => ~oneShot

AeadInv ==
  /\ AeadTypeOK
  /\ alg = "gcm" => GcmLaw
  /\ alg = "ccm" => CcmLaw
  /\ alg = "chacha20" => ChaChaLaw
  /\ alg = "poly1305" => PolyLaw
  /\ AeadIsReference
=============================================================================
