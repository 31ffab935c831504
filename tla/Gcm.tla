--------------------------------- MODULE Gcm ---------------------------------
(***************************************************************************)
(* GCM as operators on its state (lib/gcm.c), with the one-pass AES code   *)
(* of lib/aes-default.c.  GHASH takes whole blocks, and its state is the   *)
(* sequence of the bytes it has taken.  The low 64 bits of the counter     *)
(* block are one number: 32 bits of the nonce above a 32-bit counter, here *)
(* NonceRange above CounterRange.                                          *)
(***************************************************************************)
EXTENDS CipherBytes

CONSTANTS
  BlockSize,      \* SYMCRYPT_GCM_BLOCK_SIZE and SYMCRYPT_CCM_BLOCK_SIZE: 16
  CounterRange,   \* 2^32: the values of the GCM counter
  NonceRange      \* the values of the part of the nonce beside the counter

ASSUME GcmAssumption ==
  /\ BlockSize \in Nat /\ BlockSize >= 3
  /\ CounterRange \in Nat /\ CounterRange >= 3
  /\ NonceRange \in Nat \ {0}

(* SYMCRYPT_GCM_MAX_DATA_SIZE: 2^36 - 32.                                  *)
GcmMaxDataSize == BlockSize * (CounterRange - 2)

GcmSpace == CounterRange * NonceRange

(* The first value of the counter is 2: counterBlock[15] = 2.              *)
FirstCounter(nonce) == nonce * CounterRange + 2

(* Memory nobody has initialised.                                          *)
StaleBlock(block) == [j \in 1 .. block |-> Atom("stale", 0, j)]

GcmUninitialised ==
  [cbData |-> 0, cbAuthData |-> 0, bytesInMacBlock |-> 0, ghash |-> <<>>, counter |-> 0,
   macBlock |-> StaleBlock(BlockSize), keystreamBlock |-> StaleBlock(BlockSize)]

GcmWiped ==
  [cbData |-> 0, cbAuthData |-> 0, bytesInMacBlock |-> 0, ghash |-> <<>>, counter |-> 0,
   macBlock |-> Zeroes(BlockSize), keystreamBlock |-> Zeroes(BlockSize)]

(* SymCryptGcmInit leaves macBlock and keystreamBlock as they are.         *)
GcmInitState(st, nonce) ==
  [st EXCEPT !.cbData = 0, !.cbAuthData = 0, !.bytesInMacBlock = 0, !.ghash = <<>>,
             !.counter = FirstCounter(nonce)]

GcmAddMacData(st, data) ==
  LET with(mac) == [st EXCEPT !.ghash = @ \o mac.blocks, !.macBlock = mac.buffer, !.bytesInMacBlock = mac.count]
  IN with(BlockAppend(st.macBlock, st.bytesInMacBlock, data, BlockSize))

GcmPadMacData(st) ==
  IF st.bytesInMacBlock = 0 THEN st
  ELSE LET padded == PadToBlock(Slice(st.macBlock, 0, st.bytesInMacBlock), BlockSize)
       IN [st EXCEPT !.ghash = @ \o padded, !.macBlock = padded, !.bytesInMacBlock = 0]

(* SymCryptGcmEncryptDecryptPart: the state after it and the output.       *)
GcmEncryptDecryptPart(st, src) ==
  LET with(ctr) == [st  |-> [st EXCEPT !.cbData = @ + Len(src), !.counter = ctr.counter,
                                       !.keystreamBlock = ctr.keystream],
                    dst |-> ctr.dst]
  IN with(CtrCrypt(st.keystreamBlock, st.cbData % BlockSize, st.counter, src, BlockSize, GcmSpace))

(* SymCryptGcmEncryptPartTwoPass reads its output back for the MAC.        *)
GcmEncryptPartTwoPass(st, src) ==
  LET with(enc) == [st |-> GcmAddMacData(enc.st, enc.dst), dst |-> enc.dst]
  IN with(GcmEncryptDecryptPart(st, src))

GcmDecryptPartTwoPass(st, src) == GcmEncryptDecryptPart(GcmAddMacData(st, src), src)

(* The one-pass code works from bytesInMacBlock alone: it fills macBlock   *)
(* and spends keystreamBlock at the same offset, up to the end of the      *)
(* block, and stitches encryption and GHASH over the whole blocks.         *)
OnePassCtr(st, src) ==
  CtrCrypt(st.keystreamBlock, st.bytesInMacBlock, st.counter, src, BlockSize, GcmSpace)

OnePassResult(st, ctr, cipher) ==
  [st  |-> [GcmAddMacData(st, cipher) EXCEPT !.cbData = @ + Len(cipher), !.counter = ctr.counter,
                                             !.keystreamBlock = ctr.keystream],
   dst |-> ctr.dst]

AesGcmEncryptPartOnePass(st, src) ==
  LET with(ctr) == OnePassResult(st, ctr, ctr.dst) IN with(OnePassCtr(st, src))

AesGcmDecryptPartOnePass(st, src) == OnePassResult(st, OnePassCtr(st, src), src)

(* gcmEncryptPartFunc and gcmDecryptPartFunc, or none: which code a call   *)
(* gets depends on the CPU and on whether its registers can be saved now.  *)
GcmPartCode(st, src, dir, onePass) ==
  IF dir = "encrypt"
  THEN IF onePass THEN AesGcmEncryptPartOnePass(st, src) ELSE GcmEncryptPartTwoPass(st, src)
  ELSE IF onePass THEN AesGcmDecryptPartOnePass(st, src) ELSE GcmDecryptPartTwoPass(st, src)

(* SymCryptGcmEncryptPart, SymCryptGcmDecryptPart.                         *)
GcmPartState(st, src, dir, onePass) ==
  GcmPartCode(IF st.cbData = 0 THEN GcmPadMacData(st) ELSE st, src, dir, onePass)

(* The last block of GHASH: both lengths, one position each.               *)
LengthBlock(cbAuth, cbData) ==
  <<Atom("length", cbAuth, 0), Atom("length", cbData, 0)>> \o Zeroes(BlockSize - 2)

(* A tag is a MAC and the key stream that masks it.                        *)
Tag(mac, mask) == [mac |-> mac, mask |-> mask]

GcmTagUnder(st, counter) ==
  Tag((st.ghash \o PadToBlock(Slice(st.macBlock, 0, st.bytesInMacBlock), BlockSize))
         \o LengthBlock(st.cbAuthData, st.cbData),
      CtrMsb64(counter, Zeroes(BlockSize), BlockSize, GcmSpace).dst)

(* Mutant: the counter field is set without undoing the carry.             *)
TagCounterNoCarry(counter) == (counter \div CounterRange) * CounterRange + 1

(* ((cntLow - 1) & 0xffffffff00000000) | 1: after the longest message the  *)
(* counter has carried into the nonce.                                     *)
TagCounter(counter) ==
  (((counter - 1) % GcmSpace) \div CounterRange) * CounterRange + 1

GcmComputeTag(st) == GcmTagUnder(st, TagCounter(st.counter))

(* The associated data in SymCryptGcmEncrypt and SymCryptGcmDecrypt, which *)
(* have it all: whole blocks, then the rest padded in macBlock.            *)
GcmAuthOneShot(st, auth) ==
  LET rest == Len(auth) % BlockSize
  IN [st EXCEPT !.cbAuthData = Len(auth), !.ghash = PadToBlock(auth, BlockSize),
                !.macBlock = IF rest = 0 THEN @
                             ELSE PadToBlock(Slice(auth, Len(auth) - rest, rest), BlockSize)]

(* SymCryptGcmEncrypt and SymCryptGcmDecrypt up to the tag, in one piece   *)
(* and with the tag's counter kept from the start.                         *)
GcmOneShot(nonce, auth, src, dir, onePass) ==
  LET start == GcmAuthOneShot(GcmInitState(GcmUninitialised, nonce), auth)
      whole(part) == [dst |-> part.dst, tag |-> GcmTagUnder(part.st, nonce * CounterRange + 1)]
  IN whole(GcmPartCode(start, src, dir, onePass))
-----------------------------------------------------------------------------
(* SP 800-38D for 96-bit nonces, of the whole message.                     *)
GcmKeyByte(nonce, i) ==
  Atom("key", nonce * CounterRange + ((2 + ((i - 1) \div BlockSize)) % CounterRange),
       1 + ((i - 1) % BlockSize))

GcmReferenceTag(nonce, auth, cipher) ==
  Tag((PadToBlock(auth, BlockSize) \o PadToBlock(cipher, BlockSize))
         \o LengthBlock(Len(auth), Len(cipher)),
      KeyBlock(nonce * CounterRange + 1, BlockSize))
=============================================================================
