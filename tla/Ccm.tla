--------------------------------- MODULE Ccm ---------------------------------
(***************************************************************************)
(* CCM as operators on its state (lib/ccm.c).  The CBC-MAC is the cipher   *)
(* over chaining value XOR block, so macBlock is modelled by the blocks    *)
(* that went through the cipher (chain) and what has been XORed on top of  *)
(* the last result since (macBlock).  The low end of the counter block is  *)
(* one number: nonce above the counter field of cbCounter bytes.           *)
(***************************************************************************)
EXTENDS Gcm

CONSTANTS
  CcmCounterRange,   \* 2^(8 * cbCounter): the values of the counter field
  AuthLimit16,       \* AUTHDATA_16BIT_LIMIT: 2^16 - 2^8
  AuthLimit32        \* AUTHDATA_32BIT_LIMIT: 2^32

ASSUME CcmAssumption ==
  /\ CcmCounterRange \in Nat /\ CcmCounterRange >= 3
  /\ AuthLimit16 \in Nat /\ AuthLimit32 \in Nat /\ AuthLimit16 <= AuthLimit32

CcmSpace == CcmCounterRange * NonceRange

(* The test of cbData in SymCryptCcmValidateParameters.                    *)
CcmValidData(cbData) == cbData < CcmCounterRange

(* SymCryptXorBytes of data onto a buffer at an offset.                    *)
XorOnto(buffer, at, data) ==
  [i \in 1 .. Len(buffer) |->
     IF i > at /\ i <= at + Len(data) THEN XorByte(buffer[i], data[i - at]) ELSE buffer[i]]

CcmWiped ==
  [cbData |-> 0, bytesProcessed |-> 0, bytesInMacBlock |-> 0, counter |-> 0, chain |-> <<>>,
   macBlock |-> Zeroes(BlockSize), keystreamBlock |-> Zeroes(BlockSize)]

CcmAddMacData(st, data) ==
  LET count  == st.bytesInMacBlock
      first  == IF count > 0 THEN SmallerOf(Len(data), BlockSize - count) ELSE 0
      filled == XorOnto(st.macBlock, count, Slice(data, 0, first))
      full   == count + first = BlockSize
      start  == IF full THEN Zeroes(BlockSize) ELSE filled
      whole  == RoundDown(Len(data) - first, BlockSize)
      tail   == Len(data) - first - whole
      rest   == IF whole > 0 THEN Zeroes(BlockSize) ELSE start
  IN [st EXCEPT !.chain = (@ \o (IF full THEN filled ELSE <<>>))
                             \o XorOnto(Slice(data, first, whole), 0, start),
                !.macBlock = XorOnto(rest, 0, Slice(data, first + whole, tail)),
                !.bytesInMacBlock = IF tail > 0 THEN tail ELSE (count + first) % BlockSize]

CcmPadMacData(st) ==
  IF st.bytesInMacBlock = 0 THEN st
  ELSE [st EXCEPT !.chain = @ \o st.macBlock, !.macBlock = Zeroes(BlockSize), !.bytesInMacBlock = 0]

(* SymCryptCcmEncryptDecryptPart.                                          *)
CcmEncryptDecryptPart(st, src) ==
  LET with(ctr) == [st  |-> [st EXCEPT !.bytesProcessed = @ + Len(src), !.counter = ctr.counter,
                                       !.keystreamBlock = ctr.keystream],
                    dst |-> ctr.dst]
  IN with(CtrCrypt(st.keystreamBlock, st.bytesProcessed % BlockSize, st.counter, src, BlockSize, CcmSpace))

(* The first block: the flags (of which the presence of associated data is *)
(* kept), the nonce and the length of the data to come.                    *)
CcmStartBlock(nonce, cbAuth, cbData) ==
  <<Atom("flags", IF cbAuth > 0 THEN 1 ELSE 0, 0), Atom("nonce", nonce, 0), Atom("length", cbData, 0)>>
     \o Zeroes(BlockSize - 3)

(* The length of the associated data in 2, 2 + 4 or 2 + 8 bytes.           *)
EncodedLength(cbAuth, width, prefix) ==
  [j \in 1 .. prefix |-> Atom("magic", width, j)] \o [j \in 1 .. width |-> Atom("length", cbAuth, j)]

CcmAuthLength(cbAuth) ==
  IF cbAuth = 0 THEN <<>>
  ELSE IF cbAuth < AuthLimit16 THEN EncodedLength(cbAuth, 2, 0)
  ELSE IF cbAuth < AuthLimit32 THEN EncodedLength(cbAuth, 4, 2) ELSE EncodedLength(cbAuth, 8, 2)

(* SymCryptCcmInit does all of the associated data; keystreamBlock stays.  *)
CcmInitState(nonce, auth, cbData) ==
  LET start == [cbData |-> cbData, bytesProcessed |-> 0, bytesInMacBlock |-> 0,
                counter |-> nonce * CcmCounterRange + 1,
                chain |-> CcmStartBlock(nonce, Len(auth), cbData),
                macBlock |-> Zeroes(BlockSize), keystreamBlock |-> StaleBlock(BlockSize)]
  IN CcmPadMacData(CcmAddMacData(CcmAddMacData(start, CcmAuthLength(Len(auth))), auth))

(* SymCryptCcmEncryptPart and SymCryptCcmDecryptPart: the MAC is over the  *)
(* plaintext, read before it is encrypted or read back from the output.    *)
CcmPartState(st, src, dir) ==
  IF dir = "encrypt" THEN CcmEncryptDecryptPart(CcmAddMacData(st, src), src)
  ELSE LET with(dec) == [st |-> CcmAddMacData(dec.st, dec.dst), dst |-> dec.dst]
       IN with(CcmEncryptDecryptPart(st, src))

(* The padding, the counter field set to zero and bytesProcessed reset.    *)
CcmTagState(st) ==
  [CcmPadMacData(st) EXCEPT !.counter = (@ \div CcmCounterRange) * CcmCounterRange,
                            !.bytesProcessed = 0]

(* The tag that SymCryptCcmEncryptFinal returns and SymCryptCcmDecryptFinal *)
(* compares: the last cipher result through EncryptDecryptPart.            *)
CcmComputeTag(st) ==
  LET final == CcmTagState(st)
  IN Tag(final.chain, CcmEncryptDecryptPart(final, Zeroes(BlockSize)).dst)
-----------------------------------------------------------------------------
(* SP 800-38C of the whole message.                                        *)
CcmKeyByte(nonce, i) ==
  Atom("key", nonce * CcmCounterRange + 1 + ((i - 1) \div BlockSize), 1 + ((i - 1) % BlockSize))

CcmReferenceTag(nonce, auth, plain) ==
  Tag((CcmStartBlock(nonce, Len(auth), Len(plain))
         \o PadToBlock(CcmAuthLength(Len(auth)) \o auth, BlockSize))
         \o PadToBlock(plain, BlockSize),
      KeyBlock(nonce * CcmCounterRange, BlockSize))
=============================================================================
