------------------------------ MODULE HashBuffer ------------------------------
(***************************************************************************)
(* The buffering and padding that MD4, MD5, SHA-1, SHA-256, SHA-384 and    *)
(* SHA-512 share (lib/hash.c, sha256.c, sha512.c, sha1.c, md4.c, md5.c),   *)
(* as operators on a hash state.  The compression function is left out: it *)
(* is injective as far as anyone can tell, so the chaining state is the    *)
(* sequence of the bytes compressed so far, a whole number of blocks.      *)
(*                                                                         *)
(* Message bytes are positive numbers.  A stored 64-bit word of the length *)
(* field takes LengthWords of the positions of the last block, one each.   *)
(***************************************************************************)
EXTENDS Integers, Sequences

CONSTANTS
  InputBlockSize,     \* inputBlockSize: 64 or 128
  LengthWords,   \* the size of the length field: 8 or 16 bytes, here 1 or 2 positions
  WordRange      \* 2^64: the range of dataLengthL and dataLengthH

ASSUME HashAssumption ==
  /\ InputBlockSize \in Nat \ {0}
  /\ LengthWords \in {1, 2} /\ LengthWords < InputBlockSize
  /\ WordRange \in Nat \ {0}
  /\ WordRange % 8 = 0 /\ WordRange % InputBlockSize = 0

Zero == 0
Pad80 == -1                       \* the byte 0x80
LengthWord(w) == -2 - (w % WordRange)

ZeroBuffer == [i \in 1 .. InputBlockSize |-> Zero]

(* memcpy of data into the buffer behind its first at bytes.               *)
Overwrite(buffer, at, data) ==
  [i \in 1 .. InputBlockSize |-> IF i > at /\ i <= at + Len(data) THEN data[i - at] ELSE buffer[i]]

(* SymCryptXxxInit: "There is no need to initialize the buffer part".      *)
HashInit(st) ==
  [chain |-> <<>>, buffer |-> st.buffer, bytesInBuffer |-> 0, dataLengthL |-> 0, dataLengthH |-> 0]

(* The state wiped and initialised.                                        *)
WipedState ==
  [chain |-> <<>>, buffer |-> ZeroBuffer, bytesInBuffer |-> 0, dataLengthL |-> 0, dataLengthH |-> 0]

(* dataLengthL += cbData, and the carry into dataLengthH.                  *)
LengthL(st, cb) == (st.dataLengthL + cb) % WordRange
LengthH(st, cb) ==
  IF LengthL(st, cb) < cb THEN (st.dataLengthH + 1) % WordRange ELSE st.dataLengthH

(* The input completes the block in the buffer.                            *)
FillsBuffer(st, data) ==
  st.bytesInBuffer > 0 /\ Len(data) >= InputBlockSize - st.bytesInBuffer

(* SymCryptHashAppendInternal, SymCryptSha256Append, SymCryptSha512Append. *)
HashAppend(st, data) ==
  LET cbData  == Len(data)
      fills   == FillsBuffer(st, data)
      used    == IF fills THEN InputBlockSize - st.bytesInBuffer ELSE 0
      buffer  == IF fills THEN Overwrite(st.buffer, st.bytesInBuffer, SubSeq(data, 1, used))
                          ELSE st.buffer
      inside  == IF fills THEN 0 ELSE st.bytesInBuffer
      rest    == cbData - used
      tail    == IF rest >= InputBlockSize THEN rest % InputBlockSize ELSE rest
  IN [chain         |-> (st.chain \o (IF fills THEN buffer ELSE <<>>))
                          \o SubSeq(data, used + 1, cbData - tail),
      buffer        |-> Overwrite(buffer, inside, SubSeq(data, cbData - tail + 1, cbData)),
      bytesInBuffer |-> inside + tail,
      dataLengthL   |-> LengthL(st, cbData),
      dataLengthH   |-> LengthH(st, cbData)]

(* Mutant: the high word of the length without the bits of the low word.   *)
LengthFieldNoShift(st) ==
  IF LengthWords = 1 THEN <<LengthWord(st.dataLengthL * 8)>>
  ELSE <<LengthWord(st.dataLengthH * 8), LengthWord(st.dataLengthL * 8)>>

(* The length in bits: (H << 3) + (L >> 61) and L << 3, or only the latter. *)
LengthField(st) ==
  IF LengthWords = 1 THEN <<LengthWord(st.dataLengthL * 8)>>
  ELSE <<LengthWord(st.dataLengthH * 8 + st.dataLengthL \div (WordRange \div 8)),
         LengthWord(st.dataLengthL * 8)>>

(* bytesInBuffer, one more for 0x80, against the room before the length.   *)
NeedsTwoBlocks(st) == st.bytesInBuffer + 1 > InputBlockSize - LengthWords

(* The buffer with 0x80 behind its content and zeroes to its end.          *)
Pad1(st) ==
  [i \in 1 .. InputBlockSize |-> IF i <= st.bytesInBuffer THEN st.buffer[i]
                            ELSE IF i = st.bytesInBuffer + 1 THEN Pad80 ELSE Zero]

PutLength(buffer, st) == Overwrite(buffer, InputBlockSize - LengthWords, LengthField(st))

(* What SymCryptXxxResult compresses last: the padding in one block or two. *)
HashPadding(st) ==
  IF NeedsTwoBlocks(st) THEN Pad1(st) \o PutLength(ZeroBuffer, st) ELSE PutLength(Pad1(st), st)

(* SymCryptXxxResult: the digest, and the state it leaves behind.          *)
HashDigest(st) == st.chain \o HashPadding(st)
HashResult(st) == WipedState
-----------------------------------------------------------------------------
Words == 0 .. WordRange - 1

(* A state of the code: the buffer has room for one more byte at all times. *)
HashStates ==
  [chain : Seq(Int), buffer : [1 .. InputBlockSize -> Int], bytesInBuffer : 0 .. InputBlockSize - 1,
   dataLengthL : Words, dataLengthH : Words]

(* The chaining state and the buffer together are the message: nothing is  *)
(* lost, repeated or out of order; and the two words are its length.       *)
Holds(st, message) ==
  /\ st \in HashStates
  /\ Len(st.chain) % InputBlockSize = 0
  /\ st.chain \o SubSeq(st.buffer, 1, st.bytesInBuffer) = message
  /\ st.dataLengthL = Len(message) % WordRange
  /\ st.dataLengthH = (Len(message) \div WordRange) % WordRange

(* The standards' definition: the message, 0x80, as few zeroes as make the *)
(* length with the length field a whole number of blocks, and the number   *)
(* of bits of the message.                                                 *)
PadZeroes(n) == CHOOSE k \in 0 .. InputBlockSize - 1 : (n + 1 + k + LengthWords) % InputBlockSize = 0

BitLength(n) ==
  IF LengthWords = 1 THEN <<LengthWord(8 * n)>>
  ELSE <<LengthWord((8 * n) \div WordRange), LengthWord(8 * n)>>

PaddedMessage(message) ==
  message \o <<Pad80>> \o [i \in 1 .. PadZeroes(Len(message)) |-> Zero] \o BitLength(Len(message))
=============================================================================
