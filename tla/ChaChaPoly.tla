------------------------------ MODULE ChaChaPoly ------------------------------
(***************************************************************************)
(* ChaCha20 and Poly1305 as operators on their states, and the AEAD made   *)
(* of them (lib/chacha20.c, poly1305.c, chacha20_poly1305.c).  Poly1305    *)
(* adds a byte 1 behind every block; its accumulator is the sequence of    *)
(* the bytes it has taken, those ones included.                            *)
(***************************************************************************)
EXTENDS Ccm

CONSTANTS
  ChaChaBlock,     \* 64: the bytes of one key stream block
  ChaChaRange,     \* 2^32: the values of the block counter
  PolyBlock        \* 16: SYMCRYPT_POLY1305_BLOCK_SIZE

ASSUME ChaChaAssumption ==
  /\ PolyBlock \in Nat /\ PolyBlock >= 2
  /\ ChaChaBlock \in Nat /\ ChaChaBlock > 2 * PolyBlock
  /\ ChaChaRange \in Nat /\ ChaChaRange >= 2

PolyKeySize == 2 * PolyBlock                       \* SYMCRYPT_POLY1305_KEY_SIZE

(* CHACHA20_POLY1305_MAX_DATA_SIZE: (2^32 - 1) * 64.                       *)
ChaChaMaxDataSize == (ChaChaRange - 1) * ChaChaBlock

ChaCha20SetOffset(st, offset) == [st EXCEPT !.offset = offset, !.keystreamBufferValid = FALSE]

ChaCha20InitState(offset) ==
  ChaCha20SetOffset([offset |-> 0, keystreamBufferValid |-> TRUE, keystream |-> StaleBlock(ChaChaBlock)],
                    offset)

(* SymCryptChaCha20CryptBlocks: the block counter is 32 bits of the offset. *)
ChaCha20CryptBlocks(offset, src) ==
  CtrMsb64((offset \div ChaChaBlock) % ChaChaRange, src, ChaChaBlock, ChaChaRange).dst

(* SymCryptChaCha20Crypt.  A block whose key stream is in the buffer is    *)
(* finished first; an offset set into a block makes that block anew.       *)
ChaCha20CryptState(st, src) ==
  LET spent  == st.offset % ChaChaBlock
      buffer == IF spent # 0 /\ ~st.keystreamBufferValid
                THEN ChaCha20CryptBlocks(st.offset, Zeroes(ChaChaBlock)) ELSE st.keystream
      first  == IF spent # 0 THEN SmallerOf(Len(src), ChaChaBlock - spent) ELSE 0
      whole  == RoundDown(Len(src) - first, ChaChaBlock)
      tail   == Len(src) - first - whole
      last   == IF tail > 0
                THEN ChaCha20CryptBlocks(st.offset + first + whole, Zeroes(ChaChaBlock)) ELSE buffer
  IN [st  |-> [offset |-> st.offset + Len(src),
               keystream |-> last,
               keystreamBufferValid |->
                 \/ tail > 0
                 \/ IF spent # 0 THEN Len(src) < ChaChaBlock - spent ELSE st.keystreamBufferValid],
      dst |-> XorBytes(Slice(src, 0, first), Slice(buffer, spent, first))
                \o ChaCha20CryptBlocks(st.offset + first, Slice(src, first, whole))
                \o XorBytes(Slice(src, first + whole, tail), Slice(last, 0, tail))]

One == Atom("one", 0, 0)

(* SymCryptPoly1305ProcessBlocks: a 1 behind each block.                   *)
WithOnes(blocks) ==
  [i \in 1 .. (Len(blocks) \div PolyBlock) * (PolyBlock + 1) |->
     IF i % (PolyBlock + 1) = 0 THEN One ELSE blocks[i - (i \div (PolyBlock + 1))]]

Poly1305InitState(key) ==
  [a |-> <<>>, key |-> key, buf |-> StaleBlock(PolyBlock), bytesInBuffer |-> 0]

Poly1305AppendState(st, data) ==
  LET mac == BlockAppend(st.buf, st.bytesInBuffer, data, PolyBlock)
  IN [st EXCEPT !.a = @ \o WithOnes(mac.blocks), !.buf = mac.buffer, !.bytesInBuffer = mac.count]

(* SymCryptPoly1305Result: a partial block ends in its own 1, and the one  *)
(* that processing adds is taken off the accumulator beforehand.           *)
Poly1305Tag(st) ==
  LET n    == st.bytesInBuffer
      last == IF n = 0 THEN <<>>
              ELSE Slice(st.buf, 0, n) \o <<One>> \o Zeroes(PolyBlock - n - 1) \o <<ZeroByte>>
  IN Tag(st.a \o last, st.key)

(* The data and the zeroes behind it in ...Poly1305ComputeTag.             *)
PolyAppendPadded(st, data) ==
  LET partial == Len(data) % PolyBlock
      added   == Poly1305AppendState(st, data)
  IN IF Len(data) = 0 THEN st
     ELSE IF partial = 0 THEN added ELSE Poly1305AppendState(added, Zeroes(PolyBlock - partial))

PolyLengths(cbAuth, cbData) ==
  <<Atom("length", cbAuth, 0), Atom("length", cbData, 0)>> \o Zeroes(PolyBlock - 2)

ChaChaComputeTag(key, auth, cipher) ==
  Poly1305Tag(Poly1305AppendState(
    PolyAppendPadded(PolyAppendPadded(Poly1305InitState(key), auth), cipher),
    PolyLengths(Len(auth), Len(cipher))))

(* The cipher after the key of Poly1305 has been taken from its stream.    *)
ChaChaKeyed == ChaCha20CryptState(ChaCha20InitState(0), Zeroes(PolyKeySize))

ChaChaCryptData(src) ==
  ChaCha20CryptState(ChaCha20SetOffset(ChaChaKeyed.st, ChaChaBlock), src).dst

ChaChaOneShot(auth, src, dir) ==
  LET dst == ChaChaCryptData(src)
  IN [dst |-> dst,
      tag |-> ChaChaComputeTag(ChaChaKeyed.dst, auth, IF dir = "encrypt" THEN dst ELSE src)]
-----------------------------------------------------------------------------
(* RFC 8439: the key stream by its position, and the AEAD's tag.           *)
ChaChaKeyByte(position) ==
  Atom("key", (position \div ChaChaBlock) % ChaChaRange, 1 + (position % ChaChaBlock))

(* Every block of up to PolyBlock bytes, a 1, and zeroes.                  *)
PolyReferenceTag(key, data) ==
  Tag([i \in 1 .. ((Len(data) + PolyBlock - 1) \div PolyBlock) * (PolyBlock + 1) |->
         LET from == ((i - 1) \div (PolyBlock + 1)) * PolyBlock
             j    == 1 + ((i - 1) % (PolyBlock + 1))
             n    == SmallerOf(PolyBlock, Len(data) - from)
         IN IF j <= n THEN data[from + j] ELSE IF j = n + 1 THEN One ELSE ZeroByte],
      key)

ChaChaReferenceTag(auth, cipher) ==
  PolyReferenceTag([i \in 1 .. PolyKeySize |-> ChaChaKeyByte(i - 1)],
    PadToBlock(auth, PolyBlock) \o PadToBlock(cipher, PolyBlock) \o PolyLengths(Len(auth), Len(cipher)))
=============================================================================
