----------------------------- MODULE CipherBytes -----------------------------
(***************************************************************************)
(* Bytes for the models of the modes of operation.  What a byte holds is a *)
(* set of atoms, its XOR summands: a byte of the caller's data, of the key *)
(* stream, of a length.  XOR is then the symmetric difference and zero the *)
(* empty set.  No two atoms are related, which is all that the modes ask   *)
(* of their block cipher.  An atom is <<kind, number, number>>.            *)
(***************************************************************************)
EXTENDS Integers, Sequences

(* A text of n bytes.                                                      *)
Text(x, n) == n \in Nat /\ x = [i \in 1 .. n |-> x[i]]

ZeroByte == {}
Atom(kind, a, b) == {<<kind, a, b>>}

XorByte(x, y) == (x \ y) \cup (y \ x)

Zeroes(n) == [i \in 1 .. n |-> ZeroByte]

(* SymCryptXorBytes of two buffers of the same length.                     *)
XorBytes(x, y) == [i \in 1 .. Len(x) |-> XorByte(x[i], y[i])]

(* cb bytes of a buffer from offset at (counted from 0).                   *)
Slice(buffer, at, cb) == SubSeq(buffer, at + 1, at + cb)

(* memcpy of data into a buffer at an offset.                              *)
CopyTo(buffer, at, data) ==
  [i \in 1 .. Len(buffer) |->
     IF i > at /\ i <= at + Len(data) THEN data[i - at] ELSE buffer[i]]

SmallerOf(a, b) == IF a <= b THEN a ELSE b

(* cb & BLOCK_ROUND_MASK: cb rounded down to whole blocks.                 *)
RoundDown(cb, block) == cb - (cb % block)

(* data followed by as few zeroes as make it a whole number of blocks.     *)
PadToBlock(data, block) == data \o Zeroes((block - (Len(data) % block)) % block)

(* The key stream block for a counter value, and cb bytes of key stream    *)
(* from a counter value on.                                                *)
KeyBlock(counter, block) == [j \in 1 .. block |-> Atom("key", counter, j)]

KeyStream(counter, cb, block, space) ==
  [i \in 1 .. cb |->
     Atom("key", (counter + ((i - 1) \div block)) % space, 1 + ((i - 1) % block))]

(* SymCryptCtrMsb64 on whole blocks: the counter runs modulo space.        *)
CtrMsb64(counter, src, block, space) ==
  [dst     |-> XorBytes(src, KeyStream(counter, Len(src), block, space)),
   counter |-> (counter + Len(src) \div block) % space]

(* Counter mode over a message in parts.  used bytes of the block in       *)
(* keystream are spent (0: there is none); what is left of it comes first, *)
(* whole blocks next, and a last partial block leaves its key stream.      *)
CtrCrypt(keystream, used, counter, src, block, space) ==
  LET first == IF used # 0 THEN SmallerOf(Len(src), block - used) ELSE 0
      whole == RoundDown(Len(src) - first, block)
      tail  == Len(src) - first - whole
      ended(bulk, last) ==
        [dst       |-> XorBytes(Slice(src, 0, first), Slice(keystream, used, first))
                         \o bulk.dst
                         \o XorBytes(Slice(src, first + whole, tail), Slice(last.dst, 0, tail)),
         keystream |-> last.dst,
         counter   |-> last.counter]
      after(bulk) ==
        ended(bulk, IF tail > 0 THEN CtrMsb64(bulk.counter, Zeroes(block), block, space)
                    ELSE [dst |-> keystream, counter |-> bulk.counter])
  IN after(CtrMsb64(counter, Slice(src, first, whole), block, space))

(* Data added to a MAC that takes whole blocks.  count bytes wait in the   *)
(* buffer; blocks is what goes to the MAC now.                             *)
BlockAppend(buffer, count, data, block) ==
  LET first  == IF count > 0 THEN SmallerOf(Len(data), block - count) ELSE 0
      filled == CopyTo(buffer, count, Slice(data, 0, first))
      whole  == RoundDown(Len(data) - first, block)
      tail   == Len(data) - first - whole
  IN [blocks |-> (IF count + first = block THEN filled ELSE <<>>) \o Slice(data, first, whole),
      buffer |-> CopyTo(filled, 0, Slice(data, first + whole, tail)),
      count  |-> IF tail > 0 THEN tail ELSE (count + first) % block]
=============================================================================
