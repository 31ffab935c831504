------------------------------ MODULE DrbgBlocks ------------------------------
(***************************************************************************)
(* SymCryptRngAesGenerateBlocks of lib/aesCtrDrbg.c.  SP 800-90 asks for   *)
(* the encryptions of V+1, V+2, ... where V is a 128-bit counter.  The     *)
(* code gets them from SymCryptAesCtrMsb64, which increments after each    *)
(* block instead of before it and only the low 64 bits, so the loop        *)
(* pre-increments by hand, stops every call at a boundary and puts the     *)
(* counter one back afterwards.  "The roll-over of the counter is hard to  *)
(* test", says the code.                                                   *)
(*                                                                         *)
(* A block of output is identified by the counter value it encrypts, a     *)
(* pair <<high, low>>; AES under one key is injective.                     *)
(***************************************************************************)
EXTENDS Integers, Sequences

CONSTANTS
  HalfRange,      \* 2^64 in the code: the range of each half of V
  ChunkBlocks,    \* MAX_CTRMSB64_BLOCKS: 1 << 10, or 1 << 3 in checked builds
  MaxBlocks       \* bound on the blocks of one call

ASSUME BlocksAssumption ==
  /\ HalfRange \in Nat \ {0}
  /\ ChunkBlocks \in Nat \ {0}
  /\ MaxBlocks \in Nat

VARIABLES
  high, low,   \* pV[0..7] and pV[8..15]
  v,           \* the local copy of the low half
  cBlocks,     \* blocks still to produce
  out,         \* the counter values encrypted so far
  start        \* history: V at the call

blocksVars == <<high, low, v, cBlocks, out, start>>

Halves == 0 .. HalfRange - 1
WholeV == <<high, low>>

Least(a, b) == IF a < b THEN a ELSE b

(* Mutant: every call to SymCryptAesCtrMsb64 is cut one block too late.    *)
UntilBoundaryTooFar(number) == 2 + ((HalfRange - 1 - number) % ChunkBlocks)

(* 1 + ((~v) & (MAX_CTRMSB64_BLOCKS - 1)): for a power of two the mask is  *)
(* a remainder, and ~v is the distance from v to the largest value.        *)
UntilBoundary(number) == 1 + ((HalfRange - 1 - number) % ChunkBlocks)

(* SymCryptAesCtrMsb64 on count blocks: the high half stays, the low one   *)
(* counts up without a carry.                                              *)
CtrMsb64(hi, lo, count) == [i \in 1 .. count |-> <<hi, (lo + i - 1) % HalfRange>>]

BlocksInit ==
  /\ high \in Halves
  /\ low \in Halves
  /\ cBlocks \in 0 .. MaxBlocks
  /\ v = low
  /\ out = <<>>
  /\ start = <<high, low>>

(* Mutant: the correction of the post-increment is forgotten.              *)
GenerateChunkNoDecrement ==
  LET next  == (low + 1) % HalfRange
      carry == IF next = 0 THEN 1 ELSE 0
      todo  == Least(cBlocks, UntilBoundary(next))
  IN /\ cBlocks # 0
     /\ high' = (high + carry) % HalfRange
     /\ out' = out \o CtrMsb64(high', next, todo)
     /\ v' = (next + todo) % HalfRange
     /\ low' = v'
     /\ cBlocks' = cBlocks - todo
     /\ UNCHANGED start

(* One turn of the loop: pre-increment V with its carry, encrypt up to the *)
(* boundary, then put back the low half without a carry.                   *)
GenerateChunk ==
  LET next  == (low + 1) % HalfRange
      carry == IF next = 0 THEN 1 ELSE 0
      todo  == Least(cBlocks, UntilBoundary(next))
  IN /\ cBlocks # 0
     /\ high' = (high + carry) % HalfRange
     /\ out' = out \o CtrMsb64(high', next, todo)
     /\ v' = (next + todo - 1) % HalfRange
     /\ low' = v'
     /\ cBlocks' = cBlocks - todo
     /\ UNCHANGED start

Done == cBlocks = 0 /\ UNCHANGED blocksVars

BlocksNext == GenerateChunk \/ Done

BlocksSpec == BlocksInit /\ [][BlocksNext]_blocksVars

-----------------------------------------------------------------------------
(* The old code, kept in the file behind TEST_AGAINST_OLD_CODE: increment  *)
(* the 128-bit block, then encrypt it.                                     *)
Increment(block) ==
  IF block[2] + 1 < HalfRange
  THEN <<block[1], block[2] + 1>>
  ELSE <<IF block[1] + 1 < HalfRange THEN block[1] + 1 ELSE 0, 0>>

(* The halves of V are 64-bit words, and so are those of every block.      *)
BlocksTypeOK ==
  /\ high \in Halves /\ low \in Halves /\ v \in Halves
  /\ cBlocks \in 0 .. MaxBlocks
  /\ out \in Seq(Halves \X Halves)
  /\ start \in Halves \X Halves

(* The blocks are consecutive 128-bit counter values from V+1 on, across   *)
(* every roll-over of the low half.                                        *)
OutputIsConsecutive ==
  \A i \in 1 .. Len(out) : out[i] = Increment(IF i = 1 THEN start ELSE out[i - 1])

(* V is left at the last block used, so that the next call neither repeats *)
(* nor skips one.                                                          *)
VIsLastBlock == WholeV = IF out = <<>> THEN start ELSE out[Len(out)]

(* Output and V are what the old code would have left, which incremented   *)
(* all of V for each block.                                                *)
MatchesOldCode == OutputIsConsecutive /\ VIsLastBlock

(* The assertion in the loop: "SYMCRYPT_ASSERT( v != 0 )" after each turn.  *)
AssertVNotZero == out # <<>> => v # 0

=============================================================================
