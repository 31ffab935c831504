----------------------------- MODULE DrbgProofs -----------------------------
(***************************************************************************)
(* For every width of the counter and every chunk size the blocks of       *)
(* SymCryptRngAesGenerateBlocks are those of the simple loop it replaced.  *)
(* The argument: UntilBoundary never reaches past the largest low half, so *)
(* inside a chunk no carry is lost.                                        *)
(*                                                                         *)
(* For every block, request and seed size, the AES-CTR DRBG generates no   *)
(* counter block twice under one key, and its continuous test always has   *)
(* the last block to compare with.  The argument: every request, and every *)
(* piece of a split one, ends with an update to a new key, so all earlier  *)
(* blocks are of older keys; inside a request the output and the update    *)
(* take consecutive counters, fewer than V can count.                      *)
(***************************************************************************)
EXTENDS DrbgBlocks, AesCtrDrbg, TLAPS

BlocksInv == BlocksTypeOK /\ OutputIsConsecutive /\ VIsLastBlock

(* A remainder is not larger than the number.                              *)
LEMMA RemainderBound ==
  ASSUME NEW a \in Nat, NEW b \in Nat \ {0}
  PROVE  a % b \in Nat /\ a % b <= a
<1>1. CASE a < b
  BY <1>1
<1>2. CASE a >= b
  BY <1>2
<1> QED BY <1>1, <1>2

(* A chunk that starts at next stays below the end of the low half.        *)
LEMMA ChunkFits ==
  ASSUME NEW next \in Halves, NEW count \in Nat
  PROVE  /\ UntilBoundary(next) \in Nat \ {0}
         /\ next + Least(count, UntilBoundary(next)) <= HalfRange
         /\ Least(count, UntilBoundary(next)) \in 0 .. count
         /\ count # 0 => Least(count, UntilBoundary(next)) # 0
<1>1. HalfRange - 1 - next \in Nat /\ next \in Nat /\ HalfRange \in Nat
  BY BlocksAssumption DEF Halves
<1>2. /\ (HalfRange - 1 - next) % ChunkBlocks \in Nat
      /\ (HalfRange - 1 - next) % ChunkBlocks <= HalfRange - 1 - next
  BY <1>1, RemainderBound, BlocksAssumption
<1> QED BY <1>1, <1>2 DEF UntilBoundary, Least

(* One turn of the loop in the terms of the old code.                      *)
LEMMA ChunkStep ==
  ASSUME BlocksTypeOK, GenerateChunk
  PROVE  \E first \in Halves \X Halves, count \in 1 .. cBlocks :
           /\ first = Increment(WholeV)
           /\ first[2] + count <= HalfRange
           /\ out' = out \o [i \in 1 .. count |-> <<first[1], first[2] + i - 1>>]
           /\ high' = first[1]
           /\ low' = first[2] + count - 1
           /\ v' = low'
           /\ cBlocks' = cBlocks - count
           /\ start' = start
<1> DEFINE next  == (low + 1) % HalfRange
           carry == IF next = 0 THEN 1 ELSE 0
           count == Least(cBlocks, UntilBoundary(next))
           first == <<(high + carry) % HalfRange, next>>
<1>1. /\ low \in Nat /\ high \in Nat /\ low < HalfRange /\ high < HalfRange
      /\ HalfRange \in Nat /\ HalfRange > 0
      /\ cBlocks \in Nat
  BY BlocksAssumption DEF BlocksTypeOK, Halves
<1>a. \A a \in Nat : a < HalfRange => a % HalfRange = a
  BY <1>1
<1>b. HalfRange % HalfRange = 0
  BY <1>1
<1>2. next = IF low + 1 < HalfRange THEN low + 1 ELSE 0
  BY <1>1, <1>a, <1>b
<1>3. (high + carry) % HalfRange
        = IF low + 1 < HalfRange THEN high ELSE IF high + 1 < HalfRange THEN high + 1 ELSE 0
  <2>1. CASE low + 1 < HalfRange
    <3>1. next # 0
      BY <1>1, <1>2, <2>1
    <3>2. carry = 0 /\ high + carry = high
      BY <1>1, <3>1
    <3> QED BY <1>1, <1>a, <2>1, <3>2
  <2>2. CASE ~(low + 1 < HalfRange)
    <3>1. next = 0
      BY <1>2, <2>2
    <3>2. carry = 1 /\ high + carry = high + 1
      BY <3>1
    <3> QED BY <1>1, <1>a, <1>b, <2>2, <3>2
  <2> QED BY <2>1, <2>2
<1>4. first = Increment(WholeV)
  BY <1>2, <1>3 DEF Increment, WholeV
<1>5. next \in Halves /\ (high + carry) % HalfRange \in Halves
  BY <1>1, <1>2, <1>3 DEF Halves
<1>6. next + count <= HalfRange /\ count \in 0 .. cBlocks /\ (cBlocks # 0 => count # 0)
  BY <1>1, <1>5, ChunkFits
<1>7. cBlocks # 0
  BY DEF GenerateChunk
<1>8. count \in 1 .. cBlocks
  BY <1>1, <1>6, <1>7
<1>9. CtrMsb64(first[1], next, count) = [i \in 1 .. count |-> <<first[1], next + i - 1>>]
  <2>1. \A i \in 1 .. count : (next + i - 1) % HalfRange = next + i - 1
    <3> SUFFICES ASSUME NEW i \in 1 .. count
                 PROVE  (next + i - 1) % HalfRange = next + i - 1
      OBVIOUS
    <3>1. next + i - 1 \in Nat /\ next + i - 1 < HalfRange
      BY <1>1, <1>5, <1>6, <1>8 DEF Halves
    <3> QED BY <1>a, <3>1
  <2> QED BY <2>1 DEF CtrMsb64
<1>10. (next + count - 1) % HalfRange = next + count - 1
  <2>1. next + count - 1 \in Nat /\ next + count - 1 < HalfRange
    BY <1>1, <1>5, <1>6, <1>8 DEF Halves
  <2> QED BY <1>a, <2>1
<1>11. /\ high' = first[1]
       /\ out' = out \o CtrMsb64(first[1], next, count)
       /\ v' = (next + count - 1) % HalfRange
       /\ low' = v'
       /\ cBlocks' = cBlocks - count
       /\ start' = start
  BY DEF GenerateChunk
<1>12. first \in Halves \X Halves /\ first[2] = next
  BY <1>5
<1> QED BY <1>4, <1>6, <1>8, <1>9, <1>10, <1>11, <1>12

(* The inductive step.                                                     *)
LEMMA BlocksStep ==
  ASSUME BlocksInv, GenerateChunk
  PROVE  BlocksInv'
<1> USE DEF BlocksInv
<1>1. PICK first \in Halves \X Halves, count \in 1 .. cBlocks :
           /\ first = Increment(WholeV)
           /\ first[2] + count <= HalfRange
           /\ out' = out \o [i \in 1 .. count |-> <<first[1], first[2] + i - 1>>]
           /\ high' = first[1]
           /\ low' = first[2] + count - 1
           /\ v' = low'
           /\ cBlocks' = cBlocks - count
           /\ start' = start
  BY ChunkStep
<1> DEFINE chunk == [i \in 1 .. count |-> <<first[1], first[2] + i - 1>>]
<1>2. /\ first[1] \in Halves /\ first[2] \in Nat /\ first[2] < HalfRange /\ HalfRange \in Nat
      /\ count \in Nat /\ count >= 1 /\ count <= cBlocks /\ cBlocks \in Nat /\ cBlocks <= MaxBlocks
  BY <1>1, BlocksAssumption DEF BlocksTypeOK, Halves
<1>3. \A i \in 1 .. count : first[2] + i - 1 \in Halves
  BY <1>1, <1>2, SMTT(20) DEF Halves
<1>4. chunk \in Seq(Halves \X Halves) /\ Len(chunk) = count
  BY <1>2, <1>3
<1>5. /\ out' \in Seq(Halves \X Halves)
      /\ Len(out') = Len(out) + count
      /\ Len(out) \in Nat
      /\ \A i \in 1 .. Len(out) : out'[i] = out[i]
      /\ \A i \in 1 .. count : out'[Len(out) + i] = <<first[1], first[2] + i - 1>>
  BY <1>1, <1>2, <1>4 DEF BlocksTypeOK
<1>a. Len(out') = Len(out) + count /\ Len(out) \in Nat /\ count \in Nat
  BY <1>2, <1>5
<1>6. BlocksTypeOK'
  <2>1. low' \in Halves
    BY <1>1, <1>2, <1>3
  <2> QED BY <1>1, <1>2, <1>5, <2>1, BlocksAssumption DEF BlocksTypeOK
<1>7. out'[Len(out) + 1] = first
  <2>1. out'[Len(out) + 1] = <<first[1], first[2] + 1 - 1>>
    BY <1>2, <1>5
  <2>2. first = <<first[1], first[2]>>
    OBVIOUS
  <2> QED BY <1>2, <2>1, <2>2
<1>8. OutputIsConsecutive'
  <2> SUFFICES ASSUME NEW i \in 1 .. Len(out')
               PROVE  out'[i] = Increment(IF i = 1 THEN start ELSE out'[i - 1])
    BY <1>1 DEF OutputIsConsecutive, Increment
  <2>1. CASE i <= Len(out)
    <3>1. out'[i] = out[i] /\ (i # 1 => out'[i - 1] = out[i - 1])
      BY <1>5, <2>1, SMTT(20)
    <3>2. out[i] = Increment(IF i = 1 THEN start ELSE out[i - 1])
      BY <1>5, <2>1 DEF OutputIsConsecutive
    <3> QED BY <3>1, <3>2
  <2>2. CASE i = Len(out) + 1
    <3>1. WholeV = IF i = 1 THEN start ELSE out'[i - 1]
      <4>1. CASE out = <<>>
        BY <2>2, <4>1 DEF VIsLastBlock
      <4>2. CASE out # <<>>
        <5>1. Len(out) # 0
          BY <4>2 DEF BlocksTypeOK
        <5>2. Len(out) \in 1 .. Len(out) /\ i # 1 /\ i - 1 = Len(out)
          BY <1>5, <2>2, <5>1
        <5> QED BY <1>5, <4>2, <5>2 DEF VIsLastBlock
      <4> QED BY <4>1, <4>2
    <3> QED BY <1>1, <1>7, <2>2, <3>1
  <2>3. CASE i > Len(out) + 1
    <3> DEFINE j == i - Len(out)
    <3>1. j \in 2 .. count /\ i = Len(out) + j /\ i - 1 = Len(out) + (j - 1) /\ i # 1
      BY <1>a, <2>3
    <3>0. j \in 1 .. count /\ j - 1 \in 1 .. count
      BY <1>2, <3>1
    <3>a. out'[Len(out) + j] = <<first[1], first[2] + j - 1>>
      BY <1>5, <3>0
    <3>b. out'[Len(out) + (j - 1)] = <<first[1], first[2] + (j - 1) - 1>>
      BY <1>5, <3>0
    <3>2. out'[i] = <<first[1], first[2] + j - 1>> /\ out'[i - 1] = <<first[1], first[2] + (j - 1) - 1>>
      BY <3>1, <3>a, <3>b
    <3>3. first[2] + (j - 1) - 1 + 1 = first[2] + j - 1 /\ first[2] + j - 1 < HalfRange
      BY <1>1, <1>2, <3>1, SMTT(20)
    <3> QED BY <3>1, <3>2, <3>3 DEF Increment
  <2> QED BY <1>a, <2>1, <2>2, <2>3
<1>9. VIsLastBlock'
  <2>1. Len(out') # 0 /\ out'[Len(out')] = <<first[1], first[2] + count - 1>>
    BY <1>2, <1>5
  <2>2. out' # <<>>
    BY <2>1
  <2> QED BY <1>1, <2>1, <2>2 DEF VIsLastBlock, WholeV
<1> QED BY <1>6, <1>8, <1>9

(* The inductive invariant of the loop.                                    *)
THEOREM BlocksInvariance == BlocksSpec => []BlocksInv
<1>1. BlocksInit => BlocksInv
  <2> SUFFICES ASSUME BlocksInit PROVE BlocksInv
    OBVIOUS
  <2>1. BlocksTypeOK
    BY BlocksAssumption DEF BlocksInit, BlocksTypeOK, Halves
  <2>2. OutputIsConsecutive
    BY DEF BlocksInit, OutputIsConsecutive
  <2>3. VIsLastBlock
    BY DEF BlocksInit, VIsLastBlock, WholeV
  <2> QED BY <2>1, <2>2, <2>3 DEF BlocksInv
<1>2. BlocksInv /\ [BlocksNext]_blocksVars => BlocksInv'
  <2>1. CASE GenerateChunk
    BY <2>1, BlocksStep
  <2>2. CASE UNCHANGED blocksVars
    BY <2>2 DEF blocksVars, BlocksInv, BlocksTypeOK, OutputIsConsecutive, VIsLastBlock, WholeV
  <2> QED BY <2>1, <2>2 DEF BlocksNext, Done
<1> QED BY <1>1, <1>2, PTL DEF BlocksSpec

(* The blocks are those of the code that this loop replaced.               *)
THEOREM BlocksMatchOldCode == BlocksSpec => []MatchesOldCode
BY BlocksInvariance, PTL DEF BlocksInv, MatchesOldCode
-----------------------------------------------------------------------------
(* V counts in a ring: one turn is taken off when it is passed.            *)
LEMMA RingRemainder ==
  ASSUME NEW a \in Nat, a < 2 * VRange
  PROVE  /\ a % VRange = IF a < VRange THEN a ELSE a - VRange
         /\ a % VRange \in Counters
<1>1. VRange \in Nat /\ VRange > 0
  <2>1. MaxRequestSize \div BlockSize \in Nat /\ SeedBlocks \in Nat
    BY DrbgAssumption
  <2> QED BY <2>1, DrbgAssumption
<1>2. CASE a < VRange
  BY <1>1, <1>2 DEF Counters
<1>3. CASE a >= VRange
  <2>1. a - VRange \in 0 .. VRange - 1
    BY <1>1, <1>3
  <2>2. a % VRange = a - VRange
    BY <1>1, <1>3, <2>1
  <2> QED BY <1>1, <1>3, <2>1, <2>2 DEF Counters
<1> QED BY <1>1, <1>2, <1>3

(* A quotient by what it is bounded by.                                    *)
LEMMA QuotientBound ==
  ASSUME NEW a \in Nat, NEW b \in Nat \ {0}, NEW q \in Nat, a < (q + 1) * b
  PROVE  a \div b \in Nat /\ a \div b <= q
<1> DEFINE d == a \div b
<1>1. d \in Nat /\ d * b <= a
  OBVIOUS
<1> HIDE DEF d
<1>2. ASSUME d >= q + 1 PROVE FALSE
  <2>1. d * b >= (q + 1) * b
    BY <1>1, <1>2
  <2> QED BY <1>1, <2>1
<1>3. d <= q
  BY <1>1, <1>2
<1> QED BY <1>1, <1>3 DEF d

(* A piece of a request takes at least one block and, with the update, too *)
(* few to come round to its first.                                         *)
LEMMA SmallBlocksBound ==
  ASSUME cbRandom \in Nat, cbRandom > 0
  PROVE  /\ SmallSize \in 1 .. cbRandom
         /\ SmallBlocks \in Nat /\ SmallBlocks >= 1
         /\ SmallBlocks + SeedBlocks < VRange
<1> DEFINE q == MaxRequestSize \div BlockSize
<1>1. /\ BlockSize \in Nat /\ BlockSize > 0 /\ MaxRequestSize \in Nat /\ MaxRequestSize > 0
      /\ SeedBlocks \in Nat /\ VRange \in Nat /\ VRange > q + SeedBlocks
      /\ MaxRequestSize % BlockSize = 0
  BY DrbgAssumption
<1>2. q \in Nat /\ q * BlockSize = MaxRequestSize
  <2>1. \A m \in Nat, b \in Nat \ {0} : m % b = 0 => (m \div b) * b = m /\ m \div b \in Nat
    OBVIOUS
  <2> QED BY <1>1, <2>1
<1> HIDE DEF q
<1>3. SmallSize \in 1 .. cbRandom /\ SmallSize <= MaxRequestSize
  BY <1>1 DEF SmallSize, LeastSize
<1> DEFINE a == SmallSize + BlockSize - 1
<1>4. a \in Nat /\ a >= BlockSize /\ a < MaxRequestSize + BlockSize
  BY <1>1, <1>3
<1>5. MaxRequestSize + BlockSize = (q + 1) * BlockSize
  BY <1>1, <1>2
<1> HIDE DEF a
<1>6. a \div BlockSize \in Nat /\ a \div BlockSize <= q
  BY <1>1, <1>2, <1>4, <1>5, QuotientBound
<1>7. a \div BlockSize >= 1
  BY <1>1, <1>4
<1>8. SmallBlocks = a \div BlockSize
  BY DEF SmallBlocks, a
<1> QED BY <1>1, <1>2, <1>3, <1>6, <1>7, <1>8

(* The output of a piece and the blocks of its update are different.       *)
LEMMA UpdateAfterOutput ==
  ASSUME V \in Counters, cbRandom \in Nat, cbRandom > 0
  PROVE  /\ GenerateBlocks(V, SmallBlocks) \cap GenerateBlocks(NextV, SeedBlocks) = {}
         /\ NextV \in Counters
<1>1. /\ SmallBlocks \in Nat /\ SmallBlocks >= 1 /\ SmallBlocks + SeedBlocks < VRange
      /\ SeedBlocks \in Nat /\ VRange \in Nat /\ V \in Nat /\ V < VRange
  BY SmallBlocksBound, DrbgAssumption DEF Counters
<1>2. NextV = IF V + SmallBlocks < VRange THEN V + SmallBlocks ELSE V + SmallBlocks - VRange
  BY <1>1, RingRemainder DEF NextV
<1>3. NextV \in Counters
  BY <1>1, RingRemainder DEF NextV
<1>4. ASSUME NEW i \in 1 .. SmallBlocks, NEW j \in 1 .. SeedBlocks
      PROVE  BlockAt(V, i) # BlockAt(NextV, j)
  <2>1. (V + i) % VRange = IF V + i < VRange THEN V + i ELSE V + i - VRange
    BY <1>1, RingRemainder
  <2>2. (NextV + j) % VRange = IF NextV + j < VRange THEN NextV + j ELSE NextV + j - VRange
    <3>1. NextV \in Nat /\ NextV < VRange
      BY <1>1, <1>3 DEF Counters
    <3>2. \A n \in Nat : n < VRange => (n + j) % VRange = IF n + j < VRange THEN n + j ELSE n + j - VRange
      BY <1>1, RingRemainder
    <3> QED BY <3>1, <3>2
  <2>3. (V + i) % VRange # (NextV + j) % VRange
    BY <1>1, <1>2, <2>1, <2>2
  <2> QED BY <2>3 DEF BlockAt
<1> QED BY <1>3, <1>4 DEF GenerateBlocks

(* A generated block is one of the current key.                            *)
LEMMA GeneratedBlocks ==
  ASSUME DrbgTypeOK, NEW from \in Counters, NEW count \in Nat, count < VRange
  PROVE  /\ GenerateBlocks(from, count) \subseteq Blocks
         /\ \A block \in GenerateBlocks(from, count) : block[1] = key
         /\ \A i \in 1 .. count : BlockAt(from, i) \in Blocks
<1>1. VRange \in Nat /\ from \in Nat /\ from < VRange /\ key \in 0 .. MaxKeys
  BY DrbgAssumption DEF Counters, DrbgTypeOK
<1>2. ASSUME NEW i \in 1 .. count
      PROVE  BlockAt(from, i) \in Blocks /\ BlockAt(from, i)[1] = key
  <2>1. (from + i) % VRange \in Counters
    <3>1. from + i \in Nat /\ from + i < 2 * VRange
      BY <1>1
    <3> QED BY <3>1, RingRemainder
  <2> QED BY <1>1, <2>1 DEF BlockAt, Blocks
<1> QED BY <1>2 DEF GenerateBlocks
-----------------------------------------------------------------------------
(* No generator has been instantiated, and no block made.                  *)
LEMMA DrbgInitially == DrbgInit => DrbgInv
<1> SUFFICES ASSUME DrbgInit PROVE DrbgInv
  OBVIOUS
<1>1. 0 \in Counters
  <2>1. 0 % VRange \in Counters /\ 0 < VRange /\ VRange \in Nat
    <3>1. MaxRequestSize \div BlockSize \in Nat /\ SeedBlocks \in Nat
      BY DrbgAssumption
    <3> QED BY <3>1, DrbgAssumption, RingRemainder
  <2> QED BY <2>1 DEF Counters
<1>2. DrbgTypeOK
  <2>1. /\ instantiated \in BOOLEAN /\ fips140_2Check \in BOOLEAN /\ collided \in BOOLEAN
        /\ previousBlock \in Blocks \cup {NoBlock} /\ lastBlock \in Blocks \cup {NoBlock}
        /\ drbgPc \in {"idle", "generate", "fatal"} /\ dest \in {"caller", "previous"}
        /\ drbgOutput \subseteq Blocks /\ secret \subseteq Blocks
    BY DEF DrbgInit
  <2>2. key \in 0 .. MaxKeys /\ requestCounter \in 0 .. MaxRequests + 1 /\ keys \in 0 .. MaxKeys /\ cbRandom \in Nat
    BY DrbgAssumption DEF DrbgInit
  <2> QED BY <1>1, <2>1, <2>2 DEF DrbgInit, DrbgTypeOK
<1>3. KeyLaw /\ PreviousLaw /\ NoBlockTwice
  BY DEF DrbgInit, KeyLaw, PreviousLaw, NoBlockTwice
<1> QED BY <1>2, <1>3 DEF DrbgInv

(* A new seed is a new key, and in the FIPS version the first block is     *)
(* still to be made; a seed of a wrong size leaves no generator.           *)
LEMMA InstantiateStep ==
  ASSUME DrbgInv, NEW cbSeed \in SeedSizes, NEW fips \in BOOLEAN, Instantiate(cbSeed, fips)
  PROVE  DrbgInv'
<1>1. /\ keys \in Nat /\ keys < MaxKeys /\ MaxKeys \in Nat
      /\ BlockSize \in Nat /\ BlockSize > 0 /\ MaxRequests \in Nat
      /\ fips140_2Check' = FALSE /\ previousBlock' = NoBlock /\ lastBlock' = NoBlock
      /\ UNCHANGED <<drbgOutput, secret, collided>>
      /\ drbgPc = "idle"
  BY DrbgAssumption DEF DrbgInv, DrbgTypeOK, Instantiate
<1>2. CASE SeedSizeOK(cbSeed)
  <2>1. /\ instantiated' = TRUE
        /\ key' = keys + 1 /\ keys' = keys + 1 /\ V' \in Counters
        /\ requestCounter' = 1
        /\ drbgPc' = IF fips THEN "generate" ELSE "idle"
        /\ cbRandom' = IF fips THEN BlockSize ELSE 0
        /\ dest' = IF fips THEN "previous" ELSE "caller"
    BY <1>2 DEF Instantiate, Update
  <2>2. DrbgTypeOK'
    <3>1. key' \in 0 .. MaxKeys /\ keys' \in 0 .. MaxKeys /\ requestCounter' \in 0 .. MaxRequests + 1
      BY <1>1, <2>1
    <3>2. drbgPc' \in {"idle", "generate", "fatal"} /\ cbRandom' \in Nat /\ dest' \in {"caller", "previous"}
      BY <1>1, <2>1
    <3> QED BY <1>1, <2>1, <3>1, <3>2 DEF DrbgInv, DrbgTypeOK, Blocks, Counters
  <2>3. KeyLaw'
    <3>1. ASSUME NEW block \in drbgOutput' \cup secret' PROVE block[1] < keys'
      <4>1. block \in Blocks /\ block[1] < keys
        BY <1>1 DEF DrbgInv, DrbgTypeOK, KeyLaw
      <4>2. block[1] \in Int
        BY <4>1 DEF Blocks
      <4> QED BY <1>1, <2>1, <4>1, <4>2
    <3>2. drbgPc' = "generate" => cbRandom' > 0
      BY <1>1, <2>1
    <3> QED BY <2>1, <3>1, <3>2 DEF KeyLaw
  <2> QED BY <1>1, <2>2, <2>3 DEF DrbgInv, PreviousLaw, NoBlockTwice
<1>3. CASE ~SeedSizeOK(cbSeed)
  <2>1. /\ instantiated' = FALSE /\ key' = 0 /\ V' = 0 /\ requestCounter' = 0
        /\ UNCHANGED <<keys, drbgPc, cbRandom, dest>>
    BY <1>3 DEF Instantiate
  <2>2. 0 \in Counters
    BY DrbgAssumption DEF DrbgInv, DrbgTypeOK, Counters
  <2>3. DrbgTypeOK'
    <3>1. key' \in 0 .. MaxKeys /\ requestCounter' \in 0 .. MaxRequests + 1 /\ V' \in Counters
      BY <1>1, <2>1, <2>2
    <3> QED BY <1>1, <2>1, <3>1 DEF DrbgInv, DrbgTypeOK, Blocks, Counters
  <2>4. KeyLaw'
    BY <1>1, <2>1 DEF DrbgInv, KeyLaw
  <2> QED BY <1>1, <2>3, <2>4 DEF DrbgInv, PreviousLaw, NoBlockTwice
<1> QED BY <1>2, <1>3

(* Wiping the state keeps no key in use.                                   *)
LEMMA UninstantiateStep ==
  ASSUME DrbgInv, Uninstantiate
  PROVE  DrbgInv'
<1>1. /\ instantiated' = FALSE /\ key' = 0 /\ V' = 0 /\ requestCounter' = 0
      /\ fips140_2Check' = FALSE /\ previousBlock' = NoBlock /\ lastBlock' = NoBlock
      /\ drbgPc = "idle"
      /\ UNCHANGED <<drbgPc, cbRandom, dest, keys, drbgOutput, secret, collided>>
  BY DEF Uninstantiate
<1>2. 0 \in Counters /\ MaxKeys \in Nat /\ MaxRequests \in Nat
  BY DrbgAssumption DEF DrbgInv, DrbgTypeOK, Counters
<1>3. DrbgTypeOK'
  <2>1. key' \in 0 .. MaxKeys /\ requestCounter' \in 0 .. MaxRequests + 1 /\ V' \in Counters
    BY <1>1, <1>2
  <2> QED BY <1>1, <2>1 DEF DrbgInv, DrbgTypeOK, Blocks, Counters
<1>4. KeyLaw'
  BY <1>1 DEF DrbgInv, KeyLaw
<1> QED BY <1>1, <1>3, <1>4 DEF DrbgInv, PreviousLaw, NoBlockTwice

(* A reseed makes its blocks under the old key and goes on under a new     *)
(* one.                                                                    *)
LEMMA ReseedKeyStep ==
  ASSUME DrbgInv, NEW cbSeed \in SeedSizes, Reseed(cbSeed)
  PROVE  DrbgInv'
<1> DEFINE seeds == GenerateBlocks(V, SeedBlocks)
<1>1. /\ keys \in Nat /\ keys < MaxKeys /\ MaxKeys \in Nat /\ MaxRequests \in Nat
      /\ V \in Counters /\ SeedBlocks \in Nat
  BY DrbgAssumption DEF DrbgInv, DrbgTypeOK, Reseed
<1>2. /\ instantiated /\ drbgPc = "idle"
      /\ key' = keys + 1 /\ keys' = keys + 1 /\ V' \in Counters
      /\ secret' = secret \cup seeds
      /\ collided' = (collided \/ seeds \cap (drbgOutput \cup secret) # {})
      /\ requestCounter' = 1
      /\ UNCHANGED <<instantiated, fips140_2Check, previousBlock, drbgPc, cbRandom, dest, drbgOutput, lastBlock>>
  BY DEF Reseed, Update
<1>3. SeedBlocks < VRange
  <2>1. MaxRequestSize \div BlockSize \in Nat
    BY DrbgAssumption
  <2> QED BY <2>1, DrbgAssumption
<1>4. seeds \subseteq Blocks /\ \A block \in seeds : block[1] = key
  BY <1>1, <1>3, GeneratedBlocks DEF DrbgInv
<1>5. key = keys
  BY <1>2 DEF DrbgInv, KeyLaw
<1> HIDE DEF seeds
<1>6. \A block \in drbgOutput \cup secret : block[1] < keys /\ block[1] \in Int
  BY DEF DrbgInv, KeyLaw, DrbgTypeOK, Blocks
<1>7. seeds \cap (drbgOutput \cup secret) = {}
  BY <1>1, <1>4, <1>5, <1>6
<1>8. collided' = FALSE
  BY <1>2, <1>7, Zenon DEF DrbgInv, NoBlockTwice
<1>9. DrbgTypeOK'
  <2>1. key' \in 0 .. MaxKeys /\ keys' \in 0 .. MaxKeys /\ requestCounter' \in 0 .. MaxRequests + 1
    BY <1>1, <1>2
  <2> QED BY <1>2, <1>4, <1>8, <2>1 DEF DrbgInv, DrbgTypeOK, Blocks, Counters
<1>10. KeyLaw'
  <2>1. \A block \in drbgOutput' \cup secret' : block[1] < keys'
    BY <1>1, <1>2, <1>4, <1>5, <1>6
  <2> QED BY <1>2, <2>1 DEF DrbgInv, KeyLaw
<1> QED BY <1>2, <1>8, <1>9, <1>10 DEF DrbgInv, PreviousLaw, NoBlockTwice

(* A request that only begins, or ends in a fatal error.                   *)
LEMMA GenerateStep ==
  ASSUME DrbgInv, (\E cb \in RequestSizes : Generate(cb)) \/ GenerateFatal
  PROVE  DrbgInv'
<1>1. /\ UNCHANGED <<instantiated, key, V, requestCounter, fips140_2Check, previousBlock, keys,
                     drbgOutput, secret, collided, lastBlock>>
      /\ drbgPc' \in {"generate", "fatal"} /\ instantiated
      /\ cbRandom' \in Nat /\ (cbRandom' > 0 \/ drbgPc' = "fatal")
      /\ dest' \in {"caller", "previous"}
  <2>1. CASE \E cb \in RequestSizes : Generate(cb)
    <3>1. PICK cb \in RequestSizes : Generate(cb)
      BY <2>1
    <3>2. cb \in Nat /\ cb > 0
      BY DrbgAssumption
    <3> QED BY <3>1, <3>2 DEF Generate, rngState, drbgHistory
  <2>2. CASE GenerateFatal
    BY <2>2 DEF GenerateFatal, rngState, drbgHistory, DrbgInv, DrbgTypeOK, KeyLaw
  <2> QED BY <2>1, <2>2
<1>2. DrbgTypeOK'
  BY <1>1 DEF DrbgInv, DrbgTypeOK, Blocks, Counters
<1>3. KeyLaw'
  BY <1>1 DEF DrbgInv, KeyLaw
<1> QED BY <1>1, <1>2, <1>3 DEF DrbgInv, PreviousLaw, NoBlockTwice

(* One small request: its blocks and those of the update are consecutive   *)
(* and fewer than the values of V, and the key is then replaced.           *)
LEMMA GenerateSmallStep ==
  ASSUME DrbgInv, GenerateSmall
  PROVE  DrbgInv'
<1> DEFINE blocks == GenerateBlocks(V, SmallBlocks)
           seeds == GenerateBlocks(NextV, SeedBlocks)
           last == BlockAt(V, SmallBlocks)
<1>1. /\ keys \in Nat /\ keys < MaxKeys /\ MaxKeys \in Nat /\ MaxRequests \in Nat
      /\ V \in Counters /\ SeedBlocks \in Nat /\ VRange \in Nat
      /\ requestCounter \in Nat /\ requestCounter <= MaxRequests
      /\ cbRandom \in Nat /\ cbRandom > 0 /\ key = keys /\ instantiated
  BY DrbgAssumption DEF DrbgInv, DrbgTypeOK, KeyLaw, GenerateSmall, TooManyRequests
<1>2. /\ key' = keys + 1 /\ keys' = keys + 1 /\ V' \in Counters
      /\ drbgOutput' = drbgOutput \cup blocks
      /\ secret' = secret \cup seeds
      /\ collided' = (collided \/ blocks \cap (drbgOutput \cup secret) # {}
                               \/ seeds \cap (drbgOutput \cup secret \cup blocks) # {})
      /\ lastBlock' = last
      /\ previousBlock' = IF dest = "previous" \/ (fips140_2Check /\ Remembered > 0)
                          THEN BlockAt(V, Remembered) ELSE previousBlock
      /\ requestCounter' = requestCounter + 1
      /\ cbRandom' = cbRandom - SmallSize
      /\ drbgPc' = IF cbRandom' = 0 THEN "idle" ELSE "generate"
      /\ fips140_2Check' = (fips140_2Check \/ dest = "previous")
      /\ UNCHANGED <<instantiated, dest>>
  BY DEF GenerateSmall, Update
<1>3. /\ SmallSize \in 1 .. cbRandom
      /\ SmallBlocks \in Nat /\ SmallBlocks >= 1
      /\ SmallBlocks + SeedBlocks < VRange
  BY <1>1, SmallBlocksBound
<1>4. blocks \cap seeds = {} /\ NextV \in Counters
  BY <1>1, UpdateAfterOutput
<1>5. /\ blocks \subseteq Blocks /\ \A block \in blocks : block[1] = key
      /\ last \in Blocks
  BY <1>1, <1>3, GeneratedBlocks DEF DrbgInv
<1>6. seeds \subseteq Blocks /\ \A block \in seeds : block[1] = key
  BY <1>1, <1>3, <1>4, GeneratedBlocks DEF DrbgInv
<1>7. fips140_2Check' => previousBlock' = lastBlock'
  <2>1. Remembered > 0 /\ BlockAt(V, Remembered) = last
    BY <1>3 DEF Remembered
  <2> QED BY <1>2, <2>1, Zenon
<1>8. previousBlock' \in Blocks \cup {NoBlock}
  BY <1>2, <1>5 DEF Remembered, DrbgInv, DrbgTypeOK
<1> HIDE DEF blocks, seeds, last
<1>9. \A block \in drbgOutput \cup secret : block[1] < keys /\ block[1] \in Int
  BY DEF DrbgInv, KeyLaw, DrbgTypeOK, Blocks
<1>10. /\ blocks \cap (drbgOutput \cup secret) = {}
       /\ seeds \cap (drbgOutput \cup secret \cup blocks) = {}
  BY <1>1, <1>4, <1>5, <1>6, <1>9
<1>11. collided' = FALSE
  BY <1>2, <1>10, Zenon DEF DrbgInv, NoBlockTwice
<1>12. cbRandom' \in Nat
  BY <1>1, <1>2, <1>3
<1>13. DrbgTypeOK'
  <2>1. key' \in 0 .. MaxKeys /\ keys' \in 0 .. MaxKeys /\ requestCounter' \in 0 .. MaxRequests + 1
    BY <1>1, <1>2
  <2>2. drbgOutput' \subseteq Blocks /\ secret' \subseteq Blocks
    BY <1>2, <1>5, <1>6 DEF DrbgInv, DrbgTypeOK
  <2>3. drbgPc' \in {"idle", "generate", "fatal"} /\ fips140_2Check' \in BOOLEAN /\ dest' \in {"caller", "previous"}
    BY <1>2 DEF DrbgInv, DrbgTypeOK
  <2>4. instantiated' \in BOOLEAN /\ collided' \in BOOLEAN
    BY <1>2, <1>11 DEF DrbgInv, DrbgTypeOK
  <2> QED BY <1>2, <1>5, <1>8, <1>12, <2>1, <2>2, <2>3, <2>4 DEF DrbgTypeOK, Blocks, Counters
<1>14. KeyLaw'
  <2>1. \A block \in drbgOutput' \cup secret' : block[1] < keys'
    BY <1>1, <1>2, <1>5, <1>6, <1>9
  <2>2. drbgPc' = "generate" => cbRandom' > 0
    BY <1>2, <1>12
  <2> QED BY <1>1, <1>2, <2>1, <2>2 DEF KeyLaw
<1> QED BY <1>7, <1>11, <1>13, <1>14 DEF DrbgInv, PreviousLaw, NoBlockTwice

(* A stuttering step.                                                      *)
LEMMA DrbgStutters ==
  ASSUME DrbgInv, UNCHANGED drbgVars
  PROVE  DrbgInv'
<1>1. UNCHANGED <<instantiated, key, V, requestCounter, fips140_2Check, previousBlock, drbgPc, cbRandom, dest,
                  keys, drbgOutput, secret, collided, lastBlock>>
  BY DEF drbgVars, rngState, drbgHistory
<1>2. DrbgTypeOK'
  BY <1>1 DEF DrbgInv, DrbgTypeOK, Blocks, Counters
<1>3. KeyLaw' /\ PreviousLaw' /\ NoBlockTwice'
  BY <1>1 DEF DrbgInv, KeyLaw, PreviousLaw, NoBlockTwice
<1> QED BY <1>2, <1>3 DEF DrbgInv

(* The inductive invariant of the generator, for every block size, request *)
(* size, seed size and width of V that leaves room for one request.        *)
THEOREM DrbgInvariance == DrbgSpec => []DrbgInv
<1>1. DrbgInv /\ [DrbgNext]_drbgVars => DrbgInv'
  BY InstantiateStep, ReseedKeyStep, UninstantiateStep, GenerateStep, GenerateSmallStep, DrbgStutters
     DEF DrbgNext
<1> QED BY <1>1, DrbgInitially, PTL DEF DrbgSpec

(* No counter block is generated twice under one key: no output repeats    *)
(* and none was ever part of the generator's own key or V.                 *)
THEOREM DrbgNoBlockTwice == DrbgSpec => []NoBlockTwice
BY DrbgInvariance, PTL DEF DrbgInv

(* Between requests the continuous test remembers the last block that was  *)
(* generated, whatever part of it the caller was given.                    *)
THEOREM DrbgContinuousTestComplete == DrbgSpec => []ContinuousTestComplete
<1>1. DrbgInv => ContinuousTestComplete
  BY DEF DrbgInv, PreviousLaw, ContinuousTestComplete
<1> QED BY <1>1, DrbgInvariance, PTL
=============================================================================
