------------------------------ MODULE AesCtrDrbg ------------------------------
(***************************************************************************)
(* One SYMCRYPT_RNG_AES_STATE of lib/aesCtrDrbg.c, with and without the    *)
(* FIPS 140-2 continuous test.  The caller serialises the calls on it.     *)
(* Keys are numbered as they are made: AES under each is a different       *)
(* injective function, so a block of output is the pair <<key, counter>>.  *)
(* V is one counter, incremented before each block: that the loop of       *)
(* SymCryptRngAesGenerateBlocks does this is the subject of DrbgBlocks.    *)
(***************************************************************************)
EXTENDS Integers, FiniteSets

CONSTANTS
  BlockSize,         \* SYMCRYPT_AES_BLOCK_SIZE: 16
  MaxRequestSize,    \* SYMCRYPT_RNG_AES_MAX_REQUEST_SIZE: 2^16
  MaxRequests,       \* SYMCRYPT_RNG_AES_MAX_REQUESTS_PER_RESEED: 2^48
  SeedBlocks,        \* SYMCRYPT_RNG_AES_KEY_AND_V_SIZE in blocks: 3
  VRange,            \* 2^128: the range of V
  MinReseedSize,     \* SYMCRYPT_RNG_AES_MIN_RESEED_SIZE: 32
  MinInstantiateSize,\* SYMCRYPT_RNG_AES_MIN_INSTANTIATE_SIZE: 48
  MaxSeedSize,       \* SYMCRYPT_RNG_AES_MAX_SEED_SIZE: 256
  RequestSizes,      \* request sizes the callers use
  SeedSizes,         \* seed sizes the callers use
  MaxKeys            \* bound on the keys made

ASSUME DrbgAssumption ==
  /\ BlockSize \in Nat \ {0} /\ MaxRequestSize \in Nat \ {0} /\ MaxRequests \in Nat \ {0}
  /\ MaxRequestSize % BlockSize = 0
  /\ SeedBlocks \in Nat \ {0}
  /\ VRange \in Nat /\ VRange > (MaxRequestSize \div BlockSize) + SeedBlocks
  /\ 0 < MinReseedSize /\ MinReseedSize <= MinInstantiateSize /\ MinInstantiateSize <= MaxSeedSize
  /\ RequestSizes \subseteq Nat \ {0} /\ SeedSizes \subseteq Nat
  /\ MaxKeys \in Nat

VARIABLES
  instantiated,    \* the last Instantiate succeeded and no Uninstantiate followed
  key, V,          \* pRngState->keyAndV; key 0 is the wiped one
  requestCounter,  \* pRngState->requestCounter
  fips140_2Check,  \* pRngState->fips140_2Check
  previousBlock,   \* pRngState->previousBlock
  drbgPc,          \* "idle", inside SymCryptRngAesGenerate, or stopped by SymCryptFatal
  cbRandom,        \* what SymCryptRngAesGenerate still has to produce
  dest,            \* where it goes: the caller's buffer or previousBlock
  keys,            \* history: number of keys made
  drbgOutput,      \* history: blocks generated for output
  secret,          \* history: blocks that became a key or a V
  collided,        \* history: some block was generated twice
  lastBlock        \* history: the last block generated for output

rngState == <<key, V, requestCounter, fips140_2Check, previousBlock>>
drbgHistory == <<drbgOutput, secret, collided, lastBlock>>
drbgVars == <<instantiated, rngState, drbgPc, cbRandom, dest, keys, drbgHistory>>

Counters == 0 .. VRange - 1
Blocks == (0 .. MaxKeys) \X Counters
NoBlock == <<-1, -1>>

LeastSize(a, b) == IF a < b THEN a ELSE b

(* SymCryptRngAesGenerateBlocks: the count blocks after counter value from. *)
BlockAt(from, i) == <<key, (from + i) % VRange>>
GenerateBlocks(from, count) == {BlockAt(from, i) : i \in 1 .. count}

(* The wiped structure.                                                    *)
DrbgInit ==
  /\ instantiated = FALSE
  /\ key = 0 /\ V = 0
  /\ requestCounter = 0
  /\ fips140_2Check = FALSE
  /\ previousBlock = NoBlock
  /\ drbgPc = "idle" /\ cbRandom = 0 /\ dest = "caller"
  /\ keys = 0
  /\ drbgOutput = {} /\ secret = {} /\ collided = FALSE /\ lastBlock = NoBlock

(* SymCryptRngAesUpdate: three more blocks become the new key and V, with  *)
(* the seed mixed in or not; any V may come out.                           *)
Update ==
  /\ key' = keys + 1
  /\ keys' = keys + 1
  /\ V' \in Counters

SeedSizeOK(cbSeed) == cbSeed >= MinReseedSize /\ cbSeed <= MaxSeedSize

(* SymCryptRngAesReseed.  A seed of the wrong size leaves the state alone  *)
(* (a stuttering step, left out).                                          *)
Reseed(cbSeed) ==
  /\ drbgPc = "idle" /\ instantiated
  /\ keys < MaxKeys
  /\ SeedSizeOK(cbSeed)
  /\ Update
  /\ secret' = secret \cup GenerateBlocks(V, SeedBlocks)
  /\ collided' = (collided \/ GenerateBlocks(V, SeedBlocks) \cap (drbgOutput \cup secret) # {})
  /\ requestCounter' = 1
  /\ UNCHANGED <<instantiated, fips140_2Check, previousBlock, drbgPc, cbRandom, dest, drbgOutput, lastBlock>>

(* SymCryptRngAesInstantiate: too little seed is refused at once; else the *)
(* state is wiped and reseeded from there, and too much seed leaves it     *)
(* wiped.  The FIPS 140-2 variant goes on to generate its first block into *)
(* previousBlock.  The wiped key and V of one instance are those of every  *)
(* other, so its blocks are not counted as generated by this one.          *)
Instantiate(cbSeed, fips) ==
  /\ drbgPc = "idle"
  /\ keys < MaxKeys
  /\ cbSeed >= MinInstantiateSize
  /\ fips140_2Check' = FALSE
  /\ previousBlock' = NoBlock
  /\ lastBlock' = NoBlock
  /\ IF SeedSizeOK(cbSeed)
     THEN /\ instantiated' = TRUE
          /\ Update
          /\ requestCounter' = 1
          /\ drbgPc' = IF fips THEN "generate" ELSE "idle"
          /\ cbRandom' = IF fips THEN BlockSize ELSE 0
          /\ dest' = IF fips THEN "previous" ELSE "caller"
     ELSE /\ instantiated' = FALSE
          /\ key' = 0 /\ V' = 0
          /\ requestCounter' = 0
          /\ UNCHANGED <<keys, drbgPc, cbRandom, dest>>
  /\ UNCHANGED <<drbgOutput, secret, collided>>

(* SymCryptRngAesUninstantiate wipes the state.                            *)
Uninstantiate ==
  /\ drbgPc = "idle" /\ instantiated
  /\ instantiated' = FALSE
  /\ key' = 0 /\ V' = 0
  /\ requestCounter' = 0
  /\ fips140_2Check' = FALSE
  /\ previousBlock' = NoBlock
  /\ lastBlock' = NoBlock
  /\ UNCHANGED <<drbgPc, cbRandom, dest, keys, drbgOutput, secret, collided>>

(* SymCryptRngAesGenerate starts; a request of any size is split below.    *)
Generate(cb) ==
  /\ drbgPc = "idle" /\ instantiated
  /\ drbgPc' = "generate"
  /\ cbRandom' = cb
  /\ dest' = "caller"
  /\ UNCHANGED <<instantiated, rngState, keys, drbgHistory>>

(* The requestCounter test of SymCryptRngAesGenerateSmall.                 *)
TooManyRequests == requestCounter > MaxRequests

(* What one call of SymCryptRngAesGenerateSmall is asked for, and the      *)
(* blocks it takes: the whole ones and one more for an incomplete block.   *)
SmallSize == LeastSize(cbRandom, MaxRequestSize)
SmallBlocks == (SmallSize + BlockSize - 1) \div BlockSize

(* SymCryptRngAesCheckBlocksNotIdentical, over both parts of the request.  *)
Identical ==
  /\ fips140_2Check
  /\ \E i \in 1 .. SmallBlocks :
       BlockAt(V, i) = IF i = 1 THEN previousBlock ELSE BlockAt(V, i - 1)

(* Mutants: V not written back before the update; the incomplete block not *)
(* remembered.                                                             *)
NextVForgotten == V
RememberedWholeOnly == IF SmallSize % BlockSize = 0 THEN SmallBlocks ELSE SmallBlocks - 1

(* Where the output of a request ends and the update begins.               *)
NextV == (V + SmallBlocks) % VRange

(* The block of the request that previousBlock keeps: the last one.        *)
Remembered == SmallBlocks

(* One call of SymCryptRngAesGenerateSmall: the blocks, then the update.   *)
GenerateSmall ==
  /\ drbgPc = "generate"
  /\ ~TooManyRequests /\ ~Identical
  /\ keys < MaxKeys
  /\ LET blocks == GenerateBlocks(V, SmallBlocks)
         seeds  == GenerateBlocks(NextV, SeedBlocks)
     IN /\ drbgOutput' = drbgOutput \cup blocks
        /\ secret' = secret \cup seeds
        /\ collided' = (collided \/ blocks \cap (drbgOutput \cup secret) # {}
                                 \/ seeds \cap (drbgOutput \cup secret \cup blocks) # {})
        /\ lastBlock' = BlockAt(V, SmallBlocks)
  /\ previousBlock' = IF dest = "previous" \/ (fips140_2Check /\ Remembered > 0)
                      THEN BlockAt(V, Remembered) ELSE previousBlock
  /\ Update
  /\ requestCounter' = requestCounter + 1
  /\ cbRandom' = cbRandom - SmallSize
  /\ drbgPc' = IF cbRandom' = 0 THEN "idle" ELSE "generate"
  /\ fips140_2Check' = (fips140_2Check \/ dest = "previous")
  /\ UNCHANGED <<instantiated, dest>>

(* SymCryptRngAesGenerate and the continuous test treat errors as fatal.   *)
GenerateFatal ==
  /\ drbgPc = "generate"
  /\ TooManyRequests \/ Identical
  /\ drbgPc' = "fatal"
  /\ UNCHANGED <<instantiated, rngState, cbRandom, dest, keys, drbgHistory>>

DrbgNext ==
  \/ \E cbSeed \in SeedSizes, fips \in BOOLEAN : Instantiate(cbSeed, fips)
  \/ \E cbSeed \in SeedSizes : Reseed(cbSeed)
  \/ Uninstantiate
  \/ \E cb \in RequestSizes : Generate(cb)
  \/ GenerateSmall
  \/ GenerateFatal

DrbgSpec == DrbgInit /\ [][DrbgNext]_drbgVars
-----------------------------------------------------------------------------
(* The types of the state and the history.                                 *)
DrbgTypeOK ==
  /\ instantiated \in BOOLEAN /\ fips140_2Check \in BOOLEAN /\ collided \in BOOLEAN
  /\ key \in 0 .. MaxKeys /\ V \in Counters
  /\ requestCounter \in 0 .. MaxRequests + 1
  /\ previousBlock \in Blocks \cup {NoBlock} /\ lastBlock \in Blocks \cup {NoBlock}
  /\ drbgPc \in {"idle", "generate", "fatal"}
  /\ cbRandom \in Nat /\ dest \in {"caller", "previous"}
  /\ keys \in 0 .. MaxKeys
  /\ drbgOutput \subseteq Blocks /\ secret \subseteq Blocks

(* No counter block is generated twice under one key: no output repeats,   *)
(* and no block that is or was part of the generator's state is ever       *)
(* output, across requests that are split, end in an incomplete block or   *)
(* roll V over.                                                            *)
NoBlockTwice == ~collided

(* The continuous test compares every block with its predecessor: between  *)
(* requests previousBlock is the last block generated, also when only part *)
(* of it was returned.                                                     *)
ContinuousTestComplete == (fips140_2Check /\ drbgPc = "idle") => previousBlock = lastBlock
-----------------------------------------------------------------------------
(* The inductive invariant behind the two.  Every block ever generated is  *)
(* of an older key, since each request ends with an update; a request in   *)
(* progress has something left to produce.                                 *)
KeyLaw ==
  /\ instantiated => key = keys
  /\ drbgPc # "idle" => instantiated
  /\ drbgPc = "generate" => cbRandom > 0
  /\ \A block \in drbgOutput \cup secret : block[1] < keys

(* The continuous test has its predecessor inside a request too.           *)
PreviousLaw == fips140_2Check => previousBlock = lastBlock

DrbgInv == DrbgTypeOK /\ KeyLaw /\ PreviousLaw /\ NoBlockTwice
=============================================================================
