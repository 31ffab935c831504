------------------------------- MODULE ModuleRng -------------------------------
(***************************************************************************)
(* The random number generator of the Linux modules: modules_linux/common/ *)
(* rng.c, one AES-CTR DRBG shared by all threads of a process behind a     *)
(* mutex, with a cache of generated bytes for small requests.              *)
(*                                                                         *)
(* The bytes the DRBG generates are numbered from 0 in the order they are  *)
(* generated; that it never generates one twice is the subject of          *)
(* AesCtrDrbg.  A byte of the cache is a number or Wiped.  The seed of a   *)
(* reseed is four pieces of 32 bytes, each named by where it came from.    *)
(***************************************************************************)
EXTENDS Integers, Sequences, FiniteSets, FiniteSetsExt

CONSTANTS
  Threads,
  CacheSize,      \* RANDOM_NUM_CACHE_SIZE: 128
  Align,          \* 16: bytes are thrown away up to this alignment
  MaxGenerate,    \* MAX_GENERATE_BEFORE_RESEED: 8192
  Sizes,          \* request sizes
  MaxCalls        \* bound on the calls made

ASSUME RngAssumption ==
  /\ CacheSize \in Nat \ {0} /\ Align \in Nat \ {0}
  /\ CacheSize % Align = 0 /\ \E k \in 0 .. Align : Align = 2 ^ k
  /\ MaxGenerate \in Nat \ {0}
  /\ Sizes \subseteq Nat \ {0}
  /\ MaxCalls \in Nat
  /\ "free" \notin Threads

VARIABLES
  module,      \* "loading", "up", "unloaded", or "fatal" after SymCryptFatal
  lock,        \* g_rngLock: its holder, or Free
  cache,       \* g_randomBytesCache
  cbCache,     \* g_cbRandomBytesCache
  counter,     \* g_rngCounter
  generated,   \* bytes generated by g_AesRngState
  epochStart,  \* history: the bytes generated when it was last seeded
  pc,          \* where each thread is
  request,     \* cbRandom of each thread
  buffer,      \* pbRandom of each thread: the bytes copied out so far
  seed,        \* the seed being put together by the holder of the lock
  lastSeed,    \* history: the seed of the last reseed
  output,      \* history: bytes copied out by anyone
  repeated,    \* history: some byte was copied out twice
  served,      \* history: requests served since the last reseed
  calls        \* history: number of calls made

shared == <<cache, cbCache, counter, generated, epochStart>>
history == <<output, repeated, served, calls>>
rngVars == <<module, lock, shared, pc, request, buffer, seed, lastSeed, history>>

Free == "free"
Wiped == -1
NoSeed == <<"stack", "stack", "stack", "stack">>

LeastOf(a, b) == IF a < b THEN a ELSE b

ModuleInit ==
  /\ module = "loading"
  /\ lock = Free
  /\ cache = [i \in 0 .. CacheSize - 1 |-> Wiped]
  /\ cbCache = 0
  /\ counter = 0
  /\ generated = 0 /\ epochStart = 0
  /\ pc = [t \in Threads |-> "idle"]
  /\ request = [t \in Threads |-> 0]
  /\ buffer = [t \in Threads |-> <<>>]
  /\ seed = NoSeed /\ lastSeed = NoSeed
  /\ output = {} /\ repeated = FALSE /\ served = 0 /\ calls = 0

(* SymCryptRngInit, run once by SymCryptModuleMain before any other call:  *)
(* 64 bytes of the FIPS source, 64 of the secure one.                      *)
RngInit ==
  /\ module = "loading"
  /\ module' = "up"
  /\ lastSeed' = <<"fips", "fips", "secure", "secure">>
  /\ UNCHANGED <<lock, shared, pc, request, buffer, seed, history>>

(* A mutex, entropy source or seed that fails is fatal.                    *)
RngInitFails ==
  /\ module = "loading"
  /\ module' = "fatal"
  /\ UNCHANGED <<lock, shared, pc, request, buffer, seed, lastSeed, history>>

(* SymCryptRngUninit, run by the module's destructor when no call is in    *)
(* progress.  The cache is not wiped.                                      *)
RngUninit ==
  /\ module = "up"
  /\ \A t \in Threads : pc[t] = "idle"
  /\ module' = "unloaded"
  /\ UNCHANGED <<lock, shared, pc, request, buffer, seed, lastSeed, history>>

(* SymCryptRandom starts; a request for no bytes returns at once.          *)
Random(t, cb) ==
  /\ module = "up" /\ pc[t] = "idle" /\ calls < MaxCalls
  /\ pc' = [pc EXCEPT ![t] = "lock"]
  /\ request' = [request EXCEPT ![t] = cb]
  /\ buffer' = [buffer EXCEPT ![t] = <<>>]
  /\ calls' = calls + 1
  /\ UNCHANGED <<module, lock, shared, seed, lastSeed, output, repeated, served>>

(* SymCryptProvideEntropy starts.                                          *)
ProvideEntropy(t) ==
  /\ module = "up" /\ pc[t] = "idle" /\ calls < MaxCalls
  /\ pc' = [pc EXCEPT ![t] = "entropy"]
  /\ request' = [request EXCEPT ![t] = 0]
  /\ buffer' = [buffer EXCEPT ![t] = <<>>]
  /\ calls' = calls + 1
  /\ UNCHANGED <<module, lock, shared, seed, lastSeed, output, repeated, served>>

LockForEntropy(t) ==
  /\ module = "up" /\ pc[t] = "entropy"
  /\ lock = Free
  /\ lock' = t
  /\ pc' = [pc EXCEPT ![t] = "reseed"]
  /\ UNCHANGED <<module, shared, request, buffer, seed, lastSeed, history>>

(* SymCryptRandom takes the lock and counts the request; a full counter is *)
(* reset around a reseed.                                                  *)
LockAndCount(t) ==
  /\ module = "up" /\ pc[t] = "lock"
  /\ lock = Free
  /\ lock' = t
  /\ counter' = IF counter + 1 > MaxGenerate THEN 0 ELSE counter + 1
  /\ pc' = [pc EXCEPT ![t] = IF counter + 1 > MaxGenerate THEN "reseed" ELSE "fill"]
  /\ UNCHANGED <<module, cache, cbCache, generated, epochStart, request, buffer, seed, lastSeed, history>>

(* SymCryptRngReseed: the secure source into the first half of the seed,   *)
(* and its hash with the caller's entropy over the start of the second.    *)
ReseedSecure(t) ==
  /\ module = "up" /\ pc[t] = "reseed"
  /\ seed' = <<"secure", "secure", "hash", "stack">>
  /\ pc' = [pc EXCEPT ![t] = "reseedFips"]
  /\ UNCHANGED <<module, lock, shared, request, buffer, lastSeed, history>>

(* The FIPS source over the first half.                                    *)
ReseedFips(t) ==
  /\ module = "up" /\ pc[t] = "reseedFips"
  /\ seed' = <<"fips", "fips", seed[3], seed[4]>>
  /\ pc' = [pc EXCEPT ![t] = "reseedAes"]
  /\ UNCHANGED <<module, lock, shared, request, buffer, lastSeed, history>>

(* An entropy source that delivers too little is fatal, lock held.         *)
EntropyFails(t) ==
  /\ module = "up" /\ pc[t] \in {"reseed", "reseedFips"}
  /\ module' = "fatal"
  /\ UNCHANGED <<lock, shared, pc, request, buffer, seed, lastSeed, history>>

(* Mutant: the reseed leaves the cache in use.                             *)
ReseedAesKeepsCache(t) ==
  /\ module = "up" /\ pc[t] = "reseedAes"
  /\ epochStart' = generated
  /\ lastSeed' = seed /\ seed' = NoSeed
  /\ served' = 0
  /\ pc' = [pc EXCEPT ![t] = IF request[t] = 0 THEN "unlock" ELSE "fill"]
  /\ UNCHANGED <<module, lock, cache, cbCache, counter, generated, request, buffer,
                 output, repeated, calls>>

(* SymCryptRngAesReseed, and the cache is emptied.                         *)
ReseedAes(t) ==
  /\ module = "up" /\ pc[t] = "reseedAes"
  /\ epochStart' = generated
  /\ cbCache' = 0
  /\ lastSeed' = seed /\ seed' = NoSeed
  /\ served' = 0
  /\ pc' = [pc EXCEPT ![t] = IF request[t] = 0 THEN "unlock" ELSE "fill"]
  /\ UNCHANGED <<module, lock, cache, counter, generated, request, buffer,
                 output, repeated, calls>>

(* Bytes from .. from+n-1 of a buffer holding content.                     *)
Slice(content, from, n) == [i \in 1 .. n |-> content[from + i - 1]]
WipeSlice(content, from, n) ==
  [i \in DOMAIN content |-> IF i >= from /\ i < from + n THEN Wiped ELSE content[i]]

BytesOf(s) == {s[i] : i \in 1 .. Len(s)}

Deliver(t, bytes) ==
  /\ buffer' = [buffer EXCEPT ![t] = @ \o bytes]
  /\ repeated' = (repeated \/ BytesOf(bytes) \cap output # {} \/ Cardinality(BytesOf(bytes)) < Len(bytes))
  /\ output' = output \cup BytesOf(bytes)

(* Mutant: the count of the cache is not lowered.                          *)
UseCacheUncounted(t) ==
  /\ module = "up" /\ pc[t] = "fill"
  /\ request[t] < CacheSize
  /\ LET cbFill == LeastOf(request[t], cbCache)
     IN /\ Deliver(t, Slice(cache, cbCache - cbFill, cbFill))
        /\ pc' = [pc EXCEPT ![t] = IF cbFill < request[t] THEN "refill" ELSE "unlock"]
        /\ served' = IF cbFill < request[t] THEN served ELSE served + 1
  /\ UNCHANGED <<module, lock, shared, request, seed, lastSeed, calls>>

(* A small request takes what the cache has, from its end.                 *)
UseCache(t) ==
  /\ module = "up" /\ pc[t] = "fill"
  /\ request[t] < CacheSize
  /\ LET cbFill == LeastOf(request[t], cbCache)
         at     == cbCache - cbFill
     IN /\ Deliver(t, Slice(cache, at, cbFill))
        /\ cache' = WipeSlice(cache, at, cbFill)
        /\ cbCache' = at
        /\ pc' = [pc EXCEPT ![t] = IF cbFill < request[t] THEN "refill" ELSE "unlock"]
        /\ served' = IF cbFill < request[t] THEN served ELSE served + 1
  /\ UNCHANGED <<module, lock, counter, generated, epochStart, request, seed, lastSeed, calls>>

(* The largest power of two that divides a request's size and Align: one   *)
(* more than "(mask >> 1) & 15" of the mask "cbRandom ^ (cbRandom - 1)".   *)
Alignment(cb) == Max({d \in 1 .. Align : cb % d = 0 /\ Align % d = 0})

(* The cache is empty: generate it anew, take the rest of the request from *)
(* its end and throw away bytes to align it with the request.              *)
Refill(t) ==
  /\ module = "up" /\ pc[t] = "refill"
  /\ LET missing == request[t] - Len(buffer[t])
         filled  == [i \in 0 .. CacheSize - 1 |-> generated + i]
         at      == CacheSize - missing
     IN /\ Deliver(t, Slice(filled, at, missing))
        /\ cache' = WipeSlice(filled, at, missing)
        /\ cbCache' = at - (at % Alignment(request[t]))
  /\ generated' = generated + CacheSize
  /\ served' = served + 1
  /\ pc' = [pc EXCEPT ![t] = "unlock"]
  /\ UNCHANGED <<module, lock, counter, epochStart, request, seed, lastSeed, calls>>

(* A large request is generated straight into the caller's buffer.         *)
GenerateLarge(t) ==
  /\ module = "up" /\ pc[t] = "fill"
  /\ request[t] >= CacheSize
  /\ Deliver(t, [i \in 1 .. request[t] |-> generated + i - 1])
  /\ generated' = generated + request[t]
  /\ served' = served + 1
  /\ pc' = [pc EXCEPT ![t] = "unlock"]
  /\ UNCHANGED <<module, lock, cache, cbCache, counter, epochStart, request, seed, lastSeed,
                 calls>>

(* Mutant: a path that forgets the lock.                                   *)
UnlockForgotten(t) ==
  /\ module = "up" /\ pc[t] = "unlock"
  /\ pc' = [pc EXCEPT ![t] = "idle"]
  /\ UNCHANGED <<module, lock, shared, request, buffer, seed, lastSeed, history>>

Unlock(t) ==
  /\ module = "up" /\ pc[t] = "unlock"
  /\ lock' = Free
  /\ pc' = [pc EXCEPT ![t] = "idle"]
  /\ UNCHANGED <<module, shared, request, buffer, seed, lastSeed, history>>

(* What a thread does inside a call once it holds the lock.                *)
Locked(t) ==
  \/ ReseedSecure(t) \/ ReseedFips(t) \/ ReseedAes(t)
  \/ UseCache(t) \/ Refill(t) \/ GenerateLarge(t)
  \/ Unlock(t)

Thread(t) ==
  \/ \E cb \in Sizes : Random(t, cb)
  \/ ProvideEntropy(t)
  \/ LockForEntropy(t) \/ LockAndCount(t)
  \/ EntropyFails(t)
  \/ Locked(t)

ModuleNext ==
  \/ RngInit \/ RngInitFails \/ RngUninit
  \/ \E t \in Threads : Thread(t)

ModuleSpec == ModuleInit /\ [][ModuleNext]_rngVars

(* The operating system runs every thread that holds the lock; nothing is  *)
(* asked of the fairness of the mutex.                                     *)
ModuleFairSpec == ModuleSpec /\ \A t \in Threads : WF_rngVars(Locked(t))
-----------------------------------------------------------------------------
(* The cache's count stays inside the buffer; a thread is in the critical  *)
(* section exactly when it holds the lock.                                 *)
ModuleTypeOK ==
  /\ module \in {"loading", "up", "unloaded", "fatal"}
  /\ lock \in Threads \cup {Free}
  /\ cache \in [0 .. CacheSize - 1 -> Nat \cup {Wiped}]
  /\ cbCache \in 0 .. CacheSize
  /\ counter \in 0 .. MaxGenerate
  /\ generated \in Nat /\ epochStart \in 0 .. generated
  /\ pc \in [Threads -> {"idle", "lock", "entropy", "reseed", "reseedFips", "reseedAes",
                         "fill", "refill", "unlock"}]
  /\ request \in [Threads -> Sizes \cup {0}]
  /\ buffer \in [Threads -> Seq(Nat)]
  /\ \A t \in Threads : Len(buffer[t]) <= request[t]
  /\ output \subseteq 0 .. generated - 1
  /\ served \in Nat /\ calls \in Nat
  /\ \A t \in Threads : lock = t <=> pc[t] \notin {"idle", "lock", "entropy"}

(* No two callers are given the same random byte, and no caller is given a *)
(* wiped one.  A byte that was given out is nowhere in the cache buffer,   *)
(* also not beyond its count: SymCryptRngUninit relies on it when it does  *)
(* not wipe the buffer.                                                    *)
NoByteTwice ==
  /\ ~repeated /\ Wiped \notin output
  /\ \A i \in DOMAIN cache : cache[i] \notin output

(* After a reseed, by count or by SymCryptProvideEntropy, only bytes       *)
(* generated since are given out: "Don't use any existing cached random    *)
(* data".  One more than MAX_GENERATE_BEFORE_RESEED requests are served    *)
(* from a seed: the one that reseeds is not counted.                       *)
FreshAfterReseed ==
  /\ \A t \in Threads : lock = t => \A i \in 1 .. Len(buffer[t]) : buffer[t][i] >= epochStart
  /\ served <= MaxGenerate + 1

(* SymCryptRngReseed: "Seed is constructed as ... entropy_input ||         *)
(* additional_input", and the additional input is the hash: nothing else   *)
(* is in it.                                                               *)
SeedAsDocumented == \A i \in 1 .. 4 : module = "up" => lastSeed[i] # "stack"

(* The lock is always given back, unless the process is stopped.           *)
LockReleased == \A t \in Threads : lock = t ~> (lock # t \/ module # "up")
-----------------------------------------------------------------------------
(* The inductive invariant behind NoByteTwice and FreshAfterReseed.  What  *)
(* the cache holds: bytes generated and not given out, each in one place;  *)
(* below the count none is wiped and all are of the current seed.          *)
CacheLaw ==
  /\ \A i \in 0 .. CacheSize - 1 : cache[i] # Wiped => cache[i] < generated /\ cache[i] \notin output
  /\ \A i, j \in 0 .. CacheSize - 1 : (cache[i] # Wiped /\ cache[i] = cache[j]) => i = j
  /\ \A i \in 0 .. cbCache - 1 : cache[i] # Wiped /\ cache[i] >= epochStart

(* What a call has been given at each of its stages.                       *)
RequestLaw ==
  \A t \in Threads :
    /\ pc[t] \in {"lock", "entropy", "reseed", "reseedFips", "reseedAes", "fill"} => buffer[t] = <<>>
    /\ pc[t] \in {"lock", "fill"} => request[t] > 0
    /\ pc[t] = "refill" => cbCache = 0 /\ request[t] < CacheSize /\ Len(buffer[t]) < request[t]

(* The requests served under a seed: the counter counts all but the one    *)
(* that reseeded; a request that was counted and is not served yet makes   *)
(* up for it.                                                              *)
ServedLaw ==
  /\ (\A t \in Threads : pc[t] \notin {"reseed", "reseedFips", "reseedAes"}) => served <= counter + 1
  /\ \A t \in Threads : pc[t] \in {"fill", "refill"} => served <= counter

RngInv == ModuleTypeOK /\ CacheLaw /\ RequestLaw /\ ServedLaw /\ NoByteTwice /\ FreshAfterReseed
=============================================================================
