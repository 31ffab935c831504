---------------------------- MODULE ModuleProofs ----------------------------
(***************************************************************************)
(* For any number of threads, request sizes and cache sizes, the generator *)
(* of the Linux modules gives no byte out twice, keeps no byte it gave out *)
(* in its cache, and after a reseed gives out only bytes of the new seed.  *)
(* The argument: the lock makes every step on the cache a step of its      *)
(* holder, and the cache holds only bytes generated and not given out,     *)
(* each in one place.                                                      *)
(*                                                                         *)
(* For any number of threads and every set of faulty algorithms, a key is  *)
(* returned only when the tests its caller asked for were passed.  The     *)
(* argument: the flag of a test is set by a thread that has passed it, so  *)
(* while the process lives no flag is set for a faulty algorithm, and a    *)
(* test leaves a call's list when the call passed it or saw its flag.      *)
(***************************************************************************)
EXTENDS ModuleRng, StartUp, FiniteSetTheorems, SequenceTheorems, WellFoundedInduction, TLAPS

(* A set of natural numbers has a least element.                           *)
LEMMA LeastNatural ==
  ASSUME NEW S \in SUBSET Nat, S # {}
  PROVE  \E n \in S : \A m \in S : n <= m
<1>1. IsWellFoundedOn(OpToRel(<, Nat), Nat)
  BY NatLessThanWellFounded, Zenon
<1>2. PICK n \in S : \A m \in S : ~(<<m, n>> \in OpToRel(<, Nat))
  BY <1>1, WFMin, Zenon
<1>3. \A m \in S : ~(m < n)
  BY <1>2 DEF OpToRel
<1> QED BY <1>3

(* The alignment of the cache is a divisor of Align.                       *)
LEMMA AlignmentType ==
  ASSUME NEW cb \in Nat
  PROVE  Alignment(cb) \in 1 .. Align
<1> DEFINE D == {d \in 1 .. Align : cb % d = 0 /\ Align % d = 0}
           S == {Align - d : d \in D}
<1>1. Align \in Nat /\ Align >= 1
  BY RngAssumption
<1>2. \A a \in Nat : a % 1 = 0
  OBVIOUS
<1>3. 1 \in D
  BY <1>1, <1>2
<1>4. S \in SUBSET Nat /\ S # {}
  BY <1>1, <1>3
<1> HIDE DEF S
<1>5. PICK n \in S : \A m \in S : n <= m
  BY <1>4, LeastNatural
<1> USE DEF S
<1>6. PICK d \in D : n = Align - d
  BY <1>5
<1>7. \A e \in D : Align - e \in S /\ Align - d <= Align - e
  BY <1>5, <1>6
<1>8. \A e \in D : d >= e
  <2> TAKE e \in D
  <2>1. d \in Int /\ e \in Int /\ Align - d <= Align - e
    BY <1>7
  <2> QED BY <2>1, <1>1
<1> HIDE DEF D
<1>9. Max(D) \in D
  BY <1>6, <1>8 DEF Max
<1> QED BY <1>9 DEF Alignment, D

(* Throwing bytes away does not lengthen the cache.                        *)
LEMMA AlignDown ==
  ASSUME NEW at \in Nat, NEW cb \in Nat
  PROVE  at - (at % Alignment(cb)) \in 0 .. at
<1> DEFINE a == Alignment(cb)
<1>1. a \in Nat /\ a > 0
  BY AlignmentType, RngAssumption
<1> HIDE DEF a
<1>2. at % a \in Nat /\ at % a <= at
  <2>1. CASE at < a
    BY <1>1, <2>1
  <2>2. CASE at >= a
    BY <1>1, <2>2
  <2> QED BY <1>1, <2>1, <2>2
<1>3. at - (at % a) \in 0 .. at
  BY <1>2
<1> QED BY <1>3 DEF a

(* Bytes that are all different are as many as there are.                  *)
LEMMA DistinctBytes ==
  ASSUME NEW n \in Nat, NEW bytes \in [1 .. n -> Nat],
         \A i, j \in 1 .. n : bytes[i] = bytes[j] => i = j
  PROVE  /\ bytes \in Seq(Nat) /\ Len(bytes) = n
         /\ BytesOf(bytes) = {bytes[i] : i \in 1 .. n}
         /\ ~(Cardinality(BytesOf(bytes)) < Len(bytes))
<1>1. bytes \in Seq(Nat) /\ Len(bytes) = n
  OBVIOUS
<1>2. BytesOf(bytes) = {bytes[i] : i \in 1 .. n}
  BY <1>1 DEF BytesOf
<1>3. bytes \in Bijection(1 .. n, BytesOf(bytes))
  BY <1>2 DEF Bijection, Injection, Surjection, IsInjective
<1>4. Cardinality(BytesOf(bytes)) = n
  <2>1. ExistsBijection(1 .. n, BytesOf(bytes))
    BY <1>3 DEF ExistsBijection
  <2> QED BY <2>1, FS_CountingElements
<1> QED BY <1>1, <1>2, <1>4

(* Different bytes that nobody was given yet, of the current seed, may be  *)
(* delivered to the thread that holds the lock.                            *)
LEMMA DeliverNew ==
  ASSUME ModuleTypeOK, NoByteTwice, FreshAfterReseed,
         NEW t \in Threads, lock = t,
         NEW n \in Nat, NEW bytes \in [1 .. n -> Nat],
         \A i, j \in 1 .. n : bytes[i] = bytes[j] => i = j,
         \A i \in 1 .. n : bytes[i] \notin output /\ bytes[i] >= epochStart,
         Deliver(t, bytes)
  PROVE  /\ ~repeated'
         /\ output' = output \cup {bytes[i] : i \in 1 .. n}
         /\ Wiped \notin output'
         /\ buffer' \in [Threads -> Seq(Nat)]
         /\ \A u \in Threads : u # t => buffer'[u] = buffer[u]
         /\ Len(buffer'[t]) = Len(buffer[t]) + n
         /\ \A i \in 1 .. Len(buffer'[t]) : buffer'[t][i] >= epochStart
<1>1. /\ bytes \in Seq(Nat) /\ Len(bytes) = n
      /\ BytesOf(bytes) = {bytes[i] : i \in 1 .. n}
      /\ ~(Cardinality(BytesOf(bytes)) < Len(bytes))
  BY DistinctBytes
<1>2. BytesOf(bytes) \cap output = {}
  BY <1>1
<1>3. ~repeated' /\ output' = output \cup {bytes[i] : i \in 1 .. n}
  BY <1>1, <1>2, Zenon DEF Deliver, NoByteTwice
<1>4. Wiped \notin output'
  <2>1. \A i \in 1 .. n : bytes[i] # Wiped
    BY DEF Wiped
  <2> QED BY <1>3, <2>1 DEF NoByteTwice
<1>5. buffer \in [Threads -> Seq(Nat)] /\ buffer[t] \in Seq(Nat)
  BY DEF ModuleTypeOK
<1>6. buffer' = [buffer EXCEPT ![t] = buffer[t] \o bytes]
  BY DEF Deliver
<1>7. /\ buffer[t] \o bytes \in Seq(Nat)
      /\ Len(buffer[t] \o bytes) = Len(buffer[t]) + n
      /\ \A i \in 1 .. Len(buffer[t]) + n :
           (buffer[t] \o bytes)[i] = IF i <= Len(buffer[t]) THEN buffer[t][i] ELSE bytes[i - Len(buffer[t])]
  BY <1>1, <1>5, ConcatProperties
<1>8. buffer'[t] = buffer[t] \o bytes /\ buffer' \in [Threads -> Seq(Nat)]
       /\ \A u \in Threads : u # t => buffer'[u] = buffer[u]
  BY <1>5, <1>6, <1>7
<1>9. ASSUME NEW i \in 1 .. Len(buffer'[t])
      PROVE  buffer'[t][i] >= epochStart
  <2>1. i \in 1 .. Len(buffer[t]) + n /\ Len(buffer[t]) \in Nat
    BY <1>5, <1>7, <1>8
  <2>2. CASE i <= Len(buffer[t])
    <3>1. i \in 1 .. Len(buffer[t])
      BY <2>1, <2>2
    <3>2. buffer[t][i] >= epochStart
      BY <3>1 DEF FreshAfterReseed
    <3> QED BY <1>7, <1>8, <2>1, <2>2, <3>2
  <2>3. CASE ~(i <= Len(buffer[t]))
    <3>1. i - Len(buffer[t]) \in 1 .. n
      BY <2>1, <2>3
    <3> QED BY <1>7, <1>8, <2>1, <2>3, <3>1
  <2> QED BY <2>2, <2>3
<1> QED BY <1>3, <1>4, <1>7, <1>8, <1>9
-----------------------------------------------------------------------------
(* At most one thread is in the critical section.                          *)
LEMMA OneInside ==
  ASSUME ModuleTypeOK, NEW t \in Threads, NEW u \in Threads,
         pc[t] \notin {"idle", "lock", "entropy"}, pc[u] \notin {"idle", "lock", "entropy"}
  PROVE  t = u /\ lock = t
BY DEF ModuleTypeOK

(* Requests are natural numbers.                                           *)
LEMMA RequestIsNatural ==
  ASSUME ModuleTypeOK, NEW t \in Threads
  PROVE  request[t] \in Nat
<1>1. request[t] \in Sizes \cup {0}
  BY DEF ModuleTypeOK
<1>2. \A n \in Sizes : n \in Nat
  BY RngAssumption
<1>3. CASE request[t] \in Sizes
  BY <1>2, <1>3
<1>4. CASE request[t] = 0
  BY <1>4
<1> QED BY <1>1, <1>3, <1>4

(* A step that leaves the cache and the output alone.                      *)
LEMMA CacheUntouched ==
  ASSUME RngInv, UNCHANGED <<cache, cbCache, generated, epochStart, output, repeated>>
  PROVE  CacheLaw' /\ NoByteTwice'
BY DEF RngInv, CacheLaw, NoByteTwice

(* Before the module is loaded there is no byte.                           *)
LEMMA RngInitially == ModuleInit => RngInv
<1> SUFFICES ASSUME ModuleInit PROVE RngInv
  OBVIOUS
<1> USE RngAssumption DEF ModuleInit
<1>1. ModuleTypeOK
  BY DEF ModuleTypeOK, Free
<1>2. CacheLaw /\ NoByteTwice
  BY DEF CacheLaw, NoByteTwice
<1>3. RequestLaw /\ ServedLaw
  BY DEF RequestLaw, ServedLaw
<1>4. FreshAfterReseed
  BY DEF FreshAfterReseed
<1> QED BY <1>1, <1>2, <1>3, <1>4 DEF RngInv

(* Loading and unloading the module, and a failing entropy source.         *)
LEMMA LifeCycleStep ==
  ASSUME RngInv, UNCHANGED <<lock, cache, cbCache, counter, generated, epochStart, pc, request, buffer,
                             output, repeated, served, calls>>,
         module' \in {"loading", "up", "unloaded", "fatal"}
  PROVE  RngInv'
<1>1. ModuleTypeOK'
  BY DEF RngInv, ModuleTypeOK
<1>2. RequestLaw' /\ ServedLaw' /\ FreshAfterReseed'
  BY DEF RngInv, RequestLaw, ServedLaw, FreshAfterReseed
<1> QED BY <1>1, <1>2, CacheUntouched DEF RngInv

(* A call starts: nothing is in its buffer.                                *)
LEMMA StartStep ==
  ASSUME RngInv, NEW t \in Threads, (\E cb \in Sizes : Random(t, cb)) \/ ProvideEntropy(t)
  PROVE  RngInv'
<1>1. PICK cb \in Sizes \cup {0}, q \in {"lock", "entropy"} :
        /\ q = "lock" => cb > 0
        /\ pc' = [pc EXCEPT ![t] = q]
        /\ request' = [request EXCEPT ![t] = cb]
  <2>1. CASE \E cb \in Sizes : Random(t, cb)
    <3>1. PICK cb \in Sizes : Random(t, cb)
      BY <2>1
    <3>2. cb > 0
      BY RngAssumption
    <3>3. pc' = [pc EXCEPT ![t] = "lock"] /\ request' = [request EXCEPT ![t] = cb]
      BY <3>1 DEF Random
    <3> QED BY <3>2, <3>3
  <2>2. CASE ProvideEntropy(t)
    BY <2>2 DEF ProvideEntropy
  <2> QED BY <2>1, <2>2
<1>2. /\ pc[t] = "idle"
      /\ buffer' = [buffer EXCEPT ![t] = <<>>]
      /\ calls' = calls + 1
      /\ UNCHANGED <<module, lock, cache, cbCache, counter, generated, epochStart, output, repeated, served>>
  BY DEF Random, ProvideEntropy, shared
<1>3. cb \in Nat /\ Sizes \subseteq Nat
  BY RngAssumption
<1>4. /\ pc \in [Threads -> {"idle", "lock", "entropy", "reseed", "reseedFips", "reseedAes",
                             "fill", "refill", "unlock"}]
      /\ buffer \in [Threads -> Seq(Nat)]
      /\ request \in [Threads -> Sizes \cup {0}]
  BY DEF RngInv, ModuleTypeOK
<1>5. /\ pc'[t] = q /\ buffer'[t] = <<>> /\ request'[t] = cb
      /\ \A u \in Threads : u # t => pc'[u] = pc[u] /\ buffer'[u] = buffer[u] /\ request'[u] = request[u]
  BY <1>1, <1>2, <1>4
<1>6. ModuleTypeOK'
  <2>1. buffer' \in [Threads -> Seq(Nat)] /\ \A u \in Threads : Len(buffer'[u]) <= request'[u]
    BY <1>2, <1>3, <1>4, <1>5 DEF RngInv, ModuleTypeOK
  <2>2. \A u \in Threads : lock' = u <=> pc'[u] \notin {"idle", "lock", "entropy"}
    BY <1>2, <1>5 DEF RngInv, ModuleTypeOK
  <2>3. request' \in [Threads -> Sizes \cup {0}]
    BY <1>1, <1>4
  <2> QED BY <1>1, <1>2, <2>1, <2>2, <2>3 DEF RngInv, ModuleTypeOK
<1>7. RequestLaw'
  BY <1>1, <1>2, <1>5 DEF RngInv, RequestLaw
<1>8. ServedLaw'
  BY <1>2, <1>5 DEF RngInv, ServedLaw
<1>9. FreshAfterReseed'
  BY <1>2, <1>5 DEF RngInv, FreshAfterReseed, ModuleTypeOK
<1> QED BY <1>2, <1>6, <1>7, <1>8, <1>9, CacheUntouched DEF RngInv

(* Taking the lock.                                                        *)
LEMMA LockStep ==
  ASSUME RngInv, NEW t \in Threads, LockForEntropy(t) \/ LockAndCount(t)
  PROVE  RngInv'
<1>1. /\ pc \in [Threads -> {"idle", "lock", "entropy", "reseed", "reseedFips", "reseedAes",
                             "fill", "refill", "unlock"}]
      /\ counter \in 0 .. MaxGenerate /\ served \in Nat
  BY DEF RngInv, ModuleTypeOK
<1>2. MaxGenerate \in Nat
  BY RngAssumption
<1>3. /\ pc[t] \in {"lock", "entropy"} /\ lock = Free /\ lock' = t
      /\ UNCHANGED <<module, cache, cbCache, generated, epochStart, request, buffer, output, repeated,
                     served, calls>>
  BY DEF LockForEntropy, LockAndCount, shared, history
<1>4. PICK q \in {"reseed", "fill"} :
        /\ pc' = [pc EXCEPT ![t] = q]
        /\ counter' \in 0 .. MaxGenerate
        /\ q = "fill" => counter' = counter + 1 /\ pc[t] = "lock"
  <2>1. CASE LockForEntropy(t)
    BY <1>1, <2>1 DEF LockForEntropy, shared
  <2>2. CASE LockAndCount(t)
    <3>1. CASE counter + 1 > MaxGenerate
      BY <1>1, <1>2, <2>2, <3>1 DEF LockAndCount
    <3>2. CASE ~(counter + 1 > MaxGenerate)
      BY <1>1, <1>2, <2>2, <3>2 DEF LockAndCount
    <3> QED BY <3>1, <3>2
  <2> QED BY <2>1, <2>2
<1>5. pc'[t] = q /\ \A u \in Threads : u # t => pc'[u] = pc[u]
  BY <1>1, <1>4
<1>6. \A u \in Threads : pc[u] \in {"idle", "lock", "entropy"}
  BY <1>1, <1>3, RngAssumption DEF RngInv, ModuleTypeOK, Free
<1>7. ModuleTypeOK'
  <2>1. \A u \in Threads : lock' = u <=> pc'[u] \notin {"idle", "lock", "entropy"}
    BY <1>3, <1>5, <1>6
  <2> QED BY <1>1, <1>3, <1>4, <2>1 DEF RngInv, ModuleTypeOK
<1>8. RequestLaw'
  BY <1>3, <1>4, <1>5, <1>6 DEF RngInv, RequestLaw
<1>9. ServedLaw'
  <2>1. served <= counter + 1
    BY <1>6 DEF RngInv, ServedLaw
  <2>2. CASE q = "fill"
    BY <1>3, <1>4, <1>5, <1>6, <2>1, <2>2, <1>1 DEF ServedLaw
  <2>3. CASE q = "reseed"
    BY <1>5, <1>6, <2>3 DEF ServedLaw
  <2> QED BY <2>2, <2>3
<1>10. FreshAfterReseed'
  <2>1. buffer'[t] = <<>>
    BY <1>3 DEF RngInv, RequestLaw
  <2> QED BY <1>3, <2>1 DEF RngInv, FreshAfterReseed
<1> QED BY <1>3, <1>7, <1>8, <1>9, <1>10, CacheUntouched DEF RngInv

(* The two entropy sources fill in the seed.                               *)
LEMMA EntropyStep ==
  ASSUME RngInv, NEW t \in Threads, ReseedSecure(t) \/ ReseedFips(t)
  PROVE  RngInv'
<1>1. PICK q \in {"reseedFips", "reseedAes"} :
        /\ pc[t] \in {"reseed", "reseedFips"} /\ pc' = [pc EXCEPT ![t] = q]
        /\ UNCHANGED <<module, lock, cache, cbCache, counter, generated, epochStart, request, buffer,
                       output, repeated, served, calls>>
  BY DEF ReseedSecure, ReseedFips, shared, history
<1>2. pc \in [Threads -> {"idle", "lock", "entropy", "reseed", "reseedFips", "reseedAes",
                          "fill", "refill", "unlock"}]
  BY DEF RngInv, ModuleTypeOK
<1>3. pc'[t] = q /\ \A u \in Threads : u # t => pc'[u] = pc[u]
  BY <1>1, <1>2
<1>4. ModuleTypeOK'
  <2>1. \A u \in Threads : lock' = u <=> pc'[u] \notin {"idle", "lock", "entropy"}
    BY <1>1, <1>3 DEF RngInv, ModuleTypeOK
  <2> QED BY <1>1, <1>2, <2>1 DEF RngInv, ModuleTypeOK
<1>5. RequestLaw' /\ ServedLaw' /\ FreshAfterReseed'
  BY <1>1, <1>3 DEF RngInv, RequestLaw, ServedLaw, FreshAfterReseed
<1> QED BY <1>1, <1>4, <1>5, CacheUntouched DEF RngInv

(* The reseed: nothing below the count, so nothing of the old seed.        *)
LEMMA ReseedStep ==
  ASSUME RngInv, NEW t \in Threads, ReseedAes(t)
  PROVE  RngInv'
<1>1. PICK q \in {"unlock", "fill"} :
        /\ pc[t] = "reseedAes" /\ pc' = [pc EXCEPT ![t] = q]
        /\ q = "fill" => request[t] # 0
        /\ epochStart' = generated /\ cbCache' = 0 /\ served' = 0
        /\ UNCHANGED <<module, lock, cache, counter, generated, request, buffer, output, repeated, calls>>
  BY DEF ReseedAes
<1>2. /\ pc \in [Threads -> {"idle", "lock", "entropy", "reseed", "reseedFips", "reseedAes",
                             "fill", "refill", "unlock"}]
      /\ request \in [Threads -> Sizes \cup {0}] /\ generated \in Nat /\ counter \in 0 .. MaxGenerate
  BY DEF RngInv, ModuleTypeOK
<1>3. pc'[t] = q /\ \A u \in Threads : u # t => pc'[u] = pc[u] /\ pc[u] \in {"idle", "lock", "entropy"}
  <2>1. \A u \in Threads : u # t => pc[u] \in {"idle", "lock", "entropy"}
    BY <1>1, <1>2 DEF RngInv, ModuleTypeOK
  <2> QED BY <1>1, <1>2, <2>1
<1>4. ModuleTypeOK'
  <2>1. \A u \in Threads : lock' = u <=> pc'[u] \notin {"idle", "lock", "entropy"}
    BY <1>1, <1>3 DEF RngInv, ModuleTypeOK
  <2>2. epochStart' \in 0 .. generated' /\ cbCache' \in 0 .. CacheSize
    BY <1>1, <1>2, RngAssumption
  <2> QED BY <1>1, <1>2, <2>1, <2>2 DEF RngInv, ModuleTypeOK
<1>5. RequestLaw'
  <2>1. request[t] \in Nat
    BY RequestIsNatural DEF RngInv
  <2> QED BY <1>1, <1>3, <2>1 DEF RngInv, RequestLaw
<1>6. ServedLaw'
  BY <1>1, <1>2, <1>3 DEF ServedLaw
<1>7. FreshAfterReseed'
  <2>1. buffer'[t] = <<>>
    BY <1>1 DEF RngInv, RequestLaw
  <2>2. \A u \in Threads : lock' = u => u = t
    BY <1>3, <1>4 DEF ModuleTypeOK
  <2>3. served' <= MaxGenerate + 1
    BY <1>1, RngAssumption
  <2> QED BY <2>1, <2>2, <2>3 DEF FreshAfterReseed
<1>8. CacheLaw'
  BY <1>1 DEF RngInv, CacheLaw
<1>9. NoByteTwice'
  BY <1>1 DEF RngInv, NoByteTwice
<1> QED BY <1>4, <1>5, <1>6, <1>7, <1>8, <1>9 DEF RngInv

(* What the three ways of serving a request have in common.                *)
LEMMA ServingStep ==
  ASSUME RngInv, NEW t \in Threads, NEW q \in {"refill", "unlock"},
         pc[t] \in {"fill", "refill"}, pc' = [pc EXCEPT ![t] = q],
         UNCHANGED <<module, lock, counter, epochStart, request, calls>>,
         served' = IF q = "unlock" THEN served + 1 ELSE served,
         generated' \in Nat, generated' >= generated,
         cache' \in [0 .. CacheSize - 1 -> Nat \cup {Wiped}], cbCache' \in 0 .. CacheSize,
         output' \subseteq 0 .. generated' - 1,
         buffer' \in [Threads -> Seq(Nat)],
         \A u \in Threads : u # t => buffer'[u] = buffer[u],
         Len(buffer'[t]) <= request[t],
         \A i \in 1 .. Len(buffer'[t]) : buffer'[t][i] >= epochStart,
         q = "refill" => cbCache' = 0 /\ request[t] < CacheSize /\ Len(buffer'[t]) < request[t]
  PROVE  ModuleTypeOK' /\ RequestLaw' /\ ServedLaw' /\ FreshAfterReseed'
<1>1. /\ pc \in [Threads -> {"idle", "lock", "entropy", "reseed", "reseedFips", "reseedAes",
                             "fill", "refill", "unlock"}]
      /\ counter \in 0 .. MaxGenerate /\ served \in Nat /\ MaxGenerate \in Nat
      /\ generated \in Nat /\ epochStart \in 0 .. generated
  BY RngAssumption DEF RngInv, ModuleTypeOK
<1>2. pc'[t] = q /\ \A u \in Threads : u # t => pc'[u] = pc[u] /\ pc[u] \in {"idle", "lock", "entropy"}
  <2>1. \A u \in Threads : u # t => pc[u] \in {"idle", "lock", "entropy"}
    BY <1>1 DEF RngInv, ModuleTypeOK
  <2> QED BY <1>1, <2>1
<1>3. served' \in Nat /\ served' <= counter + 1 /\ (q = "refill" => served' <= counter)
  BY <1>1 DEF RngInv, ServedLaw
<1>4. ModuleTypeOK'
  <2>1. \A u \in Threads : lock' = u <=> pc'[u] \notin {"idle", "lock", "entropy"}
    BY <1>2 DEF RngInv, ModuleTypeOK
  <2>2. \A u \in Threads : Len(buffer'[u]) <= request'[u]
    BY DEF RngInv, ModuleTypeOK
  <2>3. epochStart' \in 0 .. generated'
    BY <1>1
  <2> QED BY <1>1, <1>3, <2>1, <2>2, <2>3 DEF RngInv, ModuleTypeOK
<1>5. RequestLaw'
  BY <1>2 DEF RngInv, RequestLaw
<1>6. ServedLaw'
  BY <1>2, <1>3 DEF ServedLaw
<1>7. FreshAfterReseed'
  <2>1. \A u \in Threads : lock' = u => u = t
    BY <1>2, <1>4 DEF ModuleTypeOK
  <2>2. served' <= MaxGenerate + 1
    BY <1>1, <1>3
  <2> QED BY <2>1, <2>2 DEF FreshAfterReseed
<1> QED BY <1>4, <1>5, <1>6, <1>7

(* A large request takes the next bytes of the generator.                  *)
LEMMA LargeStep ==
  ASSUME RngInv, NEW t \in Threads, GenerateLarge(t)
  PROVE  RngInv'
<1> DEFINE n == request[t]
           bytes == [i \in 1 .. n |-> generated + i - 1]
<1>1. /\ n \in Nat /\ n >= CacheSize /\ generated \in Nat /\ output \subseteq 0 .. generated - 1
      /\ epochStart \in 0 .. generated /\ cache \in [0 .. CacheSize - 1 -> Nat \cup {Wiped}]
      /\ cbCache \in 0 .. CacheSize
  <2>1. n \in Nat
    BY RequestIsNatural DEF RngInv
  <2> QED BY <2>1 DEF GenerateLarge, RngInv, ModuleTypeOK
<1>2. /\ pc[t] = "fill" /\ pc' = [pc EXCEPT ![t] = "unlock"]
      /\ generated' = generated + n /\ served' = served + 1
      /\ Deliver(t, bytes)
      /\ UNCHANGED <<module, lock, cache, cbCache, counter, epochStart, request, calls>>
  BY DEF GenerateLarge
<1> HIDE DEF n
<1>3. /\ bytes \in [1 .. n -> Nat]
      /\ \A i, j \in 1 .. n : bytes[i] = bytes[j] => i = j
      /\ \A i \in 1 .. n : bytes[i] \notin output /\ bytes[i] >= epochStart
      /\ \A i \in 1 .. n : bytes[i] \in generated .. generated + n - 1
  <2>1. \A i \in 1 .. n : bytes[i] = generated + i - 1 /\ i \in Nat
    OBVIOUS
  <2>2. bytes \in [1 .. n -> Nat]
    BY <1>1
  <2> HIDE DEF bytes
  <2>3. \A i \in 1 .. n : bytes[i] \in generated .. generated + n - 1
    BY <1>1, <2>1
  <2> QED BY <1>1, <2>1, <2>2, <2>3
<1> HIDE DEF bytes
<1>4. lock = t
  BY <1>2 DEF RngInv, ModuleTypeOK
<1>5. /\ ~repeated'
      /\ output' = output \cup {bytes[i] : i \in 1 .. n}
      /\ Wiped \notin output'
      /\ buffer' \in [Threads -> Seq(Nat)]
      /\ \A u \in Threads : u # t => buffer'[u] = buffer[u]
      /\ Len(buffer'[t]) = Len(buffer[t]) + n
      /\ \A i \in 1 .. Len(buffer'[t]) : buffer'[t][i] >= epochStart
  BY <1>1, <1>2, <1>3, <1>4, DeliverNew DEF RngInv
<1>6. Len(buffer'[t]) = n
  <2>1. RequestLaw /\ pc[t] = "fill"
    BY <1>2 DEF RngInv
  <2>2. buffer[t] = <<>>
    BY <2>1 DEF RequestLaw
  <2>3. Len(buffer[t]) = 0
    BY <2>2
  <2> QED BY <1>1, <1>5, <2>3
<1>7. output' \subseteq 0 .. generated' - 1 /\ generated' \in Nat /\ generated' >= generated
  <2>1. generated' \in Nat /\ generated' >= generated
    BY <1>1, <1>2
  <2>2. ASSUME NEW x \in output'
        PROVE  x \in 0 .. generated' - 1
    <3>1. x \in 0 .. generated - 1 \/ x \in generated .. generated + n - 1
      BY <1>1, <1>3, <1>5
    <3> QED BY <1>1, <1>2, <3>1
  <2> QED BY <2>1, <2>2
<1>8. ModuleTypeOK' /\ RequestLaw' /\ ServedLaw' /\ FreshAfterReseed'
  <2>1. Len(buffer'[t]) <= request[t]
    BY <1>1, <1>6 DEF n
  <2> QED BY <1>1, <1>2, <1>5, <1>7, <2>1, ServingStep
<1>9. CacheLaw'
  <2>1. \A i \in 0 .. CacheSize - 1 : cache[i] # Wiped => cache[i] < generated' /\ cache[i] \notin output'
    <3> SUFFICES ASSUME NEW i \in 0 .. CacheSize - 1, cache[i] # Wiped
                 PROVE  cache[i] < generated' /\ cache[i] \notin output'
      OBVIOUS
    <3>1. cache[i] \in Nat /\ cache[i] < generated /\ cache[i] \notin output
      BY <1>1 DEF RngInv, CacheLaw
    <3> QED BY <1>1, <1>2, <1>3, <1>5, <3>1
  <2> QED BY <1>2, <2>1 DEF RngInv, CacheLaw
<1>10. NoByteTwice'
  BY <1>1, <1>2, <1>5, <1>9 DEF NoByteTwice, CacheLaw
<1> QED BY <1>8, <1>9, <1>10 DEF RngInv

(* Unlocking gives nothing out.                                            *)
LEMMA UnlockStep ==
  ASSUME RngInv, NEW t \in Threads, Unlock(t)
  PROVE  RngInv'
<1>1. /\ pc[t] = "unlock" /\ pc' = [pc EXCEPT ![t] = "idle"] /\ lock' = Free
      /\ UNCHANGED <<module, cache, cbCache, counter, generated, epochStart, request, buffer,
                     output, repeated, served, calls>>
  BY DEF Unlock, shared, history
<1>2. pc \in [Threads -> {"idle", "lock", "entropy", "reseed", "reseedFips", "reseedAes",
                          "fill", "refill", "unlock"}]
  BY DEF RngInv, ModuleTypeOK
<1>3. pc'[t] = "idle" /\ \A u \in Threads : u # t => pc'[u] = pc[u] /\ pc[u] \in {"idle", "lock", "entropy"}
  <2>1. \A u \in Threads : u # t => pc[u] \in {"idle", "lock", "entropy"}
    BY <1>1, <1>2 DEF RngInv, ModuleTypeOK
  <2> QED BY <1>1, <1>2, <2>1
<1>4. ModuleTypeOK'
  <2>1. \A u \in Threads : lock' = u <=> pc'[u] \notin {"idle", "lock", "entropy"}
    BY <1>1, <1>3, RngAssumption DEF Free
  <2> QED BY <1>1, <1>2, <2>1 DEF RngInv, ModuleTypeOK
<1>5. RequestLaw'
  BY <1>1, <1>3 DEF RngInv, RequestLaw
<1>6. ServedLaw'
  BY <1>1, <1>3 DEF RngInv, ServedLaw
<1>7. FreshAfterReseed'
  BY <1>1, RngAssumption DEF RngInv, FreshAfterReseed, Free
<1> QED BY <1>1, <1>4, <1>5, <1>6, <1>7, CacheUntouched DEF RngInv

(* A small request takes the end of the cache, which is wiped.             *)
LEMMA CacheStep ==
  ASSUME RngInv, NEW t \in Threads, UseCache(t)
  PROVE  RngInv'
<1> DEFINE n == LeastOf(request[t], cbCache)
           at == cbCache - n
           bytes == Slice(cache, at, n)
<1>1. /\ generated \in Nat /\ output \subseteq 0 .. generated - 1
      /\ epochStart \in 0 .. generated /\ cache \in [0 .. CacheSize - 1 -> Nat \cup {Wiped}]
      /\ cbCache \in 0 .. CacheSize /\ request[t] \in Nat /\ CacheSize \in Nat
  BY RequestIsNatural, RngAssumption DEF RngInv, ModuleTypeOK
<1>2. /\ n \in Nat /\ n <= request[t] /\ n <= cbCache /\ at \in Nat /\ at + n = cbCache /\ at <= CacheSize
      /\ n < request[t] => at = 0
  BY <1>1 DEF LeastOf
<1>3. /\ pc[t] = "fill" /\ request[t] < CacheSize
      /\ pc' = [pc EXCEPT ![t] = IF n < request[t] THEN "refill" ELSE "unlock"]
      /\ served' = IF n < request[t] THEN served ELSE served + 1
      /\ Deliver(t, bytes)
      /\ cache' = WipeSlice(cache, at, n)
      /\ cbCache' = at
      /\ UNCHANGED <<module, lock, counter, generated, epochStart, request, calls>>
  BY DEF UseCache
<1> HIDE DEF n, at
<1>4. /\ bytes = [i \in 1 .. n |-> cache[at + i - 1]]
      /\ \A i \in 1 .. n : at + i - 1 \in 0 .. CacheSize - 1 /\ at + i - 1 \in 0 .. cbCache - 1
      /\ \A i \in 1 .. n : bytes[i] = cache[at + i - 1]
  <2>1. bytes = [i \in 1 .. n |-> cache[at + i - 1]]
    BY DEF Slice
  <2>2. \A i \in 1 .. n : at + i - 1 \in 0 .. CacheSize - 1 /\ at + i - 1 \in 0 .. cbCache - 1
    BY <1>1, <1>2
  <2> QED BY <2>1, <2>2
<1> HIDE DEF bytes
<1>5. \A i \in 1 .. n : bytes[i] \in Nat /\ bytes[i] \notin output /\ bytes[i] >= epochStart /\ bytes[i] < generated
  <2> TAKE i \in 1 .. n
  <2>1. at + i - 1 \in 0 .. CacheSize - 1 /\ at + i - 1 \in 0 .. cbCache - 1 /\ bytes[i] = cache[at + i - 1]
    BY <1>4
  <2>2. cache[at + i - 1] # Wiped /\ cache[at + i - 1] >= epochStart
    BY <2>1 DEF RngInv, CacheLaw
  <2>3. cache[at + i - 1] < generated /\ cache[at + i - 1] \notin output
    BY <2>1, <2>2 DEF RngInv, CacheLaw
  <2>4. cache[at + i - 1] \in Nat
    BY <1>1, <2>1, <2>2
  <2> QED BY <2>1, <2>2, <2>3, <2>4
<1>6. bytes \in [1 .. n -> Nat]
  BY <1>4, <1>5
<1>7. \A i, j \in 1 .. n : bytes[i] = bytes[j] => i = j
  <2> SUFFICES ASSUME NEW i \in 1 .. n, NEW j \in 1 .. n, bytes[i] = bytes[j]
               PROVE  i = j
    OBVIOUS
  <2>1. /\ at + i - 1 \in 0 .. CacheSize - 1 /\ at + j - 1 \in 0 .. CacheSize - 1
        /\ at + i - 1 \in 0 .. cbCache - 1 /\ cache[at + i - 1] = cache[at + j - 1]
    BY <1>4
  <2>2. cache[at + i - 1] # Wiped
    BY <2>1 DEF RngInv, CacheLaw
  <2>3. at + i - 1 = at + j - 1
    BY <2>1, <2>2 DEF RngInv, CacheLaw
  <2> QED BY <1>2, <2>3
<1>8. lock = t
  BY <1>3 DEF RngInv, ModuleTypeOK
<1>9. /\ ~repeated'
      /\ output' = output \cup {bytes[i] : i \in 1 .. n}
      /\ Wiped \notin output'
      /\ buffer' \in [Threads -> Seq(Nat)]
      /\ \A u \in Threads : u # t => buffer'[u] = buffer[u]
      /\ Len(buffer'[t]) = Len(buffer[t]) + n
      /\ \A i \in 1 .. Len(buffer'[t]) : buffer'[t][i] >= epochStart
  BY <1>2, <1>3, <1>5, <1>6, <1>7, <1>8, DeliverNew DEF RngInv
<1>10. Len(buffer'[t]) = n
  BY <1>2, <1>3, <1>9 DEF RngInv, RequestLaw
<1>11. /\ cache' \in [0 .. CacheSize - 1 -> Nat \cup {Wiped}]
       /\ \A i \in 0 .. CacheSize - 1 : cache'[i] = IF i >= at /\ i < at + n THEN Wiped ELSE cache[i]
  BY <1>1, <1>3 DEF WipeSlice
<1>12. ModuleTypeOK' /\ RequestLaw' /\ ServedLaw' /\ FreshAfterReseed'
  <2>1. output' \subseteq 0 .. generated' - 1
    <3> SUFFICES ASSUME NEW x \in output' PROVE x \in 0 .. generated - 1
      BY <1>3
    <3>1. x \in output \/ \E i \in 1 .. n : x = bytes[i]
      BY <1>9
    <3>2. ASSUME NEW i \in 1 .. n PROVE bytes[i] \in 0 .. generated - 1
      BY <1>1, <1>5
    <3> QED BY <1>1, <3>1, <3>2
  <2>2. cbCache' \in 0 .. CacheSize /\ generated' \in Nat /\ generated' >= generated
    BY <1>1, <1>2, <1>3
  <2>3. CASE n < request[t]
    <3>1. /\ pc' = [pc EXCEPT ![t] = "refill"] /\ served' = served
          /\ cbCache' = 0 /\ request[t] < CacheSize /\ Len(buffer'[t]) < request[t]
          /\ Len(buffer'[t]) <= request[t]
      BY <1>1, <1>2, <1>3, <1>10, <2>3
    <3> QED BY <1>3, <1>9, <1>11, <2>1, <2>2, <3>1, ServingStep
  <2>4. CASE ~(n < request[t])
    <3>1. /\ pc' = [pc EXCEPT ![t] = "unlock"] /\ served' = served + 1
          /\ Len(buffer'[t]) <= request[t]
      BY <1>1, <1>2, <1>3, <1>10, <2>4
    <3> QED BY <1>3, <1>9, <1>11, <2>1, <2>2, <3>1, ServingStep
  <2> QED BY <2>3, <2>4
<1>13. CacheLaw'
  <2>1. ASSUME NEW i \in 0 .. CacheSize - 1, cache'[i] # Wiped
        PROVE  /\ cache'[i] = cache[i] /\ cache[i] # Wiped /\ ~(i >= at /\ i < at + n)
               /\ cache'[i] < generated' /\ cache'[i] \notin output'
    <3>1. cache'[i] = cache[i] /\ cache[i] # Wiped /\ ~(i >= at /\ i < at + n)
      BY <1>11, <2>1
    <3>2. cache[i] < generated /\ cache[i] \notin output
      BY <3>1 DEF RngInv, CacheLaw
    <3>3. ASSUME NEW j \in 1 .. n PROVE bytes[j] # cache[i]
      <4>1. at + j - 1 \in 0 .. CacheSize - 1 /\ bytes[j] = cache[at + j - 1]
        BY <1>4
      <4>2. at + j - 1 # i
        BY <1>2, <3>1
      <4> QED BY <3>1, <4>1, <4>2 DEF RngInv, CacheLaw
    <3> QED BY <1>3, <1>9, <3>1, <3>2, <3>3
  <2>2. \A i, j \in 0 .. CacheSize - 1 : (cache'[i] # Wiped /\ cache'[i] = cache'[j]) => i = j
    BY <2>1 DEF RngInv, CacheLaw
  <2>3. \A i \in 0 .. cbCache' - 1 : cache'[i] # Wiped /\ cache'[i] >= epochStart'
    <3> SUFFICES ASSUME NEW i \in 0 .. at - 1
                 PROVE  cache'[i] # Wiped /\ cache'[i] >= epochStart
      BY <1>3
    <3>1. i \in 0 .. CacheSize - 1 /\ i \in 0 .. cbCache - 1 /\ i < at
      BY <1>1, <1>2
    <3>2. cache'[i] = cache[i]
      BY <1>1, <1>2, <1>11, <3>1
    <3> QED BY <3>1, <3>2 DEF RngInv, CacheLaw
  <2> QED BY <2>1, <2>2, <2>3 DEF CacheLaw
<1>14. NoByteTwice'
  BY <1>9, <1>11, <1>13 DEF NoByteTwice, CacheLaw
<1> QED BY <1>12, <1>13, <1>14 DEF RngInv

(* The cache is generated anew; its end completes the request.             *)
LEMMA RefillStep ==
  ASSUME RngInv, NEW t \in Threads, Refill(t)
  PROVE  RngInv'
<1> DEFINE n == request[t] - Len(buffer[t])
           at == CacheSize - n
           filled == [i \in 0 .. CacheSize - 1 |-> generated + i]
           bytes == Slice(filled, at, n)
<1>1. /\ generated \in Nat /\ output \subseteq 0 .. generated - 1
      /\ epochStart \in 0 .. generated /\ request[t] \in Nat /\ CacheSize \in Nat
      /\ buffer[t] \in Seq(Nat) /\ Len(buffer[t]) \in Nat
  BY RequestIsNatural, RngAssumption DEF RngInv, ModuleTypeOK
<1>2. /\ pc[t] = "refill" /\ pc' = [pc EXCEPT ![t] = "unlock"]
      /\ generated' = generated + CacheSize /\ served' = served + 1
      /\ Deliver(t, bytes)
      /\ cache' = WipeSlice(filled, at, n)
      /\ cbCache' = at - (at % Alignment(request[t]))
      /\ UNCHANGED <<module, lock, counter, epochStart, request, calls>>
  BY DEF Refill
<1>3. /\ n \in Nat /\ n < CacheSize /\ at \in Nat /\ at + n = CacheSize
      /\ Len(buffer[t]) + n = request[t]
  <2>1. request[t] < CacheSize /\ Len(buffer[t]) < request[t]
    BY <1>2 DEF RngInv, RequestLaw
  <2> QED BY <1>1, <2>1
<1>4. filled \in [0 .. CacheSize - 1 -> Nat] /\ \A i \in 0 .. CacheSize - 1 : filled[i] = generated + i
  BY <1>1
<1> HIDE DEF n, at, filled
<1>5. /\ bytes = [i \in 1 .. n |-> filled[at + i - 1]]
      /\ \A i \in 1 .. n : at + i - 1 \in 0 .. CacheSize - 1
      /\ \A i \in 1 .. n : bytes[i] = generated + (at + i - 1)
  <2>1. bytes = [i \in 1 .. n |-> filled[at + i - 1]]
    BY DEF Slice
  <2>2. \A i \in 1 .. n : at + i - 1 \in 0 .. CacheSize - 1
    BY <1>1, <1>3
  <2> QED BY <1>4, <2>1, <2>2
<1> HIDE DEF bytes
<1>6. /\ bytes \in [1 .. n -> Nat]
      /\ \A i, j \in 1 .. n : bytes[i] = bytes[j] => i = j
      /\ \A i \in 1 .. n : bytes[i] \notin output /\ bytes[i] >= epochStart
      /\ \A i \in 1 .. n : bytes[i] \in generated .. generated + CacheSize - 1
  <2>1. bytes \in [1 .. n -> Nat]
    BY <1>4, <1>5
  <2>2. ASSUME NEW i \in 1 .. n PROVE bytes[i] \in generated .. generated + CacheSize - 1
    <3>1. at + i - 1 \in 0 .. CacheSize - 1 /\ bytes[i] = generated + (at + i - 1)
      BY <1>5
    <3> QED BY <1>1, <3>1
  <2>3. \A i, j \in 1 .. n : bytes[i] = bytes[j] => i = j
    BY <1>1, <1>3, <1>5, SMTT(20)
  <2> QED BY <1>1, <2>1, <2>2, <2>3
<1>7. lock = t
  BY <1>2 DEF RngInv, ModuleTypeOK
<1>8. /\ ~repeated'
      /\ output' = output \cup {bytes[i] : i \in 1 .. n}
      /\ Wiped \notin output'
      /\ buffer' \in [Threads -> Seq(Nat)]
      /\ \A u \in Threads : u # t => buffer'[u] = buffer[u]
      /\ Len(buffer'[t]) = Len(buffer[t]) + n
      /\ \A i \in 1 .. Len(buffer'[t]) : buffer'[t][i] >= epochStart
  BY <1>2, <1>3, <1>6, <1>7, DeliverNew DEF RngInv
<1>9. /\ cache' \in [0 .. CacheSize - 1 -> Nat \cup {Wiped}]
      /\ \A i \in 0 .. CacheSize - 1 : cache'[i] = IF i >= at /\ i < at + n THEN Wiped ELSE generated + i
  BY <1>2, <1>4 DEF WipeSlice
<1>10. cbCache' \in 0 .. at
  BY <1>1, <1>2, <1>3, AlignDown
<1>11. ModuleTypeOK' /\ RequestLaw' /\ ServedLaw' /\ FreshAfterReseed'
  <2>1. generated' \in Nat /\ generated' >= generated /\ cbCache' \in 0 .. CacheSize
    BY <1>1, <1>2, <1>3, <1>10
  <2>2. output' \subseteq 0 .. generated' - 1
    <3> SUFFICES ASSUME NEW x \in output' PROVE x \in 0 .. generated + CacheSize - 1
      BY <1>1, <1>2
    <3>1. x \in output \/ \E i \in 1 .. n : x = bytes[i]
      BY <1>8
    <3>2. CASE x \in output
      <4>1. x \in 0 .. generated - 1
        BY <1>1, <3>2
      <4> QED BY <1>1, <4>1
    <3>3. ASSUME NEW i \in 1 .. n, x = bytes[i] PROVE x \in 0 .. generated + CacheSize - 1
      BY <1>1, <1>6, <3>3
    <3> QED BY <3>1, <3>2, <3>3
  <2>3. Len(buffer'[t]) <= request[t]
    BY <1>1, <1>3, <1>8
  <2> QED BY <1>2, <1>8, <1>9, <2>1, <2>2, <2>3, ServingStep
<1>12. CacheLaw'
  <2>1. ASSUME NEW i \in 0 .. CacheSize - 1, cache'[i] # Wiped
        PROVE  /\ cache'[i] = generated + i /\ i < at
               /\ cache'[i] < generated' /\ cache'[i] \notin output'
    <3>1. cache'[i] = generated + i /\ i < at
      BY <1>3, <1>9, <2>1
    <3>2. ASSUME NEW j \in 1 .. n PROVE bytes[j] # generated + i
      BY <1>1, <1>3, <1>5, <3>1
    <3>3. generated + i \notin output
      BY <1>1
    <3> QED BY <1>1, <1>2, <1>8, <3>1, <3>2, <3>3
  <2>2. \A i, j \in 0 .. CacheSize - 1 : (cache'[i] # Wiped /\ cache'[i] = cache'[j]) => i = j
    BY <1>1, <2>1
  <2>3. \A i \in 0 .. cbCache' - 1 : cache'[i] # Wiped /\ cache'[i] >= epochStart'
    <3>1. ASSUME NEW c \in 0 .. at, NEW i \in 0 .. c - 1
          PROVE  cache'[i] # Wiped /\ cache'[i] >= epochStart
      <4>1. i \in 0 .. CacheSize - 1 /\ i < at
        BY <1>1, <1>3
      <4>2. cache'[i] = generated + i
        BY <1>3, <1>9, <4>1
      <4> QED BY <1>1, <4>1, <4>2 DEF Wiped
    <3> QED BY <1>2, <1>10, <3>1
  <2> QED BY <2>1, <2>2, <2>3 DEF CacheLaw
<1>13. NoByteTwice'
  BY <1>8, <1>9, <1>12 DEF NoByteTwice, CacheLaw
<1> QED BY <1>11, <1>12, <1>13 DEF RngInv
-----------------------------------------------------------------------------
(* Every step of the module and of its callers.                            *)
LEMMA RngStep ==
  ASSUME RngInv, [ModuleNext]_rngVars
  PROVE  RngInv'
<1>1. CASE RngInit \/ RngInitFails \/ RngUninit \/ (\E t \in Threads : EntropyFails(t)) \/ UNCHANGED rngVars
  <2>1. module \in {"loading", "up", "unloaded", "fatal"}
    BY DEF RngInv, ModuleTypeOK
  <2>2. /\ UNCHANGED <<lock, cache, cbCache, counter, generated, epochStart, pc, request, buffer,
                       output, repeated, served, calls>>
        /\ module' \in {"loading", "up", "unloaded", "fatal"}
    BY <1>1, <2>1 DEF RngInit, RngInitFails, RngUninit, EntropyFails, rngVars, shared, history
  <2> QED BY <2>2, LifeCycleStep
<1>2. ASSUME NEW t \in Threads, Thread(t), ~EntropyFails(t)
      PROVE  RngInv'
  BY <1>2, StartStep, LockStep, EntropyStep, ReseedStep, CacheStep, RefillStep, LargeStep, UnlockStep
     DEF Thread, Locked
<1> QED BY <1>1, <1>2 DEF ModuleNext

(* The inductive invariant of the module's generator: types, the lock, the *)
(* contents of the cache and the stages of a request.                      *)
THEOREM RngInvariance == ModuleSpec => []RngInv
<1>1. RngInv /\ [ModuleNext]_rngVars => RngInv'
  BY RngStep
<1> QED BY <1>1, RngInitially, PTL DEF ModuleSpec

(* For any number of threads: no random byte is given out twice, and none  *)
(* that was given out is left in the cache.                                *)
THEOREM RngNoByteTwice == ModuleSpec => []NoByteTwice
BY RngInvariance, PTL DEF RngInv

(* After a reseed only bytes generated since are given out, and at most    *)
(* MAX_GENERATE_BEFORE_RESEED requests and one are served from a seed.     *)
THEOREM RngFreshAfterReseed == ModuleSpec => []FreshAfterReseed
BY RngInvariance, PTL DEF RngInv
-----------------------------------------------------------------------------
(* What a call has to do at first is everything it was asked for.          *)
LEMMA AskedIsPending ==
  ASSUME NEW kind \in StKinds, NEW asked \in SUBSET TestSet(kind)
  PROVE  /\ TestsAsked(kind, asked) \in Seq(OnDemand)
         /\ asked \subseteq {TestsAsked(kind, asked)[i] : i \in 1 .. Len(TestsAsked(kind, asked))}
         /\ asked \in SUBSET OnDemand
<1>1. TestSet(kind) \subseteq OnDemand
  BY DEF OnDemand
<1>2. ASSUME NEW a, NEW b, a \in OnDemand, b \in OnDemand, asked \subseteq {a, b},
             NEW todo, todo = (IF a \in asked THEN <<a>> ELSE <<>>) \o (IF b \in asked THEN <<b>> ELSE <<>>)
      PROVE  todo \in Seq(OnDemand) /\ asked \subseteq {todo[i] : i \in 1 .. Len(todo)}
  <2>1. CASE a \in asked /\ b \in asked
    <3>1. todo = <<a>> \o <<b>> /\ <<a>> \in Seq(OnDemand) /\ <<b>> \in Seq(OnDemand)
      BY <1>2, <2>1
    <3>2. /\ todo \in Seq(OnDemand) /\ Len(todo) = Len(<<a>>) + Len(<<b>>)
          /\ \A i \in 1 .. Len(<<a>>) + Len(<<b>>) :
               todo[i] = IF i <= Len(<<a>>) THEN <<a>>[i] ELSE <<b>>[i - Len(<<a>>)]
      BY <3>1, ConcatProperties
    <3>3. Len(todo) = 2 /\ todo[1] = a /\ todo[2] = b
      BY <3>2
    <3>4. 1 \in 1 .. Len(todo) /\ 2 \in 1 .. Len(todo)
      BY <3>3
    <3>5. a \in {todo[i] : i \in 1 .. Len(todo)} /\ b \in {todo[i] : i \in 1 .. Len(todo)}
      BY <3>3, <3>4
    <3> QED BY <1>2, <3>2, <3>5
  <2>2. CASE a \in asked /\ b \notin asked
    <3>1. todo = <<a>>
      BY <1>2, <2>2
    <3>2. Len(todo) = 1 /\ todo[1] = a
      BY <3>1
    <3> QED BY <1>2, <2>2, <3>1, <3>2
  <2>3. CASE a \notin asked /\ b \in asked
    <3>1. todo = <<b>>
      BY <1>2, <2>3
    <3>2. Len(todo) = 1 /\ todo[1] = b
      BY <3>1
    <3> QED BY <1>2, <2>3, <3>1, <3>2
  <2>4. CASE a \notin asked /\ b \notin asked
    <3>1. todo = <<>> /\ asked = {}
      BY <1>2, <2>4
    <3> QED BY <3>1
  <2> QED BY <2>1, <2>2, <2>3, <2>4
<1>3. CASE kind = "dl"
  <2>1. TestSet(kind) = {"dsa", "dh"}
    BY <1>3 DEF TestSet
  <2>2. TestsAsked(kind, asked) = (IF "dsa" \in asked THEN <<"dsa">> ELSE <<>>)
                                    \o (IF "dh" \in asked THEN <<"dh">> ELSE <<>>)
    BY <1>3 DEF TestsAsked
  <2> QED BY <1>1, <1>2, <2>1, <2>2
<1>4. CASE kind = "ec"
  <2>1. TestSet(kind) = {"ecdsa", "ecdh"}
    BY <1>4 DEF TestSet
  <2>2. TestsAsked(kind, asked) = (IF "ecdsa" \in asked THEN <<"ecdsa">> ELSE <<>>)
                                    \o (IF "ecdh" \in asked THEN <<"ecdh">> ELSE <<>>)
    BY <1>4 DEF TestsAsked
  <2> QED BY <1>1, <1>2, <2>1, <2>2
<1>5. CASE kind = "rsa"
  <2>1. TestSet(kind) = {"rsa"}
    BY <1>5 DEF TestSet
  <2>2. TestsAsked(kind, asked) = IF "rsa" \in asked THEN <<"rsa">> ELSE <<>>
    BY <1>5 DEF TestsAsked
  <2>3. CASE "rsa" \in asked
    <3>1. TestsAsked(kind, asked) = <<"rsa">> /\ Len(<<"rsa">>) = 1 /\ <<"rsa">>[1] = "rsa"
      BY <2>2, <2>3
    <3> QED BY <1>1, <2>1, <3>1
  <2>4. CASE "rsa" \notin asked
    <3>1. TestsAsked(kind, asked) = <<>> /\ asked = {}
      BY <2>1, <2>2, <2>4
    <3> QED BY <3>1
  <2> QED BY <2>3, <2>4
<1> QED BY <1>3, <1>4, <1>5, StAssumption

(* Taking the first test off a list takes at most that one off.            *)
LEMMA TailPending ==
  ASSUME NEW S, NEW todo \in Seq(S), todo # <<>>
  PROVE  /\ Head(todo) \in S /\ Tail(todo) \in Seq(S)
         /\ {todo[i] : i \in 1 .. Len(todo)} \subseteq
              {Head(todo)} \cup {Tail(todo)[i] : i \in 1 .. Len(Tail(todo))}
<1>1. Len(todo) \in Nat /\ Len(todo) >= 1
  OBVIOUS
<1>2. Head(todo) = todo[1] /\ Len(Tail(todo)) = Len(todo) - 1
  BY <1>1
<1>3. ASSUME NEW i \in 1 .. Len(todo)
      PROVE  todo[i] = Head(todo) \/ \E j \in 1 .. Len(Tail(todo)) : todo[i] = Tail(todo)[j]
  <2>1. CASE i = 1
    BY <1>2, <2>1
  <2>2. CASE i # 1
    <3>1. i - 1 \in 1 .. Len(Tail(todo))
      BY <1>1, <1>2, <2>2
    <3>2. Tail(todo)[i - 1] = todo[(i - 1) + 1] /\ (i - 1) + 1 = i
      BY <1>1, <1>2, <3>1
    <3> QED BY <3>1, <3>2
  <2> QED BY <2>1, <2>2
<1> QED BY <1>1, <1>2, <1>3

(* An empty list holds nothing.                                            *)
LEMMA NothingPending ==
  ASSUME NEW todo, todo = <<>>
  PROVE  {todo[i] : i \in 1 .. Len(todo)} = {}
OBVIOUS
-----------------------------------------------------------------------------
(* A call that is not idle has all the fields of one.                      *)
LEMMA RunningCall ==
  ASSUME StTypeOK, NEW t \in StThreads, NEW at \in {"next", "test", "flag", "has key"}, stCall[t].at = at
  PROVE  stCall[t] \in StCalls /\ stCall[t] # StIdle
<1>1. StIdle.at = "idle"
  BY DEF StIdle
<1>2. stCall[t] # StIdle
  BY <1>1
<1> QED BY <1>2 DEF StTypeOK

(* A step of one call that keeps the flags and leaves its call tested.     *)
LEMMA CallStep ==
  ASSUME StInv, NEW t \in StThreads, ~stFatal, NEW call \in StCalls \cup {StIdle},
         stCall' = [stCall EXCEPT ![t] = call],
         stFatal' \in BOOLEAN, UNCHANGED stFaulty,
         ~stFatal' => FlagLaw',
         ~stFatal' /\ call # StIdle => TestedLaw(call)
  PROVE  StInv'
<1>1. stCall \in [StThreads -> StCalls \cup {StIdle}]
  BY DEF StInv, StTypeOK
<1>2. /\ stCall' \in [StThreads -> StCalls \cup {StIdle}] /\ stCall'[t] = call
      /\ \A u \in StThreads : u # t => stCall'[u] = stCall[u]
  BY <1>1
<1>3. StTypeOK'
  BY <1>2 DEF StTypeOK, StCalls, StIdle, OnDemand
<1>4. ASSUME ~stFatal', NEW u \in StThreads, stCall'[u] # StIdle
      PROVE  TestedLaw(stCall[u])'
  <2>1. TestedLaw(stCall'[u])
    <3>1. CASE u = t
      BY <1>2, <1>4, <3>1
    <3>2. CASE u # t
      BY <1>2, <1>4, <3>2 DEF StInv
    <3> QED BY <3>1, <3>2
  <2> QED BY <2>1 DEF TestedLaw, Pending
<1> QED BY <1>3, <1>4 DEF StInv, StIdle

(* Before the constructor no flag is set and no call made.                 *)
LEMMA StInitially == StInit => StInv
<1> SUFFICES ASSUME StInit PROVE StInv
  OBVIOUS
<1>1. StTypeOK
  BY DEF StInit, StTypeOK
<1>2. FlagLaw /\ \A t \in StThreads : stCall[t] = StIdle
  BY DEF StInit, FlagLaw
<1> QED BY <1>1, <1>2 DEF StInv

(* A step of the constructor: a test that fails is fatal.                  *)
LEMMA MainStepKeeps ==
  ASSUME StInv, MainStep
  PROVE  StInv'
<1>1. /\ ~stFatal /\ stFatal' = (Head(stMain) \in stFaulty)
      /\ stPerformed' = stPerformed \cup ({"startup"} \cap {Head(stMain)})
      /\ UNCHANGED <<stFaulty, stCall>>
  BY DEF MainStep
<1>2. StTypeOK'
  <2>1. stFatal' = TRUE \/ stFatal' = FALSE
    BY <1>1
  <2>2. stCall \in [StThreads -> StCalls \cup {StIdle}]
    BY DEF StInv, StTypeOK
  <2> QED BY <1>1, <2>1, <2>2 DEF StTypeOK, StCalls, StIdle, OnDemand
<1>3. ~stFatal' => FlagLaw'
  <2> SUFFICES ASSUME Head(stMain) \notin stFaulty PROVE FlagLaw'
    BY <1>1
  <2>1. stPerformed \cap stFaulty = {}
    BY <1>1 DEF StInv, FlagLaw
  <2> QED BY <1>1, <2>1 DEF FlagLaw
<1>4. \A t \in StThreads : stCall'[t] # StIdle => TestedLaw(stCall[t])'
  <2> SUFFICES ASSUME NEW t \in StThreads, stCall'[t] # StIdle
               PROVE  TestedLaw(stCall[t])'
    OBVIOUS
  <2>1. TestedLaw(stCall'[t])
    BY <1>1 DEF StInv
  <2> QED BY <1>1, <2>1 DEF TestedLaw, Pending
<1> QED BY <1>2, <1>3, <1>4 DEF StInv, StIdle

(* A call begins with all the tests it asks for before it.                 *)
LEMMA MakeKeyKeeps ==
  ASSUME StInv, NEW t \in StThreads, NEW kind \in StKinds, NEW made \in {"import", "generate"},
         NEW good \in BOOLEAN, NEW asked \in SUBSET TestSet(kind), MakeKey(t, kind, asked, made, good)
  PROVE  StInv'
<1> DEFINE todo == TestsAsked(kind, asked)
           call == [at |-> "next", made |-> made, good |-> good, asked |-> asked, todo |-> todo]
<1>1. /\ ~stFatal /\ (made = "import" => good)
      /\ stCall' = [stCall EXCEPT ![t] = call]
      /\ UNCHANGED <<stFatal, stFaulty, stPerformed>>
  BY DEF MakeKey, CanRun
<1>2. /\ todo \in Seq(OnDemand) /\ asked \in SUBSET OnDemand
      /\ asked \subseteq {todo[i] : i \in 1 .. Len(todo)}
  BY AskedIsPending
<1> HIDE DEF todo
<1>3. call \in StCalls
  BY <1>2 DEF StCalls
<1>4. TestedLaw(call)
  <2>1. call.asked \ Pending(call) = {}
    BY <1>2 DEF Pending
  <2>2. call.at = "next" /\ call.made = made /\ call.good = good
    OBVIOUS
  <2> HIDE DEF call
  <2> QED BY <1>1, <2>1, <2>2 DEF TestedLaw
<1>5. FlagLaw'
  BY <1>1 DEF StInv, FlagLaw
<1> HIDE DEF call
<1> QED BY <1>1, <1>3, <1>4, <1>5, CallStep DEF StInv, StTypeOK

(* A test that was passed leaves the list of its call.                     *)
LEMMA PassedTest ==
  ASSUME NEW call \in StCalls, TestedLaw(call), call.todo # <<>>,
         Head(call.todo) \notin stFaulty, call.good
  PROVE  LET next == [call EXCEPT !.at = "next", !.todo = Tail(@)]
         IN  next \in StCalls /\ TestedLaw(next)
<1> DEFINE next == [call EXCEPT !.at = "next", !.todo = Tail(@)]
<1>1. call.todo \in Seq(OnDemand)
  BY DEF StCalls
<1>2. /\ Tail(call.todo) \in Seq(OnDemand)
      /\ Pending(call) \subseteq {Head(call.todo)} \cup {Tail(call.todo)[i] : i \in 1 .. Len(Tail(call.todo))}
  BY <1>1, TailPending DEF Pending
<1>3. next \in StCalls /\ next.at = "next" /\ next.todo = Tail(call.todo) /\ next.asked = call.asked
       /\ next.good = call.good /\ next.made = call.made
  BY <1>2 DEF StCalls
<1> HIDE DEF next
<1>4. next.asked \ Pending(next) \subseteq (call.asked \ Pending(call)) \cup {Head(call.todo)}
  BY <1>2, <1>3 DEF Pending
<1>5. TestedLaw(next)
  <2>1. (next.asked \ Pending(next)) \cap stFaulty = {}
    BY <1>4 DEF TestedLaw
  <2> QED BY <1>3, <2>1 DEF TestedLaw
<1> QED BY <1>3, <1>5 DEF next

(* A step to another stage of the same test.                               *)
LEMMA NextStage ==
  ASSUME NEW call \in StCalls, TestedLaw(call), NEW at \in {"test", "flag", "has key"},
         at \in {"test", "flag"} => call.todo # <<>>,
         at = "flag" => Head(call.todo) \notin stFaulty /\ call.good,
         at = "has key" => call.todo = <<>>
  PROVE  LET next == [call EXCEPT !.at = at] IN next \in StCalls /\ TestedLaw(next)
<1> DEFINE next == [call EXCEPT !.at = at]
<1>1. next \in StCalls /\ next.at = at /\ next.todo = call.todo /\ next.asked = call.asked
       /\ next.good = call.good /\ next.made = call.made
  BY DEF StCalls
<1> HIDE DEF next
<1>2. Pending(next) = Pending(call)
  BY <1>1 DEF Pending
<1>3. TestedLaw(next)
  BY <1>1, <1>2 DEF TestedLaw
<1> QED BY <1>1, <1>3 DEF next

(* A step of a call: a test leaves the list only when its flag was set or  *)
(* it has passed.                                                          *)
LEMMA ThreadStepKeeps ==
  ASSUME StInv, NEW t \in StThreads,
         CheckFlag(t) \/ StartPct(t) \/ RunTest(t) \/ SetFlag(t) \/ ReturnKey(t) \/ FreeKey(t)
  PROVE  StInv'
<1> DEFINE call == stCall[t]
<1>1. ~stFatal /\ stCall \in [StThreads -> StCalls \cup {StIdle}] /\ FlagLaw
       /\ UNCHANGED stFaulty /\ call.at \in {"next", "test", "flag", "has key"}
  BY DEF CheckFlag, StartPct, RunTest, SetFlag, ReturnKey, FreeKey, CanRun, StInv, StTypeOK
<1>2. call \in StCalls /\ TestedLaw(call)
  <2>1. call \in StCalls /\ call # StIdle
    BY <1>1, RunningCall DEF StInv
  <2> QED BY <1>1, <2>1 DEF StInv
<1>3. UNCHANGED stPerformed => FlagLaw'
  BY <1>1 DEF FlagLaw
<1>4. UNCHANGED stFatal => stFatal' \in BOOLEAN
  BY DEF StInv, StTypeOK
<1>5. CASE CheckFlag(t)
  <2>1. /\ call.at = "next" /\ call.todo # <<>> /\ call.made = "import"
        /\ UNCHANGED <<stFatal, stPerformed>>
    BY <1>5 DEF CheckFlag, CanRun
  <2>2. CASE Head(call.todo) \in stPerformed
    <3> DEFINE next == [call EXCEPT !.at = "next", !.todo = Tail(@)]
    <3>1. stCall' = [stCall EXCEPT ![t] = [call EXCEPT !.todo = Tail(@)]]
      BY <1>1, <1>5, <2>2 DEF CheckFlag
    <3>2. [call EXCEPT !.todo = Tail(@)] = next
      BY <1>2, <2>1 DEF StCalls
    <3>3. Head(call.todo) \notin stFaulty /\ call.good
      BY <1>1, <1>2, <2>1, <2>2 DEF FlagLaw, TestedLaw
    <3>4. next \in StCalls /\ TestedLaw(next)
      BY <1>2, <2>1, <3>3, PassedTest
    <3> HIDE DEF next, call
    <3> QED BY <1>1, <1>3, <1>4, <2>1, <3>1, <3>2, <3>4, CallStep
  <2>3. CASE Head(call.todo) \notin stPerformed
    <3> DEFINE next == [call EXCEPT !.at = "test"]
    <3>1. stCall' = [stCall EXCEPT ![t] = next]
      BY <1>1, <1>5, <2>3 DEF CheckFlag
    <3>2. next \in StCalls /\ TestedLaw(next)
      BY <1>2, <2>1, NextStage
    <3> HIDE DEF next, call
    <3> QED BY <1>1, <1>3, <1>4, <2>1, <3>1, <3>2, CallStep
  <2> QED BY <2>2, <2>3
<1>6. CASE StartPct(t)
  <2> DEFINE next == [call EXCEPT !.at = "test"]
  <2>1. call.todo # <<>> /\ UNCHANGED <<stFatal, stPerformed>> /\ stCall' = [stCall EXCEPT ![t] = next]
    BY <1>1, <1>6 DEF StartPct
  <2>2. next \in StCalls /\ TestedLaw(next)
    BY <1>2, <2>1, NextStage
  <2> HIDE DEF next, call
  <2> QED BY <1>1, <1>3, <1>4, <2>1, <2>2, CallStep
<1>7. CASE RunTest(t)
  <2> DEFINE next == [call EXCEPT !.at = "flag"]
  <2>1. /\ call.at = "test" /\ UNCHANGED stPerformed /\ stCall' = [stCall EXCEPT ![t] = next]
        /\ stFatal' = (Head(call.todo) \in stFaulty \/ ~call.good)
    BY <1>1, <1>7 DEF RunTest, CanRun
  <2>2. stFatal' \in BOOLEAN
    BY <2>1, Zenon
  <2>3. call.todo # <<>>
    BY <1>2, <2>1 DEF TestedLaw
  <2>4. next \in StCalls
    BY <1>2 DEF StCalls
  <2>5. ~stFatal' => Head(call.todo) \notin stFaulty /\ call.good
    BY <2>1, Zenon
  <2>6. ~stFatal' => TestedLaw(next)
    BY <1>2, <2>3, <2>5, NextStage
  <2> HIDE DEF next, call
  <2> QED BY <1>1, <1>3, <2>1, <2>2, <2>4, <2>6, CallStep
<1>8. CASE SetFlag(t)
  <2> DEFINE next == [call EXCEPT !.at = "next", !.todo = Tail(@)]
  <2>1. /\ call.at = "flag" /\ stPerformed' = stPerformed \cup {Head(call.todo)}
        /\ stCall' = [stCall EXCEPT ![t] = next] /\ UNCHANGED stFatal
    BY <1>1, <1>8 DEF SetFlag, CanRun
  <2>2. call.todo # <<>> /\ Head(call.todo) \notin stFaulty /\ call.good
    BY <1>2, <2>1 DEF TestedLaw
  <2>3. next \in StCalls /\ TestedLaw(next)
    BY <1>2, <2>2, PassedTest
  <2>4. FlagLaw'
    BY <1>1, <2>1, <2>2 DEF FlagLaw
  <2> HIDE DEF next, call
  <2> QED BY <1>1, <1>4, <2>1, <2>3, <2>4, CallStep
<1>9. CASE ReturnKey(t)
  <2> DEFINE next == [call EXCEPT !.at = "has key"]
  <2>1. call.todo = <<>> /\ UNCHANGED <<stFatal, stPerformed>> /\ stCall' = [stCall EXCEPT ![t] = next]
    BY <1>1, <1>9 DEF ReturnKey
  <2>2. next \in StCalls /\ TestedLaw(next)
    BY <1>2, <2>1, NextStage
  <2> HIDE DEF next, call
  <2> QED BY <1>1, <1>3, <1>4, <2>1, <2>2, CallStep
<1>10. CASE FreeKey(t)
  <2>1. stCall' = [stCall EXCEPT ![t] = StIdle] /\ UNCHANGED <<stFatal, stPerformed>>
    BY <1>10 DEF FreeKey
  <2> HIDE DEF call
  <2> QED BY <1>1, <1>3, <1>4, <2>1, CallStep
<1> QED BY <1>5, <1>6, <1>7, <1>8, <1>9, <1>10

(* A stuttering step.                                                      *)
LEMMA StStutters ==
  ASSUME StInv, UNCHANGED stVars
  PROVE  StInv'
<1>1. UNCHANGED <<stFatal, stFaulty, stPerformed, stCall>>
  BY DEF stVars
<1>2. StTypeOK'
  BY <1>1 DEF StInv, StTypeOK, StCalls, StIdle, OnDemand
<1>3. ~stFatal' => FlagLaw'
  BY <1>1 DEF StInv, FlagLaw
<1>4. ASSUME ~stFatal', NEW t \in StThreads, stCall'[t] # StIdle
      PROVE  TestedLaw(stCall[t])'
  <2>1. TestedLaw(stCall[t])
    BY <1>1, <1>4 DEF StInv
  <2> QED BY <1>1, <2>1 DEF TestedLaw, Pending
<1> QED BY <1>2, <1>3, <1>4 DEF StInv, StIdle

(* The inductive invariant of the start and of the self-tests on demand.   *)
THEOREM StInvariance == StSpec => []StInv
<1>1. StInv /\ [StNext]_stVars => StInv'
  BY MainStepKeeps, MakeKeyKeeps, ThreadStepKeeps, StStutters DEF StNext
<1> QED BY <1>1, StInitially, PTL DEF StSpec

(* Whichever threads run the tests, and in whatever order they meet the    *)
(* flags: a key that was returned passed the tests its caller asked for.   *)
THEOREM StKeysAreTested == StSpec => []KeysAreTested
<1>1. StInv => KeysAreTested
  <2> SUFFICES ASSUME StInv, NEW t \in StThreads, stCall[t].at = "has key", ~stFatal
               PROVE  /\ stCall[t].asked \cap stFaulty = {}
                      /\ stCall[t].asked # {} => stCall[t].good
    BY DEF KeysAreTested
  <2>1. stCall[t] # StIdle
    BY RunningCall DEF StInv
  <2>2. TestedLaw(stCall[t])
    BY <2>1 DEF StInv
  <2>3. stCall[t].todo = <<>>
    BY <2>2 DEF TestedLaw
  <2>4. Pending(stCall[t]) = {}
    BY <2>3, NothingPending DEF Pending
  <2> QED BY <2>2, <2>4 DEF TestedLaw
<1> QED BY <1>1, StInvariance, PTL
=============================================================================
