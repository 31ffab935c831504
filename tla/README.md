# SymCrypt in TLA+

A verification development for the SymCrypt library: TLA+ modules translated from
the C sources, TLC runs on small instances, and TLAPS proofs, for every value of
the constants, of the results that matter most.

* [The system](#the-system) and its components
* [Modules](#modules): which module models what, and how
* [Runs](#runs), their bounds and the fairness they assume
* [Proofs](#proofs): what is proved, from what, and along which argument
* [Where the code and its words differ](#where-the-code-and-its-words-differ)
* [What is not modelled](#what-is-not-modelled) and the [plan](#plan)

## The system

SymCrypt is a library. It has no threads, no network and no files of its own; it
is called by threads of a process, and its state is in objects that the caller
allocates or, in the Linux modules, in a few globals. Paths below are relative to
the repository; `PROJECT.json` has each component's files and its status.

### Inventory

| Component | State | Operations | What is hard about it | What makes it correct |
|---|---|---|---|---|
| Sessions (`lib/session.c`) | `SYMCRYPT_SESSION`: sender id, a 64-bit message number and a 64-bit replay mask, on some CPUs a mutex | sender and receiver init, encrypt, decrypt, destroy | Used by many threads at once. Encryption is an atomic increment with an undo, decryption a 128-bit compare-and-swap loop or a mutex with unlocked early checks | No nonce is used twice; no message number is accepted twice; nothing but a replay is refused as one; a refused message leaves no plaintext |
| AES-CTR-DRBG (`lib/aesCtrDrbg.c`) | key, V, request counter, last block for the FIPS 140-2 test | instantiate, generate, reseed, uninstantiate | A 64-bit counter routine drives a 128-bit counter; limits of 2^48 requests and 2^16 bytes; requests split, last blocks incomplete | Same output as the 128-bit definition; no block of AES used twice; the continuous test sees every block |
| Module RNG (`modules_linux/common/rng.c`) | one DRBG, a cache of generated bytes, a request counter, a lock | random bytes, provide entropy, load, unload | Threads share everything; the cache must survive partial use, alignment and reseeding | No byte is given out twice; nothing older than a reseed is given out after it; every path unlocks |
| Module start and self-tests (`modules_linux/common/module.c`, `lib/fips_selftest.c`, macros of `lib/sc_lib.h`) | a word of flags of the tests that have passed | constructor; self-test on first use, pairwise test of generated keys | The flags are read and set by several threads without a lock | No key is returned on the strength of a test that has not ended |
| Hash states (`lib/hash.c`, `sha*.c`, `md4.c`, `md5.c`) | chaining state, a block buffer and its count, a length | init, append, result, copy, export, import | Any cut of the message; states reused; a length of two words | The result is the hash of the padded message; nothing of an earlier message comes back |
| Parallel hashing (`lib/parhash.c`, `sha*Par.c`) | the states, a state machine for each, an array of work | process a list of operations | Operations of different states reordered, several lanes, lanes replaced and dropped in the middle of a scan | Same results as one after the other; it ends |
| HMAC, CMAC, Marvin32 (`lib/hmac_pattern.c`, `aescmac.c`, `marvin32.c`) | expanded key, hash state or block buffer | expand key, init, append, result, copy | HMAC starts a hash in the middle; CMAC must keep back a full last block; keys longer than a block | The MAC is the standard's for the whole message |
| Cipher modes (`lib/blockciphermodes.c`, `xtsaes.c`) | chaining value, tweak | encrypt and decrypt in calls of any sizes | In-place calls overwrite what the next block needs; data units whose tweaks are made several at a time | Output of the calls together is the standard's; decryption inverts encryption |
| Authenticated encryption (`lib/gcm.c`, `ccm.c`, `chacha20.c`, `poly1305.c`, `chacha20_poly1305.c`, `aes-default.c`) | MAC block and its count, key stream block, counter block, lengths | init, associated data, encrypt and decrypt parts, final; one-call functions | Any cut of the message; two implementations that alternate; a counter that carries into the nonce; output written before the tag is known | Output and tag are the standard's; refused data is wiped |
| Discrete logarithm groups and keys (`lib/dlgroup.c`, `dlkey.c`, `dsa.c`, `dh.c`) | P, Q, G, seed, FIPS standard; private and public key, private length | generate, import, export, verify; sign, verify, agree | Objects reused after other contents and after failures; key lengths set by the caller; keys modulo P or modulo Q | Halves belong together; what one party signs or agrees the other accepts |
| Elliptic curve points and keys (`lib/ecpoint.c`, `ec_*.c`, `eckey.c`, `recoding.c`) | points in three kinds of coordinates, precomputed tables; key pairs | add, double, multiply, validate; generate, import, export, ECDSA, ECDH | Formulas that fail for special points; recoded scalars; private keys in three formats relative to the cofactor | Coordinates always stand for the point of the group law; pairs belong together |
| SAE (`lib/IEEE802_11SaeCustom.c`) | password element, rand, mask | hunt or hash to the curve, create and process commits | Loops that must not show when they succeeded; commits lost, repeated, forged | Both stations find the same point and get the same secret, or an error |
| RSA (`lib/rsakey.c`, `crt.c`, `rsa_enc.c`, `rsa_padding.c`) | modulus, primes, remainders, exponents | generate, import, export, encrypt, decrypt, sign, verify; PKCS 1, OAEP, PSS | Imports nobody checks; remainders; paddings opened by masks | Decryption gives what was encrypted or fails; paddings accepted exactly when well formed |
| Big numbers (`lib/fdef_*.c`, `gen_int.c`, `modexp.c`, `primes.c`) | integers of digits, divisors, moduli, trial-division contexts | arithmetic, division, GCD, Montgomery reduction, inversion, powers, small divisors | carries, estimates one off, last subtractions kept or not | The integers' result |
| Key derivation (`lib/hkdf.c`, `pbkdf2.c`, `sp800_108.c`, `tlsprf.c`) | expanded key | expand, derive | block counters, partial last blocks, two chains that advance apart | The standard's bytes for every length |
| Constant-time helpers (`lib/scsTools.c`, `ScsTable.c`, `paddingPkcs7.c`, `tlsCbcVerify.c`) | tables | masked copies and rotations, table lookups, padding removal, record verification | bit tricks at the edges of their ranges | The result of plain code; records accepted exactly when well formed |
| Block ciphers, assembly, environments, CPU detection, RDRAND, curve parameters, RC4 and MD2, tests | | | | Not modelled: see [below](#what-is-not-modelled) |

How they interact: a session calls the one-call GCM functions with the nonce it
has formed; the module RNG calls the DRBG under its lock, and the library's users
of randomness call the module RNG; the DRBG runs on the counter mode routine of
`lib/blockciphermodes.c`, which GCM and CCM run on too; parallel hashing works on
the same states as the serial hash functions, HMAC on those of a hash, key
derivation on a MAC; keys and SAE stand on points and residues, those on numbers
of words; the module's constructor tests the rest and its flags gate the keys.

The models are composed the same way. SessionReceiver has the verdict and the
output of GcmDecrypt as one step, ModuleRng numbers the bytes of a DRBG whose
freshness is AesCtrDrbg's subject, AesCtrDrbg increments one counter because
DrbgBlocks shows the loop does that, ParallelHash, HashState, HmacState and TlsCbc
share HashBuffer, the cipher modes and all authenticated encryptions share
CipherBytes, EcKeys and Sae are built on EcPoints, RsaPadding and TlsCbc on
ConstantTime. DlKeys, EcKeys and RsaKeys compute with exact residues because
Numbers and Modular show that the word arithmetic gives those.

## Modules

Variables have the names of the fields and globals they stand for, with a prefix
where several modules are combined in a run; variables marked *history* in a module
are not in the code, record what has happened, and occur in no guard except to
bound the model. Each definition's source lines are in `PROJECT.json` under `map`.
Operators whose comment begins with *Mutant:* are faulty variants of the definition
behind them: with one put in its place, the property listed beside it in
`PROJECT.json` must fail.

### Sessions, random numbers, start

**SessionSender.** `SymCryptSessionGcmEncrypt` by several threads on one session.
The steps are the accesses to shared memory: `TakeNumber` is the atomic increment
with the comparison of its result, `UndoNumber` the atomic decrement of a call that
met the maximum, `EncryptWithNonce` the use of the nonce. `messageNumber` wraps modulo
`Modulus`. The caller's side of the contract (a sender id is used once per key; no
destroy while calls are in progress) is in the guards of `SenderInit` and `Destroy`.

**ReplayFilter** is the abstract specification of the receiving side: a window of
numbers and the set of those accepted, changed in one atomic step per accepted
message. **SessionReceiver** is the code: the two early checks on a lone load of
`messageNumber`, the decryption, and then, by `build`, the compare-and-swap loop
with its first read of two separate words (`ReadWord`, `Guess`, `CasSucceeds`,
`CasFails`), or the mutex with the structure stored word by word, on a 32-bit CPU
also half by half (`AcquireMutex`, `ComputeUnderMutex`, `StoreMask`, `StoreHalf`,
`StoreNumber`, `ReleaseMutex`). A thread in the middle of its stores makes the
replay state inconsistent, so the refinement mapping (`LogicalState`) is the state
that it is going to complete.

**DrbgBlocks** is the loop of `SymCryptRngAesGenerateBlocks` with V in two halves of
`HalfRange`, one step per chunk. **AesCtrDrbg** is the state object: instantiate,
reseed, uninstantiate, and generate with its split into small requests, the
update, the request counter, and the FIPS 140-2 comparison. A block of output is a
pair of key number and counter.

**ModuleRng** is `rng.c`: one action per stretch of code under `g_rngLock`, with
the sources of a seed (kernel, secure entropy, hash) as separate steps that may
fail. Bytes are numbered in the order the DRBG makes them.

**StartUp** is the constructor of the module, step by step, and after it threads
that import and generate keys. The look at the flag, the test and the atomic OR of
`SYMCRYPT_RUN_SELFTEST_ONCE` are a step each; any algorithm may be faulty, any
generated pair inconsistent, and a test that meets that is fatal.

### Messages

**HashBuffer** has the buffering, length counting and padding of MD4, MD5, SHA-1 and
SHA-2 as operators on a state; the compression function is taken to be injective,
so that the chaining state is the sequence of what was compressed. **HashState** has
objects with these states and every call on them; **HmacState** adds expanded keys
and states that begin inside a hash, copied and reused. **ParallelHash** is
`SymCryptParallelHashProcess`: linking the operations, the first scan that gives
every state its first work, the sort, and the main loop; each turn of a loop is a
step, and the cases of `SymCryptParallelHashSetNextWork` are an action each.

**CipherBytes** represents a byte by its XOR summands, a set of atoms (a byte of the
caller's data, of the key stream, of a length), so that XOR is symmetric
difference and two bytes are equal only if they are so for every key. It also has
what the modes share: counter mode over a message in parts (`CtrCrypt`) and the
buffering in front of a block MAC (`BlockAppend`). **CipherModes** has ECB, CBC, CFB
and XTS, in place and not, over a cipher that is any permutation. **MacState** has
CMAC and Marvin32. **Gcm**, **Ccm** and **ChaChaPoly** are the functions of their source
files as operators on the state. GHASH, CBC-MAC and Poly1305 are represented by the
bytes they have been given. Lengths are one position instead of eight bytes, except
in CCM's prefix of the associated data, whose sizes of 2, 6 and 10 bytes matter.
**AeadState** has the object and the caller: which call may follow which is what
`inc/symcrypt.h` says and the code asserts. The one-call functions have a state of
their own on the stack, and so are tried from a fresh object only.

### Keys

**ModArith** has residues and the sizes of numbers in bits, bytes and digits.
**DlGroup** has a group object through generation by FIPS 186-2 and 186-3 (each
attempt of the search, with its counter), import and its verification, and the named
safe-prime groups, recognised by name or by their prime. **DlKeys** has keys in a
group: generation, import under every combination of validation flags, the private
length, export, DSA and Diffie-Hellman. Failed calls leave the object as the code
leaves it, half changed. **EcPoints** has the projective formulas, the recodings and
the multiplication algorithms; beside the coordinates goes the point of the group
law that they should be. **EcKeys** has keys on its curves. **RsaKeys** has keys,
remainders and the raw operations; imports are arbitrary numbers, since nothing but
the check after a decryption tells whether they belong together. **Sae** has two
stations, what they compute from a password, and a network that loses, repeats,
delays, reflects and alters commits.

### Algorithms

**Numbers** (addition to division and GCD on words of a few bits, with the borrow and
carry flow of `fdef_int.c`), **Modular** (residues, plain and Montgomery, inversion
with blinding, three exponentiations), **TrialDivision**, **ConstantTime** (copy, rotation,
table, PKCS 7; not `SymCryptMapUint32`), **TlsCbc**, **KeyDerivation** and **RsaPadding** are the functions of their
source files as operators, with the reference next to them: the integers, or the
standard's definition read from the comments and tests.

The **MC...** modules put the components of a run side by side (a behaviour is one of
a single kind of object; the others stay in one initial state) and name the values
that a `.cfg` cannot write. The **...Proofs** modules hold the proofs:
**SessionSenderProofs** and **SessionReceiverProofs**, **DrbgProofs** for DrbgBlocks and
AesCtrDrbg, **ModuleProofs** for ModuleRng and StartUp, **HashProofs** for HashState and
HmacState, **MessageProofs** for MacState, **CipherProofs** for AeadState and CipherModes (the last
two also for the composition MCMessages) and **ParallelProofs** for ParallelHash.

## Runs

Twelve runs; six pass, six show that a sentence in the repository is not true of
the code. Fairness, where a run has a liveness property, is weak fairness of the
steps *inside* a call: a thread that has entered a function of the library keeps
executing. Nothing is assumed about callers making calls.

| Run | Instance | Shows |
|---|---|---|
| session_receiver | 2 threads, window 2, numbers to 5, halves of 4, each of the three builds | `NoDoubleAccept`, `MaskExact`, `NoUninitialisedStore`, `PlaintextOnlyOnSuccess`, `RefusedOnlyReplays`, `ImplementsFilter`, `CallsReturn`. Numbers go more than a window beyond the first, shifts reach and exceed the window, and number 4 crosses the halves |
| rng | session: 3 threads that encrypt, 2 sender ids, maximum 4, counter modulo 8; blocks: halves of 8, chunks of 4, up to 9 blocks, every start value; DRBG: 2-byte blocks, requests of 1 to 7 bytes over a limit of 4, 2 requests per seed, 4 keys, V rolls over after 6; module: 2 threads, 6 calls, cache of 16 aligned to 4, reseed after 2; start: 2 threads, curve and RSA keys, any set of faults | `NonceUnique`, `NumbersContiguous`, `StaysExhausted`, `MatchesOldCode`, `NoBlockTwice`, `ContinuousTestComplete`, `NoByteTwice`, `FreshAfterReseed`, `KeysAreTested`, `LockReleased`. The room above the session's maximum (4) exceeds the number of threads, as 2^32 does, and all three may overshoot together. A request is longer than the range of a half; sizes 6 and 12 leave every remainder of the alignment, 17 is beyond the cache |
| parallel_hash | all lists of up to 4 operations on 4 states, 2 lanes, appends of 3 and 9 bytes to blocks of 4 | `SameAsSerial`, `Returns`. More states than lanes, so lanes are replaced, and lists that leave a lane empty |
| messages | hashes: 2 objects (symmetric), blocks of 4, a length whose low word rolls over at 8; HMAC keys of 0, 4 and 9 bytes; CMAC blocks of 3; modes with blocks of 2, XTS units of 2 blocks, tweaks that wrap at 5; GCM blocks of 4, 32-bit counter as 5 values, messages up to the largest; CCM prefixes of all three kinds; ChaCha20 blocks of 8 over Poly1305 blocks of 2 | `ResultIsReference`, `BlobHoldsOnlyMessage`, `MacsAreReference`, `ModesAreReference`, `AeadIsReference` |
| keys | groups modulo 11 to 67; curves over fields of 13 to 37 elements of all three types, cofactors 1, 4 and 8; RSA moduli of 13 and 14 bits; bytes of 2 bits and digits of 4; SAE by hunting on the curve of order 17, by hashing on that and one of order 19, one session for each station, passwords found in the first try, a later one or never, MACs that make the scalar 15, the boundary value 0 and 10 | `DlPairIsSound`, `DlPairsWorkTogether`, `DgGroupIsSound`, `EcPointIsReference`, `EkPairIsSound`, `RsaIsExact`, `SaeHuntedPoint`, `SaeHashedPoint`, `SaeAgreement` |
| algorithms | words of 3 bits, numbers of up to 3 words; 12-bit words for trial division; buffers of 4 and 32 words; records over blocks of 16 with MACs of 5 and 8 bytes, eleven kinds of flaws; derivation with MACs of different sizes; RSA blocks of 4-bit bytes, opened with no buffer, a short one and a large one, OID lists that are missing, empty, or of one or two OIDs, a byte changed at either end of the block or around the zero before the message | `IntIsExact`, `ModElementIsReference`, `SmallDivisorIsRight`, `ConstantTimeIsReference`, `TlsRecordIsReference`, `KdfIsReference`, `RsaPaddingIsExact` |
| session_receiver_torn, drbg_blocks_assert, module_rng_seed, dl_key_length, dl_group_import, rsa_empty_oids | as above | [findings 1 to 6](#where-the-code-and-its-words-differ) |

Each property's comment in its module states it in words and names what it is about;
`PROJECT.json` relates them to the hazards of the code.

Why the bounds are enough. Every run lets each counter reach its limit and each
buffer be empty, partly filled, exactly full and overrun, and has more concurrent
calls than are needed for two of them to interfere with a third step. Words and
bytes are narrowed rather than numbers cut off: three-bit words carry, borrow and
mis-estimate quotients as thirty-two-bit words do, only more often, and a two-bit
byte makes the sizes of small numbers differ. Field and group sizes are the
smallest where the special cases (equal and opposite points, cofactors, keys
shorter than the group) all occur and the
formulas' preconditions hold; the window multiplication needs an order of at least
11, since with fewer points intermediate sums meet by chance, as they do not in the
curves of the library. The components whose sizes really matter (2^64 messages, any
number of threads, 128-bit counters) are also proved.

`CHECK_DEADLOCK FALSE` is used where the model stops by right: after the last sender
id, key or call or a fatal error (rng, module_rng_seed),
after the one session of each station (keys), after a function has returned its
result (algorithms).

The mutants: every property of a passing run has one, a plausible slip in the code
it is about (an undo forgotten, a window one number too long, a carry
forgotten, a buffer not invalidated, a sign ignored, a flag set before its test),
under which TLC finds the property violated.

## Proofs

All by TLAPS with the constants left open. An invariant that a run checks is seldom
inductive by itself; each module below has the strengthening that is, as a conjunction
of named parts next to the property it is for, and the proof modules show that `Init`
establishes it, that every action keeps it, and what follows from it.

**SessionSenderProofs.** Inductive invariant `SenderInv`: types, and `Issued`, the
counter less the increments about to be undone, is the number of numbers really
handed out; a number held by a thread is at most `Issued` and held by no other
and unused; no used number is above `Issued`. Uniqueness alone is not inductive:
after an overshoot the counter goes down again, and only the accounting of the
overshot threads shows that it does not go below a number in use. From it:
`SenderNonceUnique`, `SenderNumbersContiguous` and, as an action property,
`SenderStaysExhausted`. Assumption: fewer threads than `Slack` = 2^64 minus the
maximum, 2^32 in the code. With 2^32 threads in the error path at once the counter
would reach 2^64 and start again at 0.

**SessionReceiverProofs.** Inductive invariant `ReceiverInv`: types; `CallLaw`
(where a thread can be, and with what, in each build), `StoreLaw` (who holds the
mutex, and what a storing thread is about to complete), `CasLaw` (a thread whose
exchange can succeed holds the successor of the state it expects) and `MaskLaw`:
a bit is set exactly if its number was accepted, nothing above the window's end
was, and no number was accepted twice. Each action is shown to be one of four
kinds with regard to `LogicalState` (`StepKind`: nothing, an accept, an opening, a
closing); the mask is then argued once for all of them. From it:
`ReceiverNoDoubleAccept`, `ReceiverMaskExact`, `ReceiverNoUninitialisedStore`,
`ReceiverWindowMonotone`, the refinement `ReceiverImplementsFilter` and, for the
builds whose numbers are not stored in halves, `ReceiverRefusesOnlyReplays`. On top of
it `BufferLaw` follows the destination buffer: from the verified tag on it holds
plaintext, and the path with the mutex has decided on its result before it
lets the mutex go. From that: `ReceiverPlaintextOnlyOnSuccess`. Assumptions: the
window is at least 1 and at most the maximum, the maximum is below the modulus.

**DrbgProofs, the blocks.** Inductive invariant `BlocksInv`: the output is the increments
of the start value so far, V is the last of them. The one arithmetical fact is
that a chunk never crosses the roll-over of the low half except at its start
(`ChunkFits`), from the assumption that the chunk size divides the half's range.
From it: `BlocksMatchOldCode`.

**DrbgProofs, the generator.** Inductive invariant `DrbgInv`: types; `KeyLaw` (the generator's
key is the latest, a request in progress has something left to produce, and every
block made so far is of an older key) and `PreviousLaw`. That no block was made
twice (`DrbgNoBlockTwice`) needs two arguments. Across requests, each ends with an
update, so that the next is under a key that has no blocks. Within one, the blocks
of the request and of its update are a stretch of V shorter than V's range, on
which the values differ (lemmas about the ring of V); the assumption is that the
range exceeds the blocks of the largest request and a seed. `PreviousLaw`
strengthens `ContinuousTestComplete` to hold inside a request too, which it must, since a
request longer than the limit is done in several small ones.

**ModuleProofs, the random numbers.** Inductive invariant `RngInv`: types and who holds the lock;
`CacheLaw` (every byte in the cache was generated, is in one place, was not given
out, and below the count none is wiped and all are of the current seed),
`RequestLaw` and `ServedLaw`. `NoByteTwice` alone is not inductive: a
call takes its bytes from the cache and from the generator in different steps, and
bytes that alignment drops stay in memory above the count. The lemmas on the way:
`LeastNatural` (a set of naturals has a least element; the library's well-founded order
on the naturals gives it without an operator as a parameter) and from it that the
alignment, a greatest common divisor, exists (`AlignmentType`). From it:
`RngNoByteTwice` and `RngFreshAfterReseed`. Nothing is assumed of the number of threads.

**ModuleProofs, the start.** Inductive invariant `StInv`: while the process lives, no flag is in
the word for a faulty algorithm, and whatever a call was asked to test and has behind
it is not faulty (`TestedLaw`), be it that the call ran the test or that it saw the flag
another thread had set. From it: `StKeysAreTested`, for any number of threads and any
set of faults.

**HashProofs.** The law `Holds(st, message)`: the chaining state and the used part of
the buffer, one behind the other, are the message, the chain is whole blocks, and
the two length words are its length. `ObjectInv` says it of every object, and of
the blob (`BlobLaw`, with zeroes behind its message). The core is one lemma on
`HashAppend`: whatever the split into bytes that complete the buffer, whole blocks and
a rest, the new state holds the longer message, carry of the length included; and
one on the padding (`DigestIsPadded`): one block more or two, the result is the
standard's. From it: `ObjectResultIsReference` and `ObjectBlobHoldsOnlyMessage`. HMAC
stands on the same lemmas: `HmacInv` is that the inner hash of a state with a key holds
the key block under the inner pad followed by the message; a start in the middle of a
hash holds it because the expanded key is a state that has taken exactly one block.
From it: `HmacResultIsReference`. Assumptions: a single append is shorter than a length
word's range, as a `SIZE_T` the code adds to a 64-bit word is; the block size and 8
divide that range; the length field fits in a block; for HMAC the result is shorter
than a block. The message may be of any length: the words wrap, and so does the
reference, which has as many bits as the code.

**MessageProofs.** For CMAC `CmacHolds`, for Marvin32 `MarvinHolds`: the chain is the
message up to the end of a block and the buffer the rest. They differ in what the code
keeps back. CMAC's buffer may be a full block and is empty only before the first
byte, or the last block would be masked with the wrong subkey. Marvin32 keeps less
than a word and derives the count from `dataLength`, so that the range of
`dataLength` must be a multiple of the word (an assumption, 2^32 and 4); and the second half
of its buffer must be zero, which Init establishes, Append leaves alone, and Result, which
writes a word of zeroes across the middle, restores. From it: `MacInvariance` and,
with HashProofs and for the composition of all objects that take messages in parts,
`MessagesMacsAreReference`; for Marvin32 this is that the function for one call, which is code
of its own, agrees with Init, Append and Result.

**CipherProofs**, authenticated encryption. Inductive invariant `AeadInv`, with a law for each kind of object: a GCM
state (of the implementation in one pass and of the one in two), GMAC, CCM, ChaCha20
by itself and with Poly1305. It has two parts that all of them share. `CtrLaw`: the
counter, the bytes used of its block and the block kept of the key stream are those of
the place reached in the message, and the output so far is the data under the key
stream. `MacLaw`: the MAC has taken the whole blocks of its text, and the buffer in
front of it holds the rest. Neither follows from the result being right, which is why
`AeadIsReference` is not inductive: the key stream kept from one call is used by
the next. Two lemmas carry the weight, one on `CtrCrypt` (whatever part of a kept block
is used up first, whole blocks and a rest after it, the output is the key stream
at that place) and one on `BlockAppend`; with them the two passes of GCM, which keep the
count of the key stream and that of the MAC apart, are seen to agree. From it:
`AeadInvariance`, `AeadReference` and, for the composition, `MessagesAeadIsReference`.
Assumptions: the counters have at least three values, ChaCha20's two (CCM's has at
least 2^16, the others 2^32), from which the largest messages are computed as in the code,
and ChaCha20's block is larger than the Poly1305 key.

**CipherProofs**, cipher modes. The inductive invariant `ModesInv` adds to
`ModesAreReference` what the calls hand on to one another: the chaining value of each
direction is the block before the place it has reached in the IV followed by the
ciphertext (`ChainAt`), for XTS it counts data units modulo 2^64; what was encrypted and
decrypted is whole granules; and no byte of the ciphertext comes from the inverse of the
cipher (`NoInverse`). The last is needed because the cipher is a free permutation:
decrypting a block gives back what went in only if that was not itself something
decrypted. The reference is stated as equations (`IsCiphertext`), so that nothing is
recursive but the loop of a call. That loop exists and follows its definition by the
least number of steps for which it does not (`LoopExists`); after each step of an
encryption the text so far and what is written are a ciphertext of the standard and
the chaining value is at its end (`EncAt`), after each of a decryption what is written
is plaintext (`DecAt`), and in place the source behind the current offset is still as it
was (`Frame`): where CBC would read its block back after writing, `DecAt` fails. For XTS the
tweak that a block takes from its batch is the one counted from the first data unit of
the message (`XtsTweakRight`), whatever the size of a batch and also when the tweak wraps
around. From it: `ModesInvariance`, `ModesReference` and, for the composition,
`MessagesModesAreReference`. Assumptions: a block has at least two bytes, as that of
every cipher has; first tweaks are within the tweak's range.

**ParallelProofs.** Inductive invariant `ParallelInv`, about every list of operations,
any number of states and lanes and blocks of any size. It relates the work in progress
to the serial code: each state is where the serial functions have it before the first
operation of its queue, or as far into that operation as its state machine says, and
its queue is the operations still behind; each state with work is in a lane or in
`pWork` exactly once; every result written is the serial one. `SameAsSerial`
speaks only of the end of the call and says nothing of a state that is half way
through a padding, in a lane whose neighbours finish before it. The serial code is a
recursive function over the list (`SerialStates`); what it has done before
the next operation of a state is argued by the least position where the claim
fails, from `LeastNatural`, since an induction theorem cannot be instantiated. The
sizes of `pWork` are counted (no state is listed twice, so the list is never longer than
the number of states). From it: `ParallelInvariance`, `ParallelSameAsSerial` and
`ParallelTypeCorrect`. Assumption: a single append is shorter than a length word's range,
as for the hashes.

Only model-checked, and why:

* all liveness properties (`CallsReturn`, `LockReleased`, `Returns`): liveness under
  fairness is out of this prover's reach;
* Numbers, Modular, TrialDivision, EcPoints, EcKeys, DlKeys, RsaKeys, Sae, ConstantTime and
  TlsCbc: recursive arithmetic on words, residues and points, whose results are
  facts by induction over data, and the prover cannot use a RECURSIVE operator at all;
  DlGroup, KeyDerivation and RsaPadding and those that extend them also
  use the bitwise operators, which a proof cannot reach.

## Where the code and its words differ

Each of these is a run in which TLC finds what a line of the repository says to be
violated; `PROJECT.json` has the quotations.

1. `session_receiver_torn`: on 32-bit CPUs the replay state is stored by a plain
   structure assignment (`lib/session.c:275`) while early checks load the number
   without the mutex. Between the two stores of a number that crosses a multiple
   of 2^32 a check sees one far too high and refuses a new message, for neither of
   the two reasons `inc/symcrypt.h` gives. Nothing is accepted wrongly.
2. `drbg_blocks_assert`: the assertion `v != 0` at `lib/aesCtrDrbg.c:251` fails in a
   checked build if one block is asked for just behind a roll-over of the low half
   of V. The values are right, as rng and the proofs show.
3. `module_rng_seed`: a quarter of the seed buffer in
   `modules_linux/common/rng.c` is never written and goes into the reseed as the
   stack left it.
4. `dl_key_length`: a private key length set outside the named safe-prime groups is
   not ignored; Diffie-Hellman drops the bits above it.
5. `dl_group_import`: a named safe prime imported with a FIPS standard is accepted
   without the verification asked for, because the check reads the standard of the
   object's earlier contents.
6. `rsa_empty_oids`: `SymCryptRsaPkcs1Verify` with an array of OIDs that is not NULL and a
   count of 0 compares nothing and returns `SYMCRYPT_NO_ERROR` for any signature and any
   hash (`lib/rsa_padding.c:789-811`): the status starts as a success and no OID replaces
   it. `RsaPaddingIsExact` states it as an exception of the code and shows that it is the
   only one of the verification.

Noted while translating. The models do what the code does, or their inputs stay
clear of the case where it says so:

* Random numbers: the module RNG serves one request more between reseeds than its
  constant says, since the request that resets the counter is not counted; the
  DRBG serves 2^48 requests per seed and stops at the next.
* Start: `SymCryptInit` looks at its flag and then stores the detected CPU features
  in several assignments. Two first calls at the same time make features appear and
  disappear for a caller that has already returned from its own; `inc/symcrypt.h`
  says only that it may be called several times. In the module it runs in the
  constructor, which is what StartUp has. The pairwise test of a Diffie-Hellman key
  sets the flag of the known-answer test, as a comment says it may, though a
  consistent error would pass the one and not the other.
* DL: DSA truncates a hash by the size of its value (`dsa.c:37`), ECDSA by that of its
  buffer. The public key range "[2, p-2]" is checked after a reduction modulo P. A
  group reused after a safe prime has no seed pointer. `SymCryptDlgroupCopy` copies
  the pointer to Q, `SymCryptDlkeyCopy` to a fresh key reads a null pointer (neither
  copy is modelled). A failed import or generation leaves DL, EC and RSA keys part
  old, part new; so do the models.
* EC: a public key with x = 0 on a Montgomery curve passes order validation
  (`inc/symcrypt.h:5190`). Importing only a public key keeps `hasPrivateKey` of the
  earlier one (`inc/symcrypt.h:5894` says there will be none), as RSA's does.
* RSA: `SymCryptCrtGenerateInverses` drops an error; generation does not exclude two
  equal primes; a prime found in the last try of `SymCryptIntGenerateRandomPrime` is
  reported as a failure. OAEP accepts a block without the 0x01, of the label's hash and
  zeroes, as the empty message, though the comment at `lib/rsa_padding.c:307` and the
  standard have the 0x01 in every block: `RsaPaddingIsExact` names it (`OaepHasNoOne`) as
  the one exception of decryption, and `RsaRawEncrypt` makes such blocks. A signature
  made without OID and with flags 0 is not one that verification without OIDs accepts.
  `SymCryptRsaPkcs1Decrypt` leaves `*pcbDst` unwritten for a key without private part.
* Numbers: the inverse that `ExtendedGcd` returns is not reduced, or undefined, when
  one operand divides the other. `inc/symcrypt_low_level.h:1800` says only the low
  `nBitsExp` bits of an exponent are used, but the short exponentiation reads the
  whole low word and the multi-exponentiation's test for zero the whole number (the
  exponents of the model fit). Trial division returns 17 before 7 if both divide.
* TLS: `SymCryptTlsCbcHmacVerify` ignores the error of its core for a buffer that is
  too small. PBKDF2's 32-bit block counter is not checked against the length.
* SAE: "val modulo (q - 1) + 1" in a comment of InitH2E is an addition modulo q - 1 in
  the code, so the one value for which the rule gives q - 1 gives the scalar 0 and a
  commit that cannot be created. `SaeHashedPoint` compares with the rule and names
  that value as its exception; the run has it and two others. CreatePT ignores the error of its first map and asserts that the sum of
  two mapped points is not zero. Given values of rand and mask are reduced, where
  the header says "without further validation"; rand + mask of 0 or 1 is not
  excluded, and the peer refuses such a commit.

## What is not modelled

* Block ciphers, compression functions, GHASH and Poly1305 arithmetic, and all
  assembly and vector code: fixed functions without state, on full-width data, which
  the known-answer tests of the repository cover. The models treat them as injective
  or uninterpreted. RC4 and MD2 likewise.
* The environments (`env_*.c`), CPU detection, RDRAND/RDSEED and the parsing of the
  module's ELF file for the integrity check: straight-line adapters to the platform.
* Curve parameters (`ecurve.c`, `ec_internal_curves.c`, `dl_internal_groups.c`): data.
  Short Weierstrass curves have cofactor 1 in the models, as the built-in ones do.
* In modelled components: key expansion of ciphers and copies of keys and of the
  states of GCM; the magic fields; what self-tests compute; failing allocations
  and random callbacks, which return before any output; the least-significant-first
  number format, which several functions refuse only after the work is done;
  reductions specialised to one modulus size; blinding by a random factor other than
  as an arbitrary one. Timing is not a property of the models.
* Tests, generators and build scripts. They and the public headers, tables and
  assembly are the larger part of the repository's lines, which is why the map covers
  a sixth of them: of the portable C code of the library most of what has control flow
  of its own is mapped.

## Plan

Done: the modules above, and the proofs of the sessions, the random numbers, the start,
the hashes, serial and parallel, the MACs, the cipher modes and authenticated
encryption. Left are proofs:

1. ConstantTime and TlsCbc, whose loops are bounded by the sizes of their buffers, after
   their recursion is rewritten as functions.
2. Carry and borrow in Numbers, as lemmas on one word, and on top of them the digits.
