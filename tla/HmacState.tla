------------------------------ MODULE HmacState ------------------------------
(***************************************************************************)
(* HMAC (lib/hmac_pattern.c, one copy of it per hash): expanded keys that  *)
(* hold two chaining states, and states that start in the middle of a hash *)
(* by setting its fields directly.  A digest of the hash HashDigest(h) has *)
(* ResultSize bytes; where such bytes are hashed again they are            *)
(* DigestByte(j), and the digest they are of is kept beside.               *)
(***************************************************************************)
EXTENDS HashState

CONSTANTS
  HmacKeySizes,   \* cbKey of the keys
  HmacObjects,    \* the HMAC states of the caller
  HmacSizes,      \* sizes of the appends
  HmacMaxLength,  \* bound on the length of a message
  ResultSize      \* SYMCRYPT_XXX_RESULT_SIZE

ASSUME HmacAssumption ==
  /\ HmacKeySizes \cup HmacSizes \subseteq 0 .. WordRange - 1
  /\ ResultSize \in 1 .. InputBlockSize - 1
  /\ InputBlockSize + ResultSize < WordRange

VARIABLES
  hmac,          \* the states: the hash inside, and the key or NoKey (NULL)
  hmacMessage    \* history: the number of bytes appended since Init

hmacVars == <<hmac, hmacMessage>>

NoKey == -1

(* Key byte i, plain and under the two pads; byte j of a digest that is    *)
(* hashed; and a digest used as a key.                                     *)
KeyByteOf(i) == 10000 + i
Ipad(b) == 20000 + b
Opad(b) == 50000 + b
DigestByte(j) == 5000 + j

HmacBytes(from, to) == [i \in 1 .. to - from |-> from + i]

(* iblock: the key, or its digest if it is longer than a block, and zeroes. *)
HmacKeyBlock(cbKey) ==
  [i \in 1 .. InputBlockSize |->
     IF cbKey <= InputBlockSize
     THEN IF i <= cbKey THEN KeyByteOf(i) ELSE Zero
     ELSE IF i <= ResultSize THEN DigestByte(i) ELSE Zero]

(* SymCryptHmacXxxExpandKey: both chaining states have taken one block.    *)
(* hashed is what a long key was hashed as.                                *)
HmacExpandKey(cbKey) ==
  LET iblock == HmacKeyBlock(cbKey)
  IN [innerState |-> [i \in 1 .. InputBlockSize |-> Ipad(iblock[i])],
      outerState |-> [i \in 1 .. InputBlockSize |-> Opad(iblock[i])],
      hashed     |-> IF cbKey <= InputBlockSize THEN <<>>
                     ELSE HashDigest(HashAppend(HashInit(WipedState),
                                                [i \in 1 .. cbKey |-> KeyByteOf(i)]))]

(* Mutant: the length does not count the key block.                        *)
HmacStartUncounted(hash, chain) ==
  [hash EXCEPT !.chain = chain, !.bytesInBuffer = 0, !.dataLengthL = 0, !.dataLengthH = 0]

(* SymCryptHmacXxxInit sets the fields of the hash, not its buffer.        *)
HmacStart(hash, chain) ==
  [chain |-> chain, buffer |-> hash.buffer, bytesInBuffer |-> 0,
   dataLengthL |-> InputBlockSize, dataLengthH |-> 0]

(* The state of the outer hash: the inner digest goes straight into the    *)
(* buffer that the inner result has wiped.                                 *)
HmacOuter(hash, chain) ==
  [chain |-> chain, bytesInBuffer |-> ResultSize,
   buffer |-> Overwrite(HashResult(hash).buffer, 0, [j \in 1 .. ResultSize |-> DigestByte(j)]),
   dataLengthL |-> InputBlockSize + ResultSize, dataLengthH |-> 0]

(* SymCryptHmacXxxResult: what it returns.                                 *)
HmacTag(hash, cbKey) ==
  [outer |-> HashDigest(HmacOuter(hash, HmacExpandKey(cbKey).outerState)),
   inner |-> HashDigest(hash), key |-> HmacExpandKey(cbKey).hashed]

HmacInit ==
  /\ hmac = [o \in HmacObjects |-> [hash |-> WipedState, key |-> NoKey]]
  /\ hmacMessage = [o \in HmacObjects |-> 0]

HmacXxxInit(o, cbKey) ==
  /\ hmac' = [hmac EXCEPT ![o] = [hash |-> HmacStart(@.hash, HmacExpandKey(cbKey).innerState),
                                  key |-> cbKey]]
  /\ hmacMessage' = [hmacMessage EXCEPT ![o] = 0]

HmacXxxAppend(o, cb) ==
  /\ hmac[o].key # NoKey
  /\ hmacMessage[o] + cb <= HmacMaxLength
  /\ hmac' = [hmac EXCEPT ![o].hash = HashAppend(@, HmacBytes(hmacMessage[o], hmacMessage[o] + cb))]
  /\ hmacMessage' = [hmacMessage EXCEPT ![o] = @ + cb]

(* The key pointer becomes NULL: Init has to come before the next append.  *)
HmacXxxResult(o) ==
  /\ hmac[o].key # NoKey
  /\ hmac' = [hmac EXCEPT ![o] = [hash |-> HashResult(@.hash), key |-> NoKey]]
  /\ hmacMessage' = [hmacMessage EXCEPT ![o] = 0]

(* With the key of the source, or a copy of it.                            *)
HmacXxxStateCopy(o, p) ==
  /\ hmac[o].key # NoKey
  /\ hmac' = [hmac EXCEPT ![p] = hmac[o]]
  /\ hmacMessage' = [hmacMessage EXCEPT ![p] = hmacMessage[o]]

HmacNext ==
  \E o \in HmacObjects :
    \/ \E cbKey \in HmacKeySizes : HmacXxxInit(o, cbKey)
    \/ \E cb \in HmacSizes : HmacXxxAppend(o, cb)
    \/ HmacXxxResult(o)
    \/ \E p \in HmacObjects \ {o} : HmacXxxStateCopy(o, p)

HmacSpec == HmacInit /\ [][HmacNext]_hmacVars
-----------------------------------------------------------------------------
(* FIPS 198-1: H((K ^ opad) || H((K ^ ipad) || text)), K zero-padded or    *)
(* hashed first.                                                           *)
HmacReference(cbKey, n) ==
  LET key == HmacKeyBlock(cbKey)
  IN [outer |-> PaddedMessage([i \in 1 .. InputBlockSize |-> Opad(key[i])]
                                \o [j \in 1 .. ResultSize |-> DigestByte(j)]),
      inner |-> PaddedMessage([i \in 1 .. InputBlockSize |-> Ipad(key[i])] \o HmacBytes(0, n)),
      key   |-> IF cbKey <= InputBlockSize THEN <<>>
                ELSE PaddedMessage([i \in 1 .. cbKey |-> KeyByteOf(i)])]

(* At any time the result of a state is the standard's HMAC of what was    *)
(* appended since its last Init under that Init's key, whatever the state  *)
(* was used for before.                                                    *)
HmacIsReference ==
  \A o \in HmacObjects :
    hmac[o].key # NoKey =>
      HmacTag(hmac[o].hash, hmac[o].key) = HmacReference(hmac[o].key, hmacMessage[o])

(* What the hash inside has taken: the key block under the inner pad and   *)
(* the message.                                                            *)
InnerMessage(cbKey, n) == HmacExpandKey(cbKey).innerState \o HmacBytes(0, n)

HmacInv ==
  /\ hmac \in [HmacObjects -> [hash : HashStates, key : HmacKeySizes \cup {NoKey}]]
  /\ hmacMessage \in [HmacObjects -> Nat]
  /\ \A o \in HmacObjects :
       hmac[o].key # NoKey => Holds(hmac[o].hash, InnerMessage(hmac[o].key, hmacMessage[o]))
=============================================================================
