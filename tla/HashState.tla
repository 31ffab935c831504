------------------------------- MODULE HashState -------------------------------
(***************************************************************************)
(* Objects of one hash algorithm: SymCryptXxxInit, Append, Result,         *)
(* StateCopy, StateExport and StateImport in any order.                    *)
(***************************************************************************)
EXTENDS HashBuffer

CONSTANTS
  Objects,     \* the hash states of the caller
  Sizes,       \* sizes of the appends
  Tags,        \* multiples of 1000: tell apart the data of different messages
  MaxLength    \* bound on the length of a message

(* cbData is a SIZE_T: it fits in a word.                                  *)
ASSUME ObjectAssumption ==
  Sizes \subseteq 0 .. WordRange - 1 /\ MaxLength \in Nat /\ Tags \subseteq Nat

VARIABLES
  state,      \* the hash states
  message,    \* history: what was appended to each since it was initialised
  blob        \* the exported state, and the message it stands for

objectVars == <<state, message, blob>>

NoBlob == [exported |-> FALSE]

ObjectInit ==
  /\ state = [o \in Objects |-> WipedState]
  /\ message = [o \in Objects |-> <<>>]
  /\ blob = NoBlob

XxxInit(o) ==
  /\ state' = [state EXCEPT ![o] = HashInit(@)]
  /\ message' = [message EXCEPT ![o] = <<>>]
  /\ UNCHANGED blob

XxxAppend(o, cb, tag) ==
  LET data == [i \in 1 .. cb |-> tag + Len(message[o]) + i]
  IN /\ Len(message[o]) + cb <= MaxLength
     /\ Len(message[o]) > 0 => tag = message[o][1] - (message[o][1] % 1000)
     /\ state' = [state EXCEPT ![o] = HashAppend(@, data)]
     /\ message' = [message EXCEPT ![o] = @ \o data]
     /\ UNCHANGED blob

(* The digest is HashDigest(state[o]); the state is wiped and initialised. *)
XxxResult(o) ==
  /\ state' = [state EXCEPT ![o] = HashResult(@)]
  /\ message' = [message EXCEPT ![o] = <<>>]
  /\ UNCHANGED blob

XxxStateCopy(o, p) ==
  /\ state' = [state EXCEPT ![p] = state[o]]
  /\ message' = [message EXCEPT ![p] = message[o]]
  /\ UNCHANGED blob

(* Mutant: the whole buffer is copied into the blob.                       *)
BlobBufferWhole(st) == st.buffer

(* The bytes of the buffer that are in use; the rest of the blob is zero.  *)
BlobBuffer(st) ==
  [i \in 1 .. InputBlockSize |-> IF i <= st.dataLengthL % InputBlockSize THEN st.buffer[i] ELSE Zero]

XxxStateExport(o) ==
  /\ blob' = [exported |-> TRUE, chain |-> state[o].chain, buffer |-> BlobBuffer(state[o]),
              dataLengthL |-> state[o].dataLengthL, dataLengthH |-> state[o].dataLengthH,
              message |-> message[o]]
  /\ UNCHANGED <<state, message>>

(* The blob of an export.  Any other is refused and changes nothing: a     *)
(* checksum guards it.                                                     *)
XxxStateImport(o) ==
  /\ blob.exported
  /\ LET bytes == blob.dataLengthL % InputBlockSize
     IN state' = [state EXCEPT ![o] =
          [chain |-> blob.chain, buffer |-> Overwrite(@.buffer, 0, SubSeq(blob.buffer, 1, bytes)),
           bytesInBuffer |-> bytes,
           dataLengthL |-> blob.dataLengthL, dataLengthH |-> blob.dataLengthH]]
  /\ message' = [message EXCEPT ![o] = blob.message]
  /\ UNCHANGED blob

ObjectNext ==
  \E o \in Objects :
    \/ XxxInit(o)
    \/ \E cb \in Sizes, tag \in Tags : XxxAppend(o, cb, tag)
    \/ XxxResult(o)
    \/ \E p \in Objects \ {o} : XxxStateCopy(o, p)
    \/ XxxStateExport(o)
    \/ XxxStateImport(o)

ObjectSpec == ObjectInit /\ [][ObjectNext]_objectVars
-----------------------------------------------------------------------------
ObjectTypeOK ==
  /\ state \in [Objects -> HashStates]
  /\ message \in [Objects -> Seq(Int)]

(* Every object holds its message, however it was appended, copied or      *)
(* exported.                                                               *)
BufferHoldsTail == \A o \in Objects : Holds(state[o], message[o])

(* The state that an import would make of the blob, in a wiped object.     *)
BlobState ==
  [chain |-> blob.chain, buffer |-> blob.buffer, bytesInBuffer |-> blob.dataLengthL % InputBlockSize,
   dataLengthL |-> blob.dataLengthL, dataLengthH |-> blob.dataLengthH]

(* So does a blob, and behind the bytes in use its buffer is zero.         *)
BlobLaw ==
  \/ blob = NoBlob
  \/ /\ blob.exported
     /\ Holds(BlobState, blob.message)
     /\ \A i \in 1 .. InputBlockSize : i > blob.dataLengthL % InputBlockSize => blob.buffer[i] = Zero

ObjectInv == ObjectTypeOK /\ BufferHoldsTail /\ BlobLaw

(* At any time the result of an object would be the hash of the padded     *)
(* message of the standard, also when the message's length in bits takes   *)
(* more than one word.                                                     *)
ResultIsReference == \A o \in Objects : HashDigest(state[o]) = PaddedMessage(message[o])

(* An exported blob holds bytes of the message that is being hashed and no *)
(* others that happen to be in the buffer: "wipe to avoid any data         *)
(* leakage".                                                               *)
BlobHoldsOnlyMessage ==
  blob.exported =>
    \A i \in 1 .. InputBlockSize : blob.buffer[i] # Zero => \E j \in 1 .. Len(blob.message) : blob.message[j] = blob.buffer[i]
=============================================================================
