------------------------------ MODULE MacState -------------------------------
(***************************************************************************)
(* AES-CMAC (lib/aescmac.c) and the checksum Marvin32 (lib/marvin32.c)     *)
(* with messages appended in parts.  A chaining state is the sequence of   *)
(* the bytes it has taken.                                                 *)
(***************************************************************************)
EXTENDS CipherBytes

CONSTANTS
  CmacBlock,     \* SYMCRYPT_AES_BLOCK_SIZE: 16
  MarvinWord,    \* 4: SYMCRYPT_MARVIN32_INPUT_BLOCK_SIZE
  MarvinRange,   \* 2^32: the values of dataLength
  MacObjects,    \* the states of the caller
  MacSizes,      \* sizes of the appends
  MacMaxLength   \* bound on the length of a message

ASSUME MacAssumption ==
  /\ CmacBlock \in Nat \ {0, 1} /\ MarvinWord \in Nat \ {0, 1}
  /\ MarvinRange \in Nat \ {0} /\ MarvinRange % MarvinWord = 0 /\ MacSizes \subseteq Nat

VARIABLES
  macAlg,       \* "cmac" or "marvin32"
  macState,     \* the states
  macLength     \* history: bytes appended since Init, -1: no Init yet

macVars == <<macAlg, macState, macLength>>

Mac80 == Atom("80", 0, 0)
MacBytes(from, to) == [i \in 1 .. to - from |-> Atom("data", from + i, 0)]
StaleBytes(n) == [i \in 1 .. n |-> Atom("stale", 0, i)]

(* The subkeys of SymCryptAesCmacExpandKey: E(0) doubled once and twice.   *)
Subkey(k) == [j \in 1 .. CmacBlock |-> Atom("subkey", k, j)]

CmacFresh == [chain |-> <<>>, buf |-> StaleBytes(CmacBlock), bytesInBuf |-> 0]
CmacInitState(s) == [s EXCEPT !.bytesInBuf = 0, !.chain = <<>>]

(* More data than fits: the block in the buffer is not the last one.       *)
CmacOverflows(s, cb) == s.bytesInBuf # 0 /\ cb > CmacBlock - s.bytesInBuf

(* SymCryptAesCmacAppend keeps the last block, full or not, in buf.        *)
CmacAppendState(s, data) ==
  LET over  == CmacOverflows(s, Len(data))
      taken == IF over THEN CmacBlock - s.bytesInBuf ELSE 0
      rest  == Len(data) - taken
      bulk  == IF rest > CmacBlock THEN RoundDown(rest - 1, CmacBlock) ELSE 0
      full  == CopyTo(s.buf, s.bytesInBuf, Slice(data, 0, taken))
      from  == IF over THEN 0 ELSE s.bytesInBuf
      tail  == Slice(data, taken + bulk, rest - bulk)
  IN [chain      |-> s.chain \o (IF over THEN full ELSE <<>>) \o Slice(data, taken, bulk),
      buf        |-> CopyTo(full, from, tail),
      bytesInBuf |-> from + Len(tail)]

(* SymCryptAesCmacResult: 0x80, zeroes and K2, or K1 on a full block.      *)
CmacTag(s) ==
  LET n == s.bytesInBuf
      last == IF n < CmacBlock
              THEN XorBytes(Slice(s.buf, 0, n) \o <<Mac80>> \o Zeroes(CmacBlock - n - 1), Subkey(2))
              ELSE XorBytes(s.buf, Subkey(1))
  IN s.chain \o last

CmacResultState(s) == [chain |-> <<>>, buf |-> Zeroes(CmacBlock), bytesInBuf |-> 0]

MarvinFresh == [chain |-> <<>>, buffer |-> StaleBytes(2 * MarvinWord), dataLength |-> 0]

(* SymCryptMarvin32Init wipes the second half of the buffer only.          *)
MarvinInitState(s) ==
  [chain |-> <<>>, dataLength |-> 0,
   buffer |-> CopyTo(s.buffer, MarvinWord, Zeroes(MarvinWord))]

(* SymCryptMarvin32Append with hash_buffer_pattern.c.                      *)
MarvinAppendState(s, data) ==
  LET count == s.dataLength % MarvinWord
      fills == count > 0 /\ Len(data) >= MarvinWord - count
      taken == IF fills THEN MarvinWord - count ELSE 0
      word  == CopyTo(s.buffer, count, Slice(data, 0, taken))
      rest  == Len(data) - taken
      bulk  == IF rest >= MarvinWord THEN RoundDown(rest, MarvinWord) ELSE 0
      from  == IF fills THEN 0 ELSE count
  IN [chain      |-> s.chain \o (IF fills THEN Slice(word, 0, MarvinWord) ELSE <<>>)
                       \o Slice(data, taken, bulk),
      buffer     |-> CopyTo(word, from, Slice(data, taken + bulk, rest - bulk)),
      dataLength |-> (s.dataLength + Len(data)) % MarvinRange]

(* SymCryptMarvin32Result: a word of zeroes behind the data, 0x80 over its *)
(* first byte, and both words of the buffer.                               *)
MarvinTag(s) ==
  LET n == s.dataLength % MarvinWord
  IN s.chain \o CopyTo(CopyTo(s.buffer, n, Zeroes(MarvinWord)), n, <<Mac80>>)

MarvinResultState(s) ==
  LET n == s.dataLength % MarvinWord
  IN [chain |-> <<>>, dataLength |-> 0,
      buffer |-> CopyTo(CopyTo(s.buffer, n, Zeroes(MarvinWord)), 0, Zeroes(MarvinWord))]

(* SymCryptMarvin32, the code of its own for a message in one call: two    *)
(* words at a time, one more if there is, the rest and 0x80, a zero word.  *)
Marvin32(data) ==
  LET pairs == RoundDown(Len(data), 2 * MarvinWord)
      one   == IF Len(data) - pairs >= MarvinWord THEN MarvinWord ELSE 0
      tail  == Len(data) - pairs - one
  IN Slice(data, 0, pairs) \o Slice(data, pairs, one)
       \o Slice(data, pairs + one, tail) \o <<Mac80>> \o Zeroes(MarvinWord - tail - 1)
       \o Zeroes(MarvinWord)
-----------------------------------------------------------------------------
MacInit ==
  /\ macAlg \in {"cmac", "marvin32"}
  /\ macState = [o \in MacObjects |-> IF macAlg = "cmac" THEN CmacFresh ELSE MarvinFresh]
  /\ macLength = [o \in MacObjects |-> -1]

(* op(s) replaces the state of object o, whose message then has n bytes.   *)
MacChange(o, s, n) ==
  /\ macState' = [macState EXCEPT ![o] = s]
  /\ macLength' = [macLength EXCEPT ![o] = n]
  /\ UNCHANGED macAlg

CmacInit(o) == macAlg = "cmac" /\ MacChange(o, CmacInitState(macState[o]), 0)
MarvinInit(o) == macAlg = "marvin32" /\ MacChange(o, MarvinInitState(macState[o]), 0)

Started(o, alg) == macAlg = alg /\ macLength[o] >= 0

CmacAppend(o, cb) ==
  /\ Started(o, "cmac") /\ macLength[o] + cb <= MacMaxLength
  /\ MacChange(o, CmacAppendState(macState[o], MacBytes(macLength[o], macLength[o] + cb)),
               macLength[o] + cb)

MarvinAppend(o, cb) ==
  /\ Started(o, "marvin32") /\ macLength[o] + cb <= MacMaxLength
  /\ MacChange(o, MarvinAppendState(macState[o], MacBytes(macLength[o], macLength[o] + cb)),
               macLength[o] + cb)

(* Both results leave the state ready for the next message.                *)
CmacResult(o) == Started(o, "cmac") /\ MacChange(o, CmacResultState(macState[o]), 0)
MarvinResult(o) == Started(o, "marvin32") /\ MacChange(o, MarvinResultState(macState[o]), 0)

CmacStateCopy(o, p) == Started(o, "cmac") /\ MacChange(p, macState[o], macLength[o])
MarvinStateCopy(o, p) == Started(o, "marvin32") /\ MacChange(p, macState[o], macLength[o])

MacNext ==
  \E o \in MacObjects :
    \/ CmacInit(o) \/ CmacResult(o) \/ MarvinInit(o) \/ MarvinResult(o)
    \/ \E cb \in MacSizes : CmacAppend(o, cb) \/ MarvinAppend(o, cb)
    \/ \E p \in MacObjects \ {o} : CmacStateCopy(o, p) \/ MarvinStateCopy(o, p)

MacSpec == MacInit /\ [][MacNext]_macVars
-----------------------------------------------------------------------------
(* SP 800-38B: all blocks but the last, and the last one under a subkey.   *)
CmacReference(data) ==
  LET n == IF Len(data) = 0 THEN 0 ELSE CmacBlock * ((Len(data) - 1) \div CmacBlock)
      last == Slice(data, n, Len(data) - n)
  IN Slice(data, 0, n)
       \o IF Len(last) = CmacBlock THEN XorBytes(last, Subkey(1))
          ELSE XorBytes(PadToBlock(Append(last, Mac80), CmacBlock), Subkey(2))

(* At any time the result of a state would be the MAC of the message since *)
(* its Init or its last Result: SP 800-38B's for CMAC; for Marvin32 the    *)
(* same as the code of its own that does a message in one call.            *)
MacIsReference ==
  \A o \in MacObjects :
    macLength[o] >= 0 =>
      LET data == MacBytes(0, macLength[o])
      IN IF macAlg = "cmac" THEN CmacTag(macState[o]) = CmacReference(data)
         ELSE MarvinTag(macState[o]) = Marvin32(data)
-----------------------------------------------------------------------------
(* The inductive invariant behind it.  The chain has taken the message up  *)
(* to the end of a block and the buffer holds the rest: for CMAC a last    *)
(* block that may be full and is empty only before the first byte, for     *)
(* Marvin32 less than a word, with zeroes in the second half.              *)
MacByteSet == SUBSET ({"80", "data", "stale"} \X Int \X Int)
CmacStates ==
  [chain : Seq(MacByteSet), buf : [1 .. CmacBlock -> MacByteSet], bytesInBuf : 0 .. CmacBlock]
MarvinStates ==
  [chain : Seq(MacByteSet), buffer : [1 .. 2 * MarvinWord -> MacByteSet], dataLength : 0 .. MarvinRange - 1]

Waiting(buffer, from, count) == \A i \in 1 .. count : buffer[i] = Atom("data", from + i, 0)

CmacHolds(s, n) ==
  LET taken == Len(s.chain)
  IN /\ s.chain = MacBytes(0, taken) /\ taken % CmacBlock = 0
     /\ n = taken + s.bytesInBuf /\ Waiting(s.buf, taken, s.bytesInBuf)
     /\ s.bytesInBuf = 0 => n = 0

MarvinHolds(s, n) ==
  LET taken == Len(s.chain)
  IN /\ s.chain = MacBytes(0, taken) /\ taken % MarvinWord = 0
     /\ s.dataLength = n % MarvinRange
     /\ n - taken \in 0 .. MarvinWord - 1 /\ Waiting(s.buffer, taken, n - taken)
     /\ \A i \in MarvinWord + 1 .. 2 * MarvinWord : s.buffer[i] = ZeroByte

MacInv ==
  /\ macLength \in [MacObjects -> Nat \cup {-1}]
  /\ \/ macAlg = "cmac" /\ macState \in [MacObjects -> CmacStates]
        /\ \A o \in MacObjects : macLength[o] >= 0 => CmacHolds(macState[o], macLength[o])
     \/ macAlg = "marvin32" /\ macState \in [MacObjects -> MarvinStates]
        /\ \A o \in MacObjects : macLength[o] >= 0 => MarvinHolds(macState[o], macLength[o])
=============================================================================
