------------------------------- MODULE TlsCbc -------------------------------
(***************************************************************************)
(* Verification of a decrypted TLS record in CBC mode (lib/tlsCbcVerify.c): *)
(* message, MAC, padding and the length of the padding, which must not     *)
(* show in the time the code takes.  The code goes over the record in      *)
(* native words with masks, hashes as many blocks whatever the padding is, *)
(* and picks the result of the block in which the message really ends.     *)
(*                                                                         *)
(* Bytes are numbers below TcPadRange; a hash is the sequence of bytes     *)
(* that went into it, as in HashBuffer.  HMAC of anything but the message  *)
(* of the sender is a value that is in no record.                          *)
(***************************************************************************)
EXTENDS ConstantTime, HashBuffer

CONSTANTS
  TcResultSizes,  \* resultSize of the hash functions
  TcPadRange,     \* 256: the number of values of the byte padding_length
  TcHeaderLengths, TcMessageLengths, TcPadLengths,   \* of the records
  TcFlaws         \* how a record differs from what a sender makes

ASSUME TlsCbcAssumption ==
  /\ InputBlockSize % CtNative = 0
  /\ \A n \in TcResultSizes : n > CtNative /\ RoundUpPow2Sizet(n) = InputBlockSize \div 2
  /\ TcPadLengths \subseteq 0 .. TcPadRange - 1

VARIABLES
  tcSize,     \* resultSize of the hash
  tcState,    \* the HMAC state, to which the header was appended
  tcSent,     \* the inner hash as the sender computes it
  tcRecord,   \* the decrypted record
  tcVerdict   \* what SymCryptTlsCbcHmacVerify returned

tcVars == <<tcSize, tcState, tcSent, tcRecord, tcVerdict>>

TcMixed == -5000        \* two different bytes OR'ed
OrByte(a, b) == IF a = Zero \/ a = b THEN b ELSE IF b = Zero THEN a ELSE TcMixed

TcMacSize == InputBlockSize \div 2      \* cbMacValue

(* The HMAC of the inner hash chain, without what is behind its end.       *)
TcHmac(inner) == [j \in 1 .. tcSize |-> IF inner = tcSent THEN 10 + j ELSE 20 + j]
-----------------------------------------------------------------------------
(* Masks: the bytes 1 .. CtNative of a word that are set.                  *)
NMaskGe(wordStart, boundary) ==
  LET diff == boundary - wordStart
      shift == IF diff < 0 THEN 0 ELSE diff % CtNative
  IN {i \in 1 .. CtNative : diff - CtNative < 0 /\ i > shift}

NMaskEq80(wordStart, boundary) ==
  LET diff == boundary - wordStart
  IN {i \in 1 .. CtNative : diff \div CtNative = 0 /\ i = (diff % CtNative) + 1}

TcMasked(w, mask) == [i \in 1 .. CtNative |-> IF i \in mask THEN w[i] ELSE Zero]
TcAllBytes == 1 .. CtNative

(* The bytes of a word that are hashed: the data, and 0x80 behind them.    *)
TcHashed(w, next, iMacStart) ==
  [i \in 1 .. CtNative |->
     OrByte(IF i \in TcAllBytes \ NMaskGe(next, iMacStart) THEN w[i] ELSE Zero,
            IF i \in NMaskEq80(next, iMacStart) THEN Pad80 ELSE Zero)]

(* Bytes OR'ed into the MAC buffer behind its first at bytes.              *)
TcIntoMac(mac, at, bytes) ==
  SubSeq([p \in 1 .. TcMacSize |->
            IF p > at /\ p <= at + Len(bytes) THEN OrByte(mac[p], bytes[p - at]) ELSE mac[p]], 1, TcMacSize)

TcIntoBuffer(st, bytes) ==
  [st EXCEPT !.buffer = SubSeq(Overwrite(st.buffer, st.bytesInBuffer, bytes), 1, InputBlockSize),
             !.bytesInBuffer = st.bytesInBuffer + Len(bytes)]

TcCompressed(st) == [st EXCEPT !.chain = st.chain \o st.buffer, !.bytesInBuffer = 0]

(* The length OR'ed into the last position of the buffer.                  *)
TcWithLength(st, length) ==
  [st EXCEPT !.buffer = SubSeq(Overwrite(st.buffer, InputBlockSize - 1, <<OrByte(st.buffer[InputBlockSize], length)>>),
                               1, InputBlockSize)]
-----------------------------------------------------------------------------
(* The partial word that aligns next, if it is not aligned.                *)
TcFirstWord(acc, data, iMacStart) ==
  LET backOffset == acc.next % CtNative
      taken == CtNative - backOffset
      w == SubSeq(data, 1, CtNative)
      st == TcIntoBuffer(acc.st, SubSeq(TcHashed(w, acc.next, iMacStart), 1, taken))
      inMac == TcMasked(w, NMaskGe(acc.next, iMacStart))
  IN IF backOffset = 0 THEN acc
     ELSE [acc EXCEPT !.st = IF st.bytesInBuffer = InputBlockSize THEN TcCompressed(st) ELSE st,
                      !.mac = TcIntoMac(acc.mac, acc.next % TcMacSize, SubSeq(inMac, 1, taken)),
                      !.next = acc.next + taken]

(* Mutant: the length goes into every full block behind the message.       *)
TcIsResultBlockLate(next, resultIndex) == next >= resultIndex - CtNative

(* m32ResultBlock: this full block is the last of the hash.                *)
TcIsResultBlock(next, resultIndex) == next = resultIndex - CtNative

(* A whole word.                                                           *)
TcWord(acc, w, iMacStart, iPaddingStart, resultIndex, length, cbPad) ==
  LET next == acc.next
      inPadding == NMaskGe(next, iPaddingStart)
      inMac == NMaskGe(next, iMacStart) \ inPadding
      st == TcIntoBuffer(acc.st, TcHashed(w, next, iMacStart))
      full == st.bytesInBuffer = InputBlockSize
      isResult == TcIsResultBlock(next, resultIndex)
      compressed == TcCompressed(IF isResult THEN TcWithLength(st, length) ELSE st)
  IN [st |-> IF full THEN compressed ELSE st,
      mac |-> TcIntoMac(acc.mac, next % TcMacSize, TcMasked(w, inMac)),
      result |-> IF full /\ isResult THEN Append(acc.result, compressed.chain) ELSE acc.result,
      error |-> acc.error \/ \E i \in inPadding : w[i] # cbPad,
      next |-> next + CtNative]

(* The bytes behind the last whole word; the words behind the end are      *)
(* zero in w and in padBytes.                                              *)
TcLastBytes(acc, data, cbExtended, iPaddingStart, cbPad) ==
  LET left == cbExtended - acc.next
      w == SubSeq(data, Len(data) - left + 1, Len(data)) \o [i \in 1 .. CtNative - left |-> Zero]
      pad == [i \in 1 .. CtNative |-> IF i <= left THEN cbPad ELSE Zero]
      inPadding == NMaskGe(acc.next, iPaddingStart)
  IN IF left <= 0 THEN acc
     ELSE [acc EXCEPT !.mac = TcIntoMac(acc.mac, acc.next % TcMacSize, TcMasked(w, TcAllBytes \ inPadding)),
                      !.error = acc.error \/ \E i \in inPadding : w[i] # pad[i],
                      !.next = cbExtended]

(* One more block, which is the last of the hash or a phantom.             *)
TcLastBlock(acc, lastIndex, resultIndex, length) ==
  LET wiped == [acc.st EXCEPT !.buffer = [i \in 1 .. InputBlockSize |->
                   IF i > acc.st.bytesInBuffer THEN IF i = InputBlockSize THEN length ELSE Zero
                   ELSE acc.st.buffer[i]]]
      compressed == TcCompressed(wiped)
  IN IF acc.next >= lastIndex THEN acc
     ELSE [acc EXCEPT !.st = compressed,
                      !.result = IF lastIndex = resultIndex THEN Append(acc.result, compressed.chain)
                                 ELSE acc.result]

RoundUpToBlock(n) == ((n + InputBlockSize - 1) \div InputBlockSize) * InputBlockSize

(* cbPad bounded to maxPadLength.                                          *)
TcPadBound(cbPad, maxPadLength) == SmallerOf(cbPad, maxPadLength)

(* The core after the bytes that are never padding: st has hashed those,   *)
(* and rest may hold the padding.                                          *)
TcCoreOf(st, rest) ==
  LET data == SubSeq(rest, 1, Len(rest) - 1)
      maxPadLength == Len(data) - tcSize
      cbPad == TcPadBound(rest[Len(rest)], maxPadLength)
      cbHashPrefix == st.dataLengthL
      cbExtended == Len(data) + cbHashPrefix
      total == cbExtended - tcSize - cbPad
      length == LengthWord(8 * total)
      resultIndex == RoundUpToBlock(total + 1 + LengthWords)
      lastIndex == RoundUpToBlock(total + 1 + LengthWords + cbPad)
      iPaddingStart == cbExtended - cbPad
      iMacStart == iPaddingStart - tcSize
      after(first, nWords) ==
        LET words[k \in 0 .. nWords] ==
              IF k = 0 THEN first
              ELSE LET before == words[k - 1]
                       at == before.next - cbHashPrefix
                   IN TcWord(before, SubSeq(data, at + 1, at + CtNative), iMacStart, iPaddingStart, resultIndex,
                             length, cbPad)
        IN TcLastBlock(TcLastBytes(words[nWords], data, cbExtended, iPaddingStart, cbPad),
                       lastIndex, resultIndex, length)
      from(first) == after(first, (cbExtended - first.next) \div CtNative)
      result(done) == [tooSmall |-> FALSE, result |-> done.result, error |-> done.error,
                       mac |-> ScsRotateBuffer(done.mac, iMacStart % TcMacSize)]
  IN IF Len(rest) < tcSize + 1 THEN [tooSmall |-> TRUE]
     ELSE result(from(TcFirstWord([st |-> st, mac |-> [p \in 1 .. TcMacSize |-> Zero], result |-> <<>>,
                                   error |-> maxPadLength < rest[Len(rest)], next |-> cbHashPrefix],
                                  data, iMacStart)))

(* SymCryptTlsCbcHmacVerifyCore.  tooSmall leaves the buffers as they are. *)
TlsCbcHmacVerifyCore(state, record) ==
  LET front == IF Len(record) > tcSize + TcPadRange THEN Len(record) - tcSize - TcPadRange ELSE 0
  IN TcCoreOf(IF front > 0 THEN HashAppend(state, SubSeq(record, 1, front)) ELSE state,
              SubSeq(record, front + 1, Len(record)))

(* SymCryptTlsCbcHmacVerify.  It goes on after an error of the core, with  *)
(* whatever is in its buffers: the HMAC of that is not the MAC next to it. *)
TcVerdictOf(core) ==
  IF core.tooSmall \/ core.error THEN "AUTHENTICATION_FAILURE"
  ELSE IF \E j \in 1 .. tcSize : core.mac[j] # TcHmac(IF Len(core.result) = 1 THEN core.result[1] ELSE <<>>)[j]
       THEN "AUTHENTICATION_FAILURE" ELSE "NO_ERROR"
TlsCbcHmacVerify(state, record) == TcVerdictOf(TlsCbcHmacVerifyCore(state, record))
-----------------------------------------------------------------------------
(* Records.  The sender's: message, MAC, and a padding of pad bytes before *)
(* its length.  A flaw changes one byte, or cuts the record.               *)
TcBytes(n, from) == [i \in 1 .. n |-> 1 + ((from + i) % 9)]
TcKeyBlock == TcBytes(InputBlockSize, 3)

TcPlain(message, mac, pad) == message \o mac \o [i \in 1 .. pad + 1 |-> pad]

TcChanged(record, p) == [record EXCEPT ![p] = (record[p] + 1) % TcPadRange]

TcFlawed(record, message, pad, flaw) ==
  LET n == Len(record)
  IN CASE flaw = "none" -> record
       [] flaw = "message" -> TcChanged(record, 1 + (message \div 2))
       [] flaw = "mac first" -> TcChanged(record, message + 1)
       [] flaw = "mac last" -> TcChanged(record, n - pad - 1)
       [] flaw = "padding first" -> TcChanged(record, n - pad)
       [] flaw = "padding last" -> TcChanged(record, IF pad = 0 THEN n ELSE n - 1)
       [] flaw = "pad length" -> TcChanged(record, n)
       [] flaw = "cut one" -> SubSeq(record, 1, n - 1)
       [] flaw = "cut front" -> SubSeq(record, SmallerOf(message, 1) + 1, n)
       [] flaw = "too short" -> SubSeq(record, n - SmallerOf(tcSize, pad), n)
       [] flaw = "all padding" -> [i \in 1 .. n |-> pad]

TcHeaderAppended(n) ==
  HashAppend([WipedState EXCEPT !.chain = TcKeyBlock, !.dataLengthL = InputBlockSize], TcBytes(n, 0))

TlsCbcInit ==
  /\ tcSize \in TcResultSizes
  /\ tcVerdict = "none"
  /\ \E header \in TcHeaderLengths, n \in TcMessageLengths, pad \in TcPadLengths, flaw \in TcFlaws :
       LET message == TcBytes(n, 5)
       IN /\ tcState = TcHeaderAppended(header)
          /\ tcSent = PaddedMessage((TcKeyBlock \o TcBytes(header, 0)) \o message)
          /\ tcRecord = TcFlawed(TcPlain(message, [j \in 1 .. tcSize |-> 10 + j], pad), n, pad, flaw)

TcVerify ==
  /\ tcVerdict = "none"
  /\ tcVerdict' = TlsCbcHmacVerify(tcState, tcRecord)
  /\ UNCHANGED <<tcSize, tcState, tcSent, tcRecord>>

TlsCbcNext == TcVerify
-----------------------------------------------------------------------------
TcHashedSoFar == tcState.chain \o SubSeq(tcState.buffer, 1, tcState.bytesInBuffer)

(* Property.  A record is accepted exactly if it is a message, the HMAC of *)
(* the header and the message, and a padding all of whose bytes, its       *)
(* length byte included, say how long it is: as by the definition of TLS,  *)
(* which computes all that from the length byte alone.                     *)
TlsRecordIsReference ==
  LET n == Len(tcRecord)
      pad == tcRecord[n]
      cbMessage == n - 1 - pad - tcSize
      inner == PaddedMessage(TcHashedSoFar \o SubSeq(tcRecord, 1, cbMessage))
      valid == /\ cbMessage >= 0
               /\ SubSeq(tcRecord, cbMessage + 1, cbMessage + tcSize) = TcHmac(inner)
               /\ \A i \in n - pad .. n : tcRecord[i] = pad
  IN tcVerdict # "none" => (tcVerdict = "NO_ERROR" <=> valid)
=============================================================================
