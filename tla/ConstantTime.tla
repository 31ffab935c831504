----------------------------- MODULE ConstantTime -----------------------------
(***************************************************************************)
(* The helpers that hide lengths and positions from side channels          *)
(* (lib/scsTools.c, lib/ScsTable.c, lib/paddingPkcs7.c): they read all of  *)
(* a buffer and select with masks.  A mask is all ones or all zeroes, so a *)
(* masked value is the value or nothing; what is modelled is which values  *)
(* go where, word by word.  Bytes of buffers and tables are any values,    *)
(* those of padded messages are numbers.                                   *)
(***************************************************************************)
EXTENDS Integers, Sequences

CONSTANTS
  CtNative,       \* NATIVE_BYTES
  CtBufferWords,  \* sizes in words of the buffers that are rotated
  CtGroup,        \* SYMCRYPT_SCSTABLE_GROUP_SIZE
  CtInterleave,   \* SYMCRYPT_SCSTABLE_INTERLEAVE_SIZE
  CtWideElement,  \* 128 on AMD64: elements of this size are not interleaved
  CtElementSizes, \* sizes of table elements
  CtElements,     \* the number of elements of a table
  CtBlockSize,    \* of the padded messages
  CtPadded        \* messages that may be padded rightly or not

ASSUME ConstantTimeAssumption ==
  /\ CtNative \in Nat \ {0} /\ CtElements % CtGroup = 0
  /\ \A n \in CtBufferWords : n \in {2 ^ k : k \in 2 .. 10}
  /\ \A size \in CtElementSizes : size % CtInterleave = 0
  /\ \A m \in CtPadded : Len(m) > 0 /\ Len(m) % CtBlockSize = 0

VARIABLES
  ctBuffer,   \* a buffer, or empty
  ctShift,    \* how far it should have been rotated
  ctTable,    \* the memory of a table, with the size of its elements
  ctStored,   \* the elements that were stored, or empty before the table is there
  ctMessage   \* a padded message, or empty

ctVars == <<ctBuffer, ctShift, ctTable, ctStored, ctMessage>>

SmallerOf(m, n) == IF m < n THEN m ELSE n

RoundUpPow2Sizet(v) ==
  LET doubled[i \in 0 .. v] ==
        IF i = 0 THEN 1 ELSE LET before == doubled[i - 1] IN IF before < v THEN 2 * before ELSE before
  IN doubled[v]

(* The destination keeps what lies behind the cbSrc bytes.                 *)
ScsCopy(src, cbSrc, dst, cbDst) ==
  [i \in DOMAIN dst |-> IF i <= cbDst /\ i <= cbSrc THEN src[i] ELSE dst[i]]
-----------------------------------------------------------------------------
(* SymCryptScsRotateBuffer, to the left.  The words first take bytes from  *)
(* the word behind them.                                                   *)
WordsOfBuffer(b) == [i \in 1 .. Len(b) \div CtNative |-> SubSeq(b, (i - 1) * CtNative + 1, i * CtNative)]
BytesOfWords(w) == [p \in 1 .. Len(w) * CtNative |-> w[(p - 1) \div CtNative + 1][((p - 1) % CtNative) + 1]]

ByteShifted(w, k) ==
  [i \in 1 .. Len(w) |-> SubSeq(w[i] \o w[IF i = Len(w) THEN 1 ELSE i + 1], k + 1, k + CtNative)]

(* Four words: those of a pair are swapped, then the pairs.                *)
FourRotated(w, i, s) ==
  LET pair(a, b) == IF s % 2 = 1 THEN <<b, a>> ELSE <<a, b>>
      p == pair(w[i], w[i + 1])
      q == pair(w[i + 2], w[i + 3])
      M0 == (s \div 2) % 2 = 1
      M1 == ((s + 1) \div 2) % 2 = 1
  IN <<IF M0 THEN q[1] ELSE p[1], IF M1 THEN q[2] ELSE p[2], IF M0 THEN p[1] ELSE q[1], IF M1 THEN p[2] ELSE q[2]>>

(* Mutant: the mask does not depend on the position in the block.          *)
SwapsBlock(j, s, blockSize) == (s \div blockSize) % 2 = 1

(* Whether word j of a block is swapped with word j of the next block.     *)
Swaps(j, s, blockSize) == ((j + s) \div blockSize) % 2 = 1

Swapped(w, s, blockSize) ==
  [i \in 1 .. Len(w) |->
     LET j == (i - 1) % blockSize
         first == ((i - 1) \div blockSize) % 2 = 0
     IN IF Swaps(j, s, blockSize) THEN w[IF first THEN i + blockSize ELSE i - blockSize] ELSE w[i]]

ScsRotateBuffer(b, lshift) ==
  LET aligned == ByteShifted(WordsOfBuffer(b), lshift % CtNative)
      s == lshift \div CtNative
      n == Len(aligned)
      fours[i \in 0 .. n \div 4] == IF i = 0 THEN <<>> ELSE fours[i - 1] \o FourRotated(aligned, 4 * i - 3, s)
      depth == CHOOSE k \in 2 .. n : 2 ^ k = n
      levels[k \in 2 .. depth] ==
        IF k = 2 THEN fours[n \div 4]
        ELSE LET before == levels[k - 1] IN SubSeq(Swapped(before, s, 2 ^ (k - 1)), 1, n)
  IN BytesOfWords(levels[depth])
-----------------------------------------------------------------------------
(* Tables.  An element of a group is stored in chunks between those of the *)
(* other elements of the group.                                            *)
ScsTableInit(elementSize) ==
  [elementSize |-> elementSize,
   groupSize |-> IF elementSize = CtWideElement THEN 1 ELSE CtGroup,
   interleaveSize |-> IF elementSize = CtWideElement THEN CtWideElement ELSE CtInterleave,
   data |-> [p \in 0 .. CtElements * elementSize - 1 |-> 0]]

ScsTableStore(t, iIndex, data) ==
  LET groupOffset == iIndex % t.groupSize
      start == (iIndex - groupOffset) * t.elementSize + groupOffset * t.interleaveSize
      chunk(c) == start + c * t.interleaveSize * t.groupSize
      at(p) == {k \in 0 .. t.elementSize - 1 : p = chunk(k \div t.interleaveSize) + (k % t.interleaveSize)}
  IN [t EXCEPT !.data = [p \in DOMAIN t.data |->
        IF at(p) # {} THEN data[(CHOOSE k \in at(p) : TRUE) + 1] ELSE t.data[p]]]

(* All groups are read; of every group the chunk of at most one element    *)
(* passes its mask.                                                        *)
ScsTableLoad(t, iIndex) ==
  [k \in 1 .. t.elementSize |->
     LET c == (k - 1) \div t.interleaveSize
         r == (k - 1) % t.interleaveSize
         value(g, e) == t.data[g * t.elementSize + (c * t.groupSize + e) * t.interleaveSize + r]
         passed == {<<g, e>> \in {t.groupSize * h : h \in 0 .. (CtElements \div t.groupSize) - 1} \X (0 .. t.groupSize - 1) :
                      g + e = iIndex /\ value(g, e) # 0}
     IN IF passed = {} THEN 0 ELSE LET x == CHOOSE x \in passed : TRUE IN value(x[1], x[2])]
-----------------------------------------------------------------------------
(* PKCS #7 padding.                                                        *)
PaddingPkcs7Add(src) ==
  LET pad == CtBlockSize - (Len(src) % CtBlockSize) IN src \o [i \in 1 .. pad |-> pad]

(* SymCryptPaddingPkcs7Remove into a buffer dst.  The status of the masks: *)
(* a wrong padding goes before a buffer that is too small.                 *)
PaddingPkcs7Remove(src, dst) ==
  LET padVal == src[Len(src)]
      cbDst == SmallerOf(Len(dst), Len(src))
      cbBulk == Len(src) - CtBlockSize
      limited == 1 + ((padVal - 1) % CtBlockSize)
      cbMsg == CtBlockSize - limited
      badValue == padVal = 0 \/ CtBlockSize < padVal
      badBytes == \E i \in 1 .. CtBlockSize : i > cbMsg /\ src[cbBulk + i] # limited
      early == cbDst < cbBulk
  IN [status |-> IF badValue \/ (~early /\ badBytes) THEN "INVALID_ARGUMENT"
                 ELSE IF early \/ cbDst - cbBulk < cbMsg THEN "BUFFER_TOO_SMALL" ELSE "NO_ERROR",
      cbResult |-> Len(src) - padVal,
      dst |-> IF early THEN dst
              ELSE [i \in DOMAIN dst |-> IF i <= cbBulk \/ (i <= cbDst /\ i <= cbBulk + cbMsg) THEN src[i] ELSE dst[i]]]
-----------------------------------------------------------------------------
CtElement(size, i) == [k \in 1 .. size |-> i * size + k]
CtUnset(size) == [k \in 1 .. size |-> 0]

ConstantTimeInit ==
  /\ ctBuffer = <<>> /\ ctShift = 0
  /\ ctTable = <<>> /\ ctStored = <<>>
  /\ ctMessage = <<>>

CtBegin ==
  /\ ctBuffer = <<>> /\ ctStored = <<>> /\ ctMessage = <<>>
  /\ \/ /\ \E n \in CtBufferWords : ctBuffer' = [p \in 1 .. n * CtNative |-> p]
        /\ UNCHANGED <<ctShift, ctTable, ctStored, ctMessage>>
     \/ /\ \E size \in CtElementSizes :
             /\ ctTable' = ScsTableInit(size)
             /\ ctStored' = [i \in 0 .. CtElements - 1 |-> CtUnset(size)]
        /\ UNCHANGED <<ctBuffer, ctShift, ctMessage>>
     \/ /\ ctMessage' \in CtPadded
        /\ UNCHANGED <<ctBuffer, ctShift, ctTable, ctStored>>

CtRotate(lshift) ==
  /\ lshift < Len(ctBuffer)
  /\ ctBuffer' = ScsRotateBuffer(ctBuffer, lshift)
  /\ ctShift' = (ctShift + lshift) % Len(ctBuffer)
  /\ UNCHANGED <<ctTable, ctStored, ctMessage>>

CtStore(i) ==
  LET element == CtElement(ctTable.elementSize, i)
  IN /\ i \in DOMAIN ctStored
     /\ ctTable' = ScsTableStore(ctTable, i, element)
     /\ ctStored' = [ctStored EXCEPT ![i] = element]
     /\ UNCHANGED <<ctBuffer, ctShift, ctMessage>>

(* The padding is removed and what is left is padded again.                *)
CtRepad ==
  LET removed == PaddingPkcs7Remove(ctMessage, ctMessage)
  IN /\ ctMessage # <<>> /\ removed.status = "NO_ERROR"
     /\ ctMessage' = PaddingPkcs7Add(SubSeq(removed.dst, 1, removed.cbResult))
     /\ UNCHANGED <<ctBuffer, ctShift, ctTable, ctStored>>

ConstantTimeNext ==
  \/ CtBegin
  \/ \E lshift \in 0 .. Len(ctBuffer) - 1 : CtRotate(lshift)
  \/ \E i \in 0 .. CtElements - 1 : CtStore(i)
  \/ CtRepad
-----------------------------------------------------------------------------
(* Property.  Rotations by masked swaps put every byte where a rotation    *)
(* does; what is loaded from a table is what was stored last at its index; *)
(* a padding is removed exactly if the message is the padding of the one   *)
(* that is returned, and bytes behind the message are left alone.          *)
ConstantTimeIsReference ==
  /\ \A p \in DOMAIN ctBuffer : ctBuffer[p] = ((p - 1 + ctShift) % Len(ctBuffer)) + 1
  /\ \A i \in DOMAIN ctStored : ScsTableLoad(ctTable, i) = ctStored[i]
  /\ ctMessage # <<>> => \A room \in 0 .. Len(ctMessage) + 1 :
       LET dst == [k \in 1 .. room |-> 0 - k]
           removed == PaddingPkcs7Remove(ctMessage, dst)
           valid == {n \in 0 .. Len(ctMessage) : PaddingPkcs7Add(SubSeq(ctMessage, 1, n)) = ctMessage}
       IN /\ removed.status = "NO_ERROR" <=> \E n \in valid : n <= room
          /\ removed.status = "NO_ERROR" =>
               /\ removed.cbResult \in valid
               /\ removed.dst = ScsCopy(ctMessage, removed.cbResult, dst, room)
=============================================================================
