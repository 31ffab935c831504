----------------------------- MODULE MessageProofs -----------------------------
(***************************************************************************)
(* CMAC and Marvin32 for every block and word size, range of the length,   *)
(* number of states and sizes of the appends; with HashProofs, all the     *)
(* MACs that take their message in parts.                                  *)
(***************************************************************************)
EXTENDS MCMessages, HashProofs

(* What a byte may hold.                                                   *)
LEMMA AtomIs ==
  ASSUME NEW kind \in {"80", "data", "stale"}, NEW a \in Int, NEW b \in Int
  PROVE  Atom(kind, a, b) \in MacByteSet
<1>1. <<kind, a, b>> \in {"80", "data", "stale"} \X Int \X Int
  OBVIOUS
<1> QED BY <1>1 DEF Atom, MacByteSet

(* The caller's bytes between two positions of the message.                *)
LEMMA MacBytesAre ==
  ASSUME NEW a \in Nat, NEW b \in Nat, a <= b
  PROVE  /\ MacBytes(a, b) \in Seq(MacByteSet) /\ Len(MacBytes(a, b)) = b - a
         /\ \A i \in 1 .. b - a : MacBytes(a, b)[i] = Atom("data", a + i, 0)
<1> DEFINE n == b - a
<1>1. n \in Nat
  OBVIOUS
<1>2. ASSUME NEW i \in 1 .. n PROVE Atom("data", a + i, 0) \in MacByteSet
  <2>1. a + i \in Int /\ 0 \in Int
    OBVIOUS
  <2> QED BY <2>1, AtomIs, Zenon
<1>3. [i \in 1 .. n |-> Atom("data", a + i, 0)] \in Seq(MacByteSet)
  BY <1>1, <1>2, IsASeq
<1> QED BY <1>1, <1>3 DEF MacBytes

(* A part of the message, by its positions.                                *)
LEMMA MacBytesPart ==
  ASSUME NEW a \in Nat, NEW b \in Nat, NEW at \in Nat, NEW cb \in Nat, a + at + cb <= b
  PROVE  Slice(MacBytes(a, b), at, cb) = MacBytes(a + at, a + at + cb)
<1> DEFINE x == MacBytes(a, b)
           y == MacBytes(a + at, a + at + cb)
           z == SubSeq(x, at + 1, at + cb)
<1>1. x \in Seq(MacByteSet) /\ Len(x) = b - a /\ \A i \in 1 .. b - a : x[i] = Atom("data", a + i, 0)
  BY MacBytesAre, SMTT(20)
<1>2. /\ y \in Seq(MacByteSet) /\ Len(y) = cb
      /\ \A i \in 1 .. cb : y[i] = Atom("data", a + at + i, 0)
  <2>1. a + at \in Nat /\ a + at + cb \in Nat /\ a + at <= a + at + cb /\ (a + at + cb) - (a + at) = cb
    OBVIOUS
  <2> QED BY <2>1, MacBytesAre
<1> HIDE DEF x, y
<1>3. /\ z \in Seq(MacByteSet) /\ Len(z) = cb
      /\ \A i \in 1 .. cb : z[i] = x[at + i]
  <2>1. \A i \in at + 1 .. at + cb : i \in 1 .. Len(x)
    BY <1>1
  <2>2. \A i \in at + 1 .. at + cb : x[i] \in MacByteSet
    BY <1>1, <2>1, ElementOfSeq
  <2>3. /\ z \in Seq(MacByteSet)
        /\ Len(z) = IF at + 1 <= at + cb THEN (at + cb) - (at + 1) + 1 ELSE 0
        /\ \A i \in 1 .. (at + cb) - (at + 1) + 1 : z[i] = x[(at + 1) + i - 1]
    BY <2>2, SubSeqProperties
  <2> HIDE DEF z
  <2>4. (at + cb) - (at + 1) + 1 = cb /\ (~(at + 1 <= at + cb) => cb = 0)
    OBVIOUS
  <2>5. \A i \in 1 .. cb : (at + 1) + i - 1 = at + i
    OBVIOUS
  <2> QED BY <2>3, <2>4, <2>5
<1> HIDE DEF z
<1>4. \A i \in 1 .. cb : z[i] = y[i]
  <2>1. \A i \in 1 .. cb : at + i \in 1 .. b - a /\ a + (at + i) = a + at + i
    OBVIOUS
  <2> QED BY <1>1, <1>2, <1>3, <2>1
<1>5. z = y
  BY <1>2, <1>3, <1>4, SeqEqual
<1> QED BY <1>5 DEF x, y, z, Slice

(* Adjacent parts of the message.                                          *)
LEMMA MacBytesJoin ==
  ASSUME NEW a \in Nat, NEW b \in Nat, NEW c \in Nat, a <= b, b <= c
  PROVE  MacBytes(a, b) \o MacBytes(b, c) = MacBytes(a, c)
<1> DEFINE x == MacBytes(a, b)
           y == MacBytes(b, c)
           z == MacBytes(a, c)
<1>1. x \in Seq(MacByteSet) /\ Len(x) = b - a /\ \A i \in 1 .. b - a : x[i] = Atom("data", a + i, 0)
  BY MacBytesAre
<1>2. y \in Seq(MacByteSet) /\ Len(y) = c - b /\ \A i \in 1 .. c - b : y[i] = Atom("data", b + i, 0)
  BY MacBytesAre
<1>3. z \in Seq(MacByteSet) /\ Len(z) = c - a /\ \A i \in 1 .. c - a : z[i] = Atom("data", a + i, 0)
  BY MacBytesAre, SMTT(20)
<1> HIDE DEF x, y, z
<1>4. /\ x \o y \in Seq(MacByteSet) /\ Len(x \o y) = c - a
      /\ \A i \in 1 .. c - a : (x \o y)[i] = IF i <= b - a THEN x[i] ELSE y[i - (b - a)]
  <2>1. /\ x \o y \in Seq(MacByteSet) /\ Len(x \o y) = Len(x) + Len(y)
        /\ \A i \in 1 .. Len(x) + Len(y) : (x \o y)[i] = IF i <= Len(x) THEN x[i] ELSE y[i - Len(x)]
    BY <1>1, <1>2, ConcatProperties, Zenon
  <2>2. Len(x) + Len(y) = c - a
    BY <1>1, <1>2
  <2> QED BY <1>1, <2>1, <2>2, Zenon
<1>5. \A i \in 1 .. c - a : (x \o y)[i] = z[i]
  <2> TAKE i \in 1 .. c - a
  <2>1. CASE i <= b - a
    BY <1>1, <1>3, <1>4, <2>1
  <2>2. CASE ~(i <= b - a)
    <3>1. i - (b - a) \in 1 .. c - b /\ b + (i - (b - a)) = a + i
      BY <2>2
    <3> QED BY <1>2, <1>3, <1>4, <2>2, <3>1
  <2> QED BY <2>1, <2>2
<1>6. x \o y = z
  BY <1>3, <1>4, <1>5, SeqEqual
<1> QED BY <1>6 DEF x, y, z

(* The same as a predicate, which the provers match as a whole.            *)
Adjoin(a, b, c) == MacBytes(a, b) \o MacBytes(b, c) = MacBytes(a, c)

LEMMA PartsAdjoin ==
  ASSUME NEW a \in Nat, NEW b \in Nat, NEW c \in Nat, a <= b, b <= c
  PROVE  Adjoin(a, b, c)
  BY MacBytesJoin, Zenon DEF Adjoin

(* Concatenation is associative.                                           *)
LEMMA MacRegroup == \A x, y, z \in Seq(MacByteSet) : Regroups(x, y, z)
<1> SUFFICES ASSUME NEW x \in Seq(MacByteSet), NEW y \in Seq(MacByteSet), NEW z \in Seq(MacByteSet)
             PROVE  Regroups(x, y, z)
  BY Zenon
<1> QED BY ConcatAssociative DEF Regroups

(* memcpy into a buffer of size bytes, byte by byte.                       *)
LEMMA CopyToIs ==
  ASSUME NEW size \in Nat, NEW buffer \in [1 .. size -> MacByteSet], NEW at \in Nat,
         NEW data \in Seq(MacByteSet), at + Len(data) <= size
  PROVE  /\ CopyTo(buffer, at, data) \in [1 .. size -> MacByteSet]
         /\ \A i \in 1 .. size : i > at /\ i <= at + Len(data) => CopyTo(buffer, at, data)[i] = data[i - at]
         /\ \A i \in 1 .. size : ~(i > at /\ i <= at + Len(data)) => CopyTo(buffer, at, data)[i] = buffer[i]
<1>1. Len(buffer) = size /\ Len(data) \in Nat
  BY LenProperties
<1>2. \A i \in 1 .. size : i > at /\ i <= at + Len(data) => data[i - at] \in MacByteSet
  <2>1. \A i \in 1 .. size : i > at /\ i <= at + Len(data) => i - at \in 1 .. Len(data)
    BY <1>1
  <2>2. \A k \in 1 .. Len(data) : data[k] \in MacByteSet
    BY ElementOfSeq
  <2> QED BY <2>1, <2>2
<1>3. CopyTo(buffer, at, data) =
        [i \in 1 .. size |-> IF i > at /\ i <= at + Len(data) THEN data[i - at] ELSE buffer[i]]
  BY <1>1 DEF CopyTo
<1> QED BY <1>2, <1>3

(* The same as a predicate, which the provers match as a whole.            *)
Copied(size, buffer, at, data) ==
  /\ CopyTo(buffer, at, data) \in [1 .. size -> MacByteSet]
  /\ \A i \in 1 .. size : i > at /\ i <= at + Len(data) => CopyTo(buffer, at, data)[i] = data[i - at]
  /\ \A i \in 1 .. size : ~(i > at /\ i <= at + Len(data)) => CopyTo(buffer, at, data)[i] = buffer[i]

LEMMA CopyMakes ==
  ASSUME NEW size \in Nat, NEW buffer \in [1 .. size -> MacByteSet], NEW at \in Nat,
         NEW data \in Seq(MacByteSet), at + Len(data) <= size
  PROVE  Copied(size, buffer, at, data)
  BY CopyToIs, Zenon DEF Copied

(* Zeroes and other small pieces.                                          *)
LEMMA ZeroesAre ==
  ASSUME NEW n \in Nat
  PROVE  Zeroes(n) \in Seq(MacByteSet) /\ Len(Zeroes(n)) = n /\ \A i \in 1 .. n : Zeroes(n)[i] = ZeroByte
<1>1. ZeroByte \in MacByteSet
  BY DEF ZeroByte, MacByteSet
<1>2. [i \in 1 .. n |-> ZeroByte] \in Seq(MacByteSet)
  BY <1>1, IsASeq
<1> QED BY <1>2 DEF Zeroes

(* The byte 0x80, alone and as a piece.                                    *)
LEMMA Mac80Is == Mac80 \in MacByteSet /\ <<Mac80>> \in Seq(MacByteSet) /\ Len(<<Mac80>>) = 1 /\ <<Mac80>>[1] = Mac80
<1>1. Mac80 \in MacByteSet
  <2>1. 0 \in Int
    OBVIOUS
  <2> QED BY <2>1, AtomIs, Zenon DEF Mac80
<1> HIDE DEF Mac80
<1> QED BY <1>1
-----------------------------------------------------------------------------
(* The pieces of a CMAC append: taken bytes complete the buffer or none,   *)
(* bulk is a whole number of blocks, and something is left for the buffer. *)
Overflows(b, cb) == b # 0 /\ cb > CmacBlock - b
TakenOf(b, cb) == IF Overflows(b, cb) THEN CmacBlock - b ELSE 0
BulkOf(rest) == IF rest > CmacBlock THEN RoundDown(rest - 1, CmacBlock) ELSE 0
FromOf(b, cb) == IF Overflows(b, cb) THEN 0 ELSE b

(* Those pieces add up to the append, and the buffer is left with a byte   *)
(* at least and a block at most, unless nothing was appended.              *)
LEMMA CmacSplit ==
  ASSUME NEW b \in 0 .. CmacBlock, NEW cb \in Nat
  PROVE  LET rest == cb - TakenOf(b, cb)
             left == FromOf(b, cb) + (rest - BulkOf(rest))
         IN /\ TakenOf(b, cb) \in 0 .. cb /\ rest \in Nat /\ BulkOf(rest) \in 0 .. rest
            /\ \E d \in Nat : BulkOf(rest) = d * CmacBlock
            /\ left \in 0 .. CmacBlock /\ (left = 0 => b = 0 /\ cb = 0)
            /\ (~Overflows(b, cb) /\ b # 0) => BulkOf(rest) = 0
<1> DEFINE B == CmacBlock
           over == Overflows(b, cb)
           taken == TakenOf(b, cb)
           rest == cb - taken
           bulk == BulkOf(rest)
           from == FromOf(b, cb)
<1>0. /\ B \in Nat \ {0} /\ (over <=> (b # 0 /\ cb > B - b)) /\ taken = (IF over THEN B - b ELSE 0)
      /\ bulk = (IF rest > B THEN RoundDown(rest - 1, B) ELSE 0) /\ from = (IF over THEN 0 ELSE b)
  BY MacAssumption DEF Overflows, TakenOf, BulkOf, FromOf
<1> SUFFICES /\ taken \in 0 .. cb /\ rest \in Nat /\ bulk \in 0 .. rest
             /\ \E d \in Nat : bulk = d * B
             /\ from + (rest - bulk) \in 0 .. B
             /\ from + (rest - bulk) = 0 => b = 0 /\ cb = 0
             /\ (~over /\ b # 0) => bulk = 0
  OBVIOUS
<1>r. rest = cb - taken
  OBVIOUS
<1>b. b \in 0 .. B
  OBVIOUS
<1> HIDE DEF B, over, taken, bulk, from, rest
<1>1. taken \in 0 .. cb /\ rest \in Nat /\ (over => rest > 0) /\ (~over => taken = 0 /\ rest = cb)
  BY <1>0, <1>r, <1>b
<1>2. CASE rest > B
  <2> DEFINE m == rest - 1
             d == m \div B
             r == m % B
  <2>1. m \in Nat
    BY <1>0, <1>b, <1>1, <1>2
  <2>2. d \in Nat /\ r \in 0 .. B - 1 /\ m = d * B + r
    <3> HIDE DEF m
    <3> QED BY <1>0, <2>1, Division
  <2>3. bulk = m - r
    BY <1>0, <1>2 DEF RoundDown
  <2> HIDE DEF d, r
  <2>4. d * B \in Nat
    BY <1>0, <2>2
  <2>5. bulk = d * B
    <3> HIDE DEF m
    <3> QED BY <1>0, <2>1, <2>2, <2>3, <2>4
  <2>6. bulk \in 0 .. rest /\ rest - bulk = r + 1
    BY <1>0, <1>b, <1>1, <2>2, <2>3, <2>4, <2>5
  <2>7. over \/ b = 0
    BY <1>0, <1>b, <1>1, <1>2
  <2>8. from = 0
    BY <1>0, <2>7
  <2>9. from + (rest - bulk) = r + 1 /\ r + 1 \in 1 .. B
    BY <1>0, <2>2, <2>6, <2>8
  <2>10. (~over /\ b # 0) => bulk = 0
    BY <1>0, <2>7
  <2>11. \E e \in Nat : bulk = e * B
    BY <1>0, <2>2, <2>5
  <2> HIDE DEF m
  <2>12. from + (rest - bulk) \in 0 .. B /\ from + (rest - bulk) # 0
    BY <1>0, <2>9
  <2> QED BY <1>1, <2>6, <2>10, <2>11, <2>12, Zenon
<1>3. CASE ~(rest > B)
  <2>1. bulk = 0 /\ bulk = 0 * B
    BY <1>0, <1>3
  <2>2. from + rest \in 0 .. B
    BY <1>0, <1>b, <1>1, <1>3
  <2>3. from + rest = 0 => b = 0 /\ cb = 0
    BY <1>0, <1>b, <1>1
  <2> QED BY <1>0, <1>b, <1>1, <2>1, <2>2, <2>3
<1> QED BY <1>2, <1>3

(* No bytes.                                                               *)
LEMMA NoMacBytes ==
  ASSUME NEW a \in Nat
  PROVE  MacBytes(a, a) = <<>> /\ \A b \in Nat : a <= b => MacBytes(a, b) \o <<>> = MacBytes(a, b)
<1>1. MacBytes(a, a) \in Seq(MacByteSet) /\ Len(MacBytes(a, a)) = 0
  <2>1. a <= a /\ a - a = 0
    OBVIOUS
  <2> QED BY <2>1, MacBytesAre
<1>2. MacBytes(a, a) = <<>>
  BY <1>1, EmptySeq
<1>3. ASSUME NEW b \in Nat, a <= b PROVE MacBytes(a, b) \o <<>> = MacBytes(a, b)
  <2>1. MacBytes(a, b) \in Seq(MacByteSet)
    BY <1>3, MacBytesAre
  <2> QED BY <2>1, ConcatEmptySeq
<1> QED BY <1>2, <1>3

(* An append of any size: the state then holds the longer message.         *)
LEMMA CmacAppendHolds ==
  ASSUME NEW s \in CmacStates, NEW n \in Nat, NEW cb \in Nat, CmacHolds(s, n)
  PROVE  LET new == CmacAppendState(s, MacBytes(n, n + cb))
         IN new \in CmacStates /\ CmacHolds(new, n + cb)
<1> DEFINE B == CmacBlock
           b == s.bytesInBuf
           C == Len(s.chain)
           data == MacBytes(n, n + cb)
           over == CmacOverflows(s, Len(data))
           taken == IF over THEN B - b ELSE 0
           rest == Len(data) - taken
           bulk == IF rest > B THEN RoundDown(rest - 1, B) ELSE 0
           full == CopyTo(s.buf, b, Slice(data, 0, taken))
           from == IF over THEN 0 ELSE b
           tail == Slice(data, taken + bulk, rest - bulk)
           new == CmacAppendState(s, data)
           top == C + (IF over THEN B ELSE 0) + bulk
<1>1. /\ B \in Nat \ {0} /\ b \in 0 .. B /\ C \in Nat /\ n = C + b
      /\ s.buf \in [1 .. B -> MacByteSet] /\ s.chain = MacBytes(0, C) /\ C % B = 0
      /\ (b = 0 => n = 0) /\ \A i \in 1 .. b : s.buf[i] = Atom("data", C + i, 0)
  BY MacAssumption, LenProperties DEF CmacStates, CmacHolds, Waiting
<1>2. data \in Seq(MacByteSet) /\ Len(data) = cb
  <2>1. n + cb \in Nat /\ n <= n + cb /\ (n + cb) - n = cb
    OBVIOUS
  <2> QED BY <2>1, MacBytesAre
<1>3. over \in BOOLEAN /\ (over <=> (b # 0 /\ cb > B - b))
  BY <1>2 DEF CmacOverflows
<1>4. new = [chain      |-> s.chain \o (IF over THEN full ELSE <<>>) \o Slice(data, taken, bulk),
             buf        |-> CopyTo(full, from, tail),
             bytesInBuf |-> from + Len(tail)]
  BY DEF CmacAppendState
<1> HIDE DEF new, over, b, C, B
<1>5. rest = cb - taken
  BY <1>2
<1>6. /\ taken \in 0 .. cb /\ rest \in Nat /\ bulk \in 0 .. rest
      /\ \E d \in Nat : bulk = d * B
      /\ from + (rest - bulk) \in 0 .. B
      /\ from + (rest - bulk) = 0 => b = 0 /\ cb = 0
      /\ (~over /\ b # 0) => bulk = 0
  <2>1. (over <=> Overflows(b, cb)) /\ taken = TakenOf(b, cb) /\ from = FromOf(b, cb) /\ bulk = BulkOf(rest)
    BY <1>3 DEF Overflows, TakenOf, FromOf, BulkOf, B
  <2>2. b \in 0 .. CmacBlock
    BY <1>1 DEF B
  <2> HIDE DEF taken, rest, bulk, from
  <2>3. rest = cb - TakenOf(b, cb)
    BY <1>5, <2>1
  <2> QED BY <2>1, <2>2, <2>3, CmacSplit DEF B
<1>7. /\ (over => taken = B - b /\ from = 0) /\ (~over => taken = 0 /\ from = b) /\ from \in Nat
      /\ rest = cb - taken /\ taken \in Nat /\ bulk \in Nat /\ rest - bulk \in Nat
  BY <1>1, <1>3, <1>5, <1>6, SMTT(20)
<1> HIDE DEF taken, bulk, rest, from
<1>8. /\ Slice(data, 0, taken) = MacBytes(n, n + taken)
      /\ Slice(data, taken, bulk) = MacBytes(n + taken, n + taken + bulk)
      /\ tail = MacBytes(n + taken + bulk, n + cb)
  <2>1. /\ n + cb \in Nat /\ n + 0 + taken <= n + cb /\ n + taken + bulk <= n + cb
        /\ taken + bulk \in Nat /\ n + (taken + bulk) + (rest - bulk) <= n + cb
        /\ n + 0 = n /\ n + 0 + taken = n + taken
        /\ n + (taken + bulk) = n + taken + bulk /\ n + (taken + bulk) + (rest - bulk) = n + cb
    BY <1>1, <1>6, <1>7
  <2>2. Slice(data, 0, taken) = MacBytes(n + 0, n + 0 + taken)
    BY <1>7, <2>1, MacBytesPart
  <2>3. Slice(data, taken, bulk) = MacBytes(n + taken, n + taken + bulk)
    BY <1>7, <2>1, MacBytesPart
  <2>4. tail = MacBytes(n + (taken + bulk), n + (taken + bulk) + (rest - bulk))
    BY <1>7, <2>1, MacBytesPart
  <2> HIDE DEF tail, data
  <2> QED BY <2>1, <2>2, <2>3, <2>4
<1>9. /\ tail \in Seq(MacByteSet) /\ Len(tail) = rest - bulk
      /\ \A i \in 1 .. rest - bulk : tail[i] = Atom("data", n + taken + bulk + i, 0)
  <2>1. n + taken + bulk \in Nat /\ n + cb \in Nat /\ n + taken + bulk <= n + cb
        /\ (n + cb) - (n + taken + bulk) = rest - bulk
    BY <1>6, <1>7
  <2>2. LET t == MacBytes(n + taken + bulk, n + cb)
        IN /\ t \in Seq(MacByteSet) /\ Len(t) = (n + cb) - (n + taken + bulk)
           /\ \A i \in 1 .. (n + cb) - (n + taken + bulk) : t[i] = Atom("data", n + taken + bulk + i, 0)
    BY <2>1, MacBytesAre
  <2> HIDE DEF tail
  <2> QED BY <1>8, <2>1, <2>2
<1> HIDE DEF tail
<1>10. /\ full \in [1 .. B -> MacByteSet]
       /\ over => full = MacBytes(C, C + B)
       /\ ~over => \A i \in 1 .. b : full[i] = Atom("data", C + i, 0)
  <2> DEFINE x == MacBytes(n, n + taken)
  <2>1. /\ x \in Seq(MacByteSet) /\ Len(x) = taken
        /\ \A i \in 1 .. taken : x[i] = Atom("data", n + i, 0)
    <3>1. n + taken \in Nat /\ n <= n + taken /\ (n + taken) - n = taken
      BY <1>7
    <3> QED BY <3>1, MacBytesAre
  <2>2. full = CopyTo(s.buf, b, x)
    BY <1>8
  <2> HIDE DEF x, full
  <2>3. b + Len(x) <= B /\ b \in Nat /\ B \in Nat
    BY <1>1, <1>7, <2>1
  <2>4. /\ full \in [1 .. B -> MacByteSet]
        /\ \A i \in 1 .. B : i > b /\ i <= b + Len(x) => full[i] = x[i - b]
        /\ \A i \in 1 .. B : ~(i > b /\ i <= b + Len(x)) => full[i] = s.buf[i]
    <3> DEFINE old == s.buf
    <3>1. old \in [1 .. B -> MacByteSet] /\ x \in Seq(MacByteSet)
      BY <1>1, <2>1
    <3> HIDE DEF old
    <3>2. /\ CopyTo(old, b, x) \in [1 .. B -> MacByteSet]
          /\ \A i \in 1 .. B : i > b /\ i <= b + Len(x) => CopyTo(old, b, x)[i] = x[i - b]
          /\ \A i \in 1 .. B : ~(i > b /\ i <= b + Len(x)) => CopyTo(old, b, x)[i] = old[i]
      <4>1. Copied(B, old, b, x)
        BY <2>3, <3>1, CopyMakes, Zenon
      <4> QED BY <4>1, Zenon DEF Copied
    <3> QED BY <2>2, <3>2 DEF old
  <2>5. CASE over
    <3>1. \A i \in 1 .. B : full[i] = Atom("data", C + i, 0)
      <4> TAKE i \in 1 .. B
      <4>1. CASE i <= b
        BY <1>1, <2>4, <4>1, SMTT(20)
      <4>2. CASE ~(i <= b)
        <5>1. i - b \in 1 .. taken /\ i > b /\ i <= b + Len(x) /\ n + (i - b) = C + i
          BY <1>1, <1>7, <2>1, <2>5, <4>2
        <5> QED BY <2>1, <2>4, <5>1
      <4> QED BY <4>1, <4>2
    <3>2. full = [i \in 1 .. (C + B) - C |-> Atom("data", C + i, 0)]
      <4>1. (C + B) - C = B
        BY <1>1
      <4> QED BY <2>4, <3>1, <4>1
    <3> QED BY <2>4, <2>5, <3>2 DEF MacBytes
  <2>6. CASE ~over
    <3>1. \A i \in 1 .. b : i \in 1 .. B /\ ~(i > b)
      BY <1>1
    <3> QED BY <1>1, <2>4, <2>6, <3>1
  <2> QED BY <2>5, <2>6
<1> HIDE DEF full
<1>11. /\ top \in Nat /\ top % B = 0 /\ n + taken + bulk - from = top /\ top + (from + (rest - bulk)) = n + cb
       /\ (from # 0 => top = C /\ ~over /\ from = b)
  <2>1. PICK d \in Nat : bulk = d * B
    BY <1>6
  <2> DEFINE c == C \div B
  <2>2. c \in Nat /\ C = c * B
    <3>1. c \in Nat /\ C = c * B + (C % B)
      BY <1>1, Division
    <3> HIDE DEF c
    <3>2. c * B \in Nat
      BY <1>1, <3>1
    <3> QED BY <1>1, <3>1, <3>2
  <2> HIDE DEF c
  <2>3. \E q \in Nat : top = q * B
    <3>1. CASE over
      <4>1. top = (c + 1 + d) * B /\ c + 1 + d \in Nat
        BY <1>1, <2>1, <2>2, <3>1
      <4> QED BY <4>1
    <3>2. CASE ~over
      <4>1. top = (c + d) * B /\ c + d \in Nat
        BY <1>1, <2>1, <2>2, <3>2
      <4> QED BY <4>1
    <3> QED BY <3>1, <3>2
  <2>4. top \in Nat
    BY <1>1, <1>7
  <2>5. top % B = 0
    <3> HIDE DEF top
    <3>1. PICK q \in Nat : top = q * B
      BY <2>3
    <3>2. top = q * B + 0 /\ 0 \in 0 .. B - 1
      BY <1>1, <3>1
    <3>0. DividesTo(top, B, q, 0)
      BY <1>1, <2>4, <3>2, DivisionNamed, Zenon
    <3> QED BY <3>0, Zenon DEF DividesTo
  <2>6. n + taken + bulk - from = top /\ top + (from + (rest - bulk)) = n + cb
    BY <1>1, <1>6, <1>7
  <2>7. from # 0 => top = C /\ ~over /\ from = b
    BY <1>1, <1>6, <1>7
  <2> QED BY <2>4, <2>5, <2>6, <2>7
<1>12. new.chain = MacBytes(0, top)
  <2>1. CASE over
    <3>1. /\ 0 \in Nat /\ 0 <= C /\ C + B \in Nat /\ C <= C + B /\ C + B <= top /\ n + taken = C + B
          /\ n + taken + bulk = top /\ 0 <= C + B
      BY <1>1, <1>7, <1>11, <2>1
    <3>2. MacBytes(0, C) \o MacBytes(C, C + B) = MacBytes(0, C + B)
      <4>1. Adjoin(0, C, C + B)
        BY <1>1, <3>1, PartsAdjoin, Zenon
      <4> QED BY <4>1, Zenon DEF Adjoin
    <3>3. MacBytes(0, C + B) \o MacBytes(C + B, top) = MacBytes(0, top)
      <4>1. Adjoin(0, C + B, top)
        BY <1>11, <3>1, PartsAdjoin, Zenon
      <4> QED BY <4>1, Zenon DEF Adjoin
    <3> HIDE DEF top, data
    <3>4. new.chain = (s.chain \o full) \o Slice(data, taken, bulk)
      BY <1>4, <2>1
    <3> QED BY <1>1, <1>8, <1>10, <2>1, <3>1, <3>2, <3>3, <3>4
  <2>2. CASE ~over
    <3>1. /\ 0 \in Nat /\ 0 <= C /\ top = C + bulk /\ n + taken = n
      BY <1>1, <1>7, <2>2
    <3>2. MacBytes(0, C) \o <<>> = MacBytes(0, C)
      BY <1>1, <3>1, NoMacBytes
    <3>3. MacBytes(0, C) \o MacBytes(n, n + bulk) = MacBytes(0, top)
      <4>1. CASE b = 0
        <5>1. n = C /\ C <= C + bulk /\ C + bulk \in Nat
          BY <1>1, <1>7, <4>1
        <5>2. MacBytes(0, C) \o MacBytes(C, C + bulk) = MacBytes(0, C + bulk)
          <6>1. Adjoin(0, C, C + bulk)
            BY <1>1, <3>1, <5>1, PartsAdjoin, Zenon
          <6> QED BY <6>1, Zenon DEF Adjoin
        <5> QED BY <3>1, <5>1, <5>2
      <4>2. CASE b # 0
        <5>1. bulk = 0 /\ n + 0 = n /\ C + 0 = C
          BY <1>1, <1>6, <2>2, <4>2
        <5>2. MacBytes(n, n) = <<>>
          BY NoMacBytes
        <5> HIDE DEF top
        <5> QED BY <3>1, <3>2, <5>1, <5>2
      <4> QED BY <4>1, <4>2
    <3> HIDE DEF top, data
    <3>4. new.chain = (s.chain \o <<>>) \o Slice(data, taken, bulk)
      BY <1>4, <2>2
    <3> QED BY <1>1, <1>8, <3>1, <3>2, <3>3, <3>4
  <2> QED BY <2>1, <2>2
<1>13. /\ new.buf \in [1 .. B -> MacByteSet]
       /\ \A i \in 1 .. from + (rest - bulk) : new.buf[i] = Atom("data", top + i, 0)
  <2>1. from + Len(tail) <= B /\ B \in Nat
    BY <1>1, <1>6, <1>9
  <2>2. /\ CopyTo(full, from, tail) \in [1 .. B -> MacByteSet]
        /\ \A i \in 1 .. B : i > from /\ i <= from + Len(tail) => CopyTo(full, from, tail)[i] = tail[i - from]
        /\ \A i \in 1 .. B : ~(i > from /\ i <= from + Len(tail)) => CopyTo(full, from, tail)[i] = full[i]
    <3>1. full \in [1 .. B -> MacByteSet] /\ tail \in Seq(MacByteSet) /\ from \in Nat
      BY <1>7, <1>9, <1>10
    <3>0. Copied(B, full, from, tail)
      BY <2>1, <3>1, CopyMakes, Zenon
    <3> QED BY <3>0, Zenon DEF Copied
  <2>3. new.buf = CopyTo(full, from, tail)
    BY <1>4
  <2>4. ASSUME NEW i \in 1 .. from + (rest - bulk)
        PROVE  new.buf[i] = Atom("data", top + i, 0)
    <3>1. i \in 1 .. B
      BY <1>1, <1>6, <1>7
    <3>2. CASE i > from
      <4>1. i - from \in 1 .. rest - bulk /\ i <= from + Len(tail) /\ n + taken + bulk + (i - from) = top + i
        BY <1>7, <1>9, <1>11, <3>2
      <4> QED BY <1>9, <2>2, <2>3, <3>1, <3>2, <4>1
    <3>3. CASE ~(i > from)
      <4>1. top = C /\ ~over /\ i \in 1 .. b
        BY <1>7, <1>11, <3>3
      <4> QED BY <1>10, <2>2, <2>3, <3>1, <3>3, <4>1
    <3> QED BY <3>2, <3>3
  <2> QED BY <2>2, <2>3, <2>4
<1>14. new.bytesInBuf = from + (rest - bulk)
  BY <1>4, <1>9
<1>15. MacBytes(0, top) \in Seq(MacByteSet) /\ Len(MacBytes(0, top)) = top
  <2>1. 0 \in Nat /\ 0 <= top /\ top - 0 = top
    BY <1>11
  <2> HIDE DEF top
  <2> QED BY <1>11, <2>1, MacBytesAre
<1> HIDE DEF top
<1>16. new \in CmacStates
  <2>1. new = [chain |-> new.chain, buf |-> new.buf, bytesInBuf |-> new.bytesInBuf]
    BY <1>4
  <2>2. new.chain \in Seq(MacByteSet) /\ new.buf \in [1 .. CmacBlock -> MacByteSet] /\ new.bytesInBuf \in 0 .. CmacBlock
    BY <1>6, <1>12, <1>13, <1>14, <1>15 DEF B
  <2> QED BY <2>1, <2>2 DEF CmacStates
<1>17. CmacHolds(new, n + cb)
  <2>1. Len(new.chain) = top
    BY <1>12, <1>15
  <2>2. new.bytesInBuf = 0 => n + cb = 0
    BY <1>1, <1>6, <1>14
  <2>3. n + cb = top + new.bytesInBuf
    BY <1>11, <1>14
  <2> QED BY <1>11, <1>12, <1>13, <1>14, <2>1, <2>2, <2>3 DEF CmacHolds, Waiting, B
<1> QED BY <1>16, <1>17 DEF new

(* What waits in a buffer is the end of the message.                       *)
LEMMA WaitingIs ==
  ASSUME NEW size \in Nat, NEW buffer \in [1 .. size -> MacByteSet], NEW C \in Nat, NEW b \in 0 .. size,
         Waiting(buffer, C, b)
  PROVE  /\ Slice(buffer, 0, b) = MacBytes(C, C + b)
         /\ b = size => buffer = MacBytes(C, C + b)
<1> DEFINE x == SubSeq(buffer, 1, b)
           y == MacBytes(C, C + b)
<1>1. b \in Nat /\ b <= size /\ C + b \in Nat /\ C <= C + b /\ (C + b) - C = b /\ 0 + 1 = 1 /\ 0 + b = b
  OBVIOUS
<1>2. /\ y \in Seq(MacByteSet) /\ Len(y) = b /\ \A i \in 1 .. b : y[i] = Atom("data", C + i, 0)
  BY <1>1, MacBytesAre
<1> HIDE DEF y
<1>3. /\ x \in Seq(MacByteSet) /\ Len(x) = b /\ \A i \in 1 .. b : x[i] = buffer[i]
  <2>1. \A i \in 1 .. b : buffer[i] \in MacByteSet
    BY <1>1
  <2>2. /\ x \in Seq(MacByteSet) /\ Len(x) = (IF 1 <= b THEN b - 1 + 1 ELSE 0)
        /\ \A i \in 1 .. b - 1 + 1 : x[i] = buffer[1 + i - 1]
    BY <1>1, <2>1, SubSeqProperties
  <2>3. b - 1 + 1 = b /\ (~(1 <= b) => b = 0) /\ \A i \in 1 .. b : 1 + i - 1 = i
    BY <1>1
  <2> HIDE DEF x
  <2> QED BY <2>2, <2>3
<1> HIDE DEF x
<1>4. \A i \in 1 .. b : buffer[i] = Atom("data", C + i, 0)
  BY DEF Waiting
<1>5. x = y
  BY <1>2, <1>3, <1>4, SeqEqual
<1>6. Slice(buffer, 0, b) = x
  BY <1>1 DEF Slice, x
<1>7. ASSUME b = size PROVE buffer = y
  <2>1. x = buffer
    <3>1. buffer \in Seq(MacByteSet) /\ Len(buffer) = size
      <4>1. \A i \in 1 .. size : buffer[i] \in MacByteSet
        OBVIOUS
      <4>2. [i \in 1 .. size |-> buffer[i]] \in Seq(MacByteSet)
        BY <4>1, IsASeq
      <4>3. buffer = [i \in 1 .. size |-> buffer[i]]
        OBVIOUS
      <4> QED BY <4>2, <4>3
    <3>2. SubSeq(buffer, 1, Len(buffer)) = buffer
      BY <3>1, SubSeqFull
    <3> QED BY <1>7, <3>1, <3>2 DEF x
  <2> QED BY <1>5, <2>1
<1> QED BY <1>5, <1>6, <1>7 DEF y

(* The zeroes of 10* padding.                                              *)
LEMMA PadCount ==
  ASSUME NEW B \in Nat \ {0}, NEW b \in 0 .. B - 1
  PROVE  (B - ((b + 1) % B)) % B = B - b - 1
<1>1. CASE b + 1 = B
  <2>1. (b + 1) % B = 0
    BY <1>1
  <2>2. (B - 0) % B = 0
    OBVIOUS
  <2> QED BY <1>1, <2>1, <2>2
<1>2. CASE b + 1 < B
  <2>1. (b + 1) % B = b + 1
    BY <1>2
  <2>2. B - (b + 1) \in 0 .. B - 1
    BY <1>2
  <2>3. (B - (b + 1)) % B = B - (b + 1)
    BY <2>2
  <2> QED BY <2>1, <2>2, <2>3
<1> QED BY <1>1, <1>2

(* The MAC of a state that holds a message is the standard's.              *)
LEMMA CmacTagRight ==
  ASSUME NEW s \in CmacStates, NEW n \in Nat, CmacHolds(s, n)
  PROVE  CmacTag(s) = CmacReference(MacBytes(0, n))
<1> DEFINE B == CmacBlock
           b == s.bytesInBuf
           C == Len(s.chain)
           data == MacBytes(0, n)
           N == IF Len(data) = 0 THEN 0 ELSE B * ((Len(data) - 1) \div B)
           last == Slice(data, N, Len(data) - N)
           old == s.buf
<1>1. /\ B \in Nat \ {0} /\ b \in 0 .. B /\ C \in Nat /\ n = C + b
      /\ old \in [1 .. B -> MacByteSet] /\ s.chain = MacBytes(0, C) /\ C % B = 0
      /\ (b = 0 => n = 0) /\ Waiting(old, C, b)
  BY MacAssumption, LenProperties DEF CmacStates, CmacHolds
<1>2. Len(data) = n
  <2>1. 0 \in Nat /\ 0 <= n /\ n - 0 = n
    OBVIOUS
  <2> QED BY <2>1, MacBytesAre
<1>3. CmacTag(s) = MacBytes(0, C) \o
         (IF b < B THEN XorBytes(Slice(old, 0, b) \o <<Mac80>> \o Zeroes(B - b - 1), Subkey(2))
          ELSE XorBytes(old, Subkey(1)))
  BY <1>1 DEF CmacTag
<1>4. CmacReference(data) = Slice(data, 0, N) \o
         (IF Len(last) = B THEN XorBytes(last, Subkey(1))
          ELSE XorBytes(PadToBlock(Append(last, Mac80), B), Subkey(2)))
  BY DEF CmacReference
<1> HIDE DEF b, C, B, old
<1>5. N = C
  <2>1. CASE n = 0
    BY <1>1, <1>2, <2>1
  <2>2. CASE n # 0
    <3> DEFINE c == C \div B
    <3>1. c \in Nat /\ C = c * B + (C % B)
      BY <1>1, Division
    <3> HIDE DEF c
    <3>2. C = c * B /\ c * B \in Nat
      BY <1>1, <3>1
    <3>3. n - 1 = c * B + (b - 1) /\ b - 1 \in 0 .. B - 1 /\ n - 1 \in Nat
      BY <1>1, <2>2, <3>2
    <3>4. (n - 1) \div B = c
      <4>1. ASSUME NEW a \in Nat, NEW r \in 0 .. B - 1, a = c * B + r PROVE a \div B = c
        BY <1>1, <3>1, <4>1, DivisionUnique
      <4> QED BY <3>3, <4>1
    <3>5. B * c = c * B
      BY <1>1, <3>1
    <3>6. N = B * ((n - 1) \div B)
      BY <1>2, <2>2
    <3> HIDE DEF N
    <3> QED BY <3>2, <3>4, <3>5, <3>6
  <2> QED BY <2>1, <2>2
<1> HIDE DEF N
<1>6. last = MacBytes(C, C + b) /\ Slice(data, 0, N) = MacBytes(0, C)
  <2>1. /\ 0 \in Nat /\ n - C = b /\ b \in Nat /\ 0 + C + b <= n /\ 0 + C = C /\ 0 + 0 + C <= n
        /\ 0 + 0 = 0 /\ 0 + 0 + C = C /\ 0 + C + b = C + b
    BY <1>1
  <2>2. Slice(data, C, b) = MacBytes(0 + C, 0 + C + b)
    BY <1>1, <2>1, MacBytesPart
  <2>3. Slice(data, 0, C) = MacBytes(0 + 0, 0 + 0 + C)
    BY <1>1, <2>1, MacBytesPart
  <2>4. last = Slice(data, C, b)
    BY <1>2, <1>5, <2>1
  <2> HIDE DEF data, last
  <2> QED BY <1>5, <2>1, <2>2, <2>3, <2>4
<1> HIDE DEF last, data
<1>7. last \in Seq(MacByteSet) /\ Len(last) = b
  <2>1. C + b \in Nat /\ C <= C + b /\ (C + b) - C = b
    BY <1>1
  <2> QED BY <1>1, <1>6, <2>1, MacBytesAre
<1>8. Slice(old, 0, b) = last /\ (b = B => old = last)
  <2>1. B \in Nat
    BY <1>1
  <2> QED BY <1>1, <1>6, <2>1, WaitingIs
<1>9. CASE b = B
  <2>1. ~(b < B) /\ Len(last) = B
    BY <1>1, <1>7, <1>9
  <2>2. CmacTag(s) = MacBytes(0, C) \o XorBytes(last, Subkey(1))
    BY <1>3, <1>8, <1>9, <2>1
  <2>3. CmacReference(data) = MacBytes(0, C) \o XorBytes(last, Subkey(1))
    BY <1>4, <1>6, <2>1
  <2> QED BY <2>2, <2>3 DEF data
<1>10. CASE b # B
  <2>1. b < B /\ b \in 0 .. B - 1
    BY <1>1, <1>10
  <2>2. Append(last, Mac80) = last \o <<Mac80>> /\ Len(Append(last, Mac80)) = b + 1
    BY <1>7, Mac80Is
  <2>3. (B - ((b + 1) % B)) % B = B - b - 1
    BY <1>1, <2>1, PadCount
  <2>4. PadToBlock(Append(last, Mac80), B) = (last \o <<Mac80>>) \o Zeroes(B - b - 1)
    BY <2>2, <2>3 DEF PadToBlock
  <2> QED BY <1>3, <1>4, <1>6, <1>7, <1>8, <1>10, <2>1, <2>4 DEF data
<1> QED BY <1>9, <1>10
-----------------------------------------------------------------------------
(* The pieces of a Marvin32 append: taken bytes complete the word or none, *)
(* bulk is a whole number of words, less than a word is left.              *)
Fills(b, cb) == b > 0 /\ cb >= MarvinWord - b
FilledBy(b, cb) == IF Fills(b, cb) THEN MarvinWord - b ELSE 0
WordsOf(rest) == IF rest >= MarvinWord THEN RoundDown(rest, MarvinWord) ELSE 0
StartOf(b, cb) == IF Fills(b, cb) THEN 0 ELSE b

(* Those pieces add up to the append, and less than a word is left.        *)
LEMMA MarvinSplit ==
  ASSUME NEW b \in 0 .. MarvinWord - 1, NEW cb \in Nat
  PROVE  LET rest == cb - FilledBy(b, cb)
             left == StartOf(b, cb) + (rest - WordsOf(rest))
         IN /\ FilledBy(b, cb) \in 0 .. cb /\ rest \in Nat /\ WordsOf(rest) \in 0 .. rest
            /\ \E d \in Nat : WordsOf(rest) = d * MarvinWord
            /\ left \in 0 .. MarvinWord - 1
            /\ (~Fills(b, cb) /\ b # 0) => WordsOf(rest) = 0
<1> DEFINE W == MarvinWord
           fills == Fills(b, cb)
           taken == FilledBy(b, cb)
           rest == cb - taken
           bulk == WordsOf(rest)
           from == StartOf(b, cb)
<1>0. /\ W \in Nat \ {0} /\ (fills <=> (b > 0 /\ cb >= W - b)) /\ taken = (IF fills THEN W - b ELSE 0)
      /\ bulk = (IF rest >= W THEN RoundDown(rest, W) ELSE 0) /\ from = (IF fills THEN 0 ELSE b)
  BY MacAssumption DEF Fills, FilledBy, WordsOf, StartOf
<1> SUFFICES /\ taken \in 0 .. cb /\ rest \in Nat /\ bulk \in 0 .. rest
             /\ \E d \in Nat : bulk = d * W
             /\ from + (rest - bulk) \in 0 .. W - 1
             /\ (~fills /\ b # 0) => bulk = 0
  OBVIOUS
<1>r. rest = cb - taken
  OBVIOUS
<1>b. b \in 0 .. W - 1
  OBVIOUS
<1> HIDE DEF W, fills, taken, bulk, from, rest
<1>1. taken \in 0 .. cb /\ rest \in Nat /\ (~fills => taken = 0 /\ rest = cb)
  BY <1>0, <1>r, <1>b
<1>2. CASE rest >= W
  <2> DEFINE d == rest \div W
             r == rest % W
  <2>1. d \in Nat /\ r \in 0 .. W - 1 /\ rest = d * W + r
    BY <1>0, <1>1, Division
  <2>2. bulk = rest - r
    BY <1>0, <1>2 DEF RoundDown
  <2> HIDE DEF d, r
  <2>3. d * W \in Nat
    BY <1>0, <2>1
  <2>4. bulk = d * W /\ bulk \in 0 .. rest /\ rest - bulk = r
    BY <1>0, <1>1, <2>1, <2>2, <2>3
  <2>5. fills \/ b = 0
    BY <1>0, <1>b, <1>1, <1>2
  <2>6. from = 0
    BY <1>0, <2>5
  <2>7. from + (rest - bulk) \in 0 .. W - 1
    BY <1>0, <2>1, <2>4, <2>6
  <2>8. (~fills /\ b # 0) => bulk = 0
    BY <2>5
  <2>9. \E e \in Nat : bulk = e * W
    BY <2>1, <2>4
  <2> QED BY <1>1, <2>4, <2>7, <2>8, <2>9, Zenon
<1>3. CASE ~(rest >= W)
  <2>1. bulk = 0 /\ bulk = 0 * W
    BY <1>0, <1>3
  <2>2. from + (rest - bulk) \in 0 .. W - 1
    BY <1>0, <1>b, <1>1, <1>3, <2>1
  <2> QED BY <1>0, <1>1, <2>1, <2>2
<1> QED BY <1>2, <1>3

(* The length is kept modulo a multiple of the word.                       *)
LEMMA MarvinCount ==
  ASSUME NEW n \in Nat, NEW C \in Nat, C % MarvinWord = 0, n - C \in 0 .. MarvinWord - 1
  PROVE  (n % MarvinRange) % MarvinWord = n - C
<1> DEFINE W == MarvinWord
           R == MarvinRange
           k == R \div W
           q == n \div R
           r == n % R
           c == C \div W
<1>1. W \in Nat \ {0} /\ R \in Nat \ {0} /\ R % W = 0 /\ R \in Nat /\ C % W = 0 /\ n - C \in 0 .. W - 1
  BY MacAssumption
<1>2. k \in Nat /\ R = k * W + (R % W)
  BY <1>1, Division
<1>3. q \in Nat /\ r \in 0 .. R - 1 /\ n = q * R + r
  BY <1>1, Division
<1>4. c \in Nat /\ C = c * W + (C % W)
  BY <1>1, Division
<1>r. r = n % R
  OBVIOUS
<1> HIDE DEF W, R, k, q, r, c
<1>5. k * W \in Nat /\ c * W \in Nat /\ R = k * W /\ C = c * W /\ r \in Nat
  BY <1>1, <1>2, <1>3, <1>4
<1>6. n = (q * k) * W + r /\ q * k \in Nat
  <2>1. q * (k * W) = (q * k) * W
    BY <1>1, <1>2, <1>3
  <2> QED BY <1>2, <1>3, <1>5, <2>1
<1>7. ((q * k) * W + r) % W = r % W
  BY <1>1, <1>5, <1>6, MultipleDropped, ZenonT(40)
<1>8. n % W = n - C
  <2>1. n = c * W + (n - C)
    BY <1>1, <1>5
  <2>2. n \in Nat /\ c \in Nat /\ n - C \in 0 .. W - 1
    BY <1>1, <1>4
  <2>3. ASSUME NEW a \in Nat, NEW e \in 0 .. W - 1, a = c * W + e PROVE a % W = e
    BY <1>1, <2>2, <2>3, DivisionUnique
  <2> QED BY <2>1, <2>2, <2>3
<1> QED BY <1>6, <1>7, <1>8, <1>r DEF W, R

(* The new length.                                                         *)
LEMMA MarvinLength ==
  ASSUME NEW n \in Nat, NEW cb \in Nat
  PROVE  ((n % MarvinRange) + cb) % MarvinRange = (n + cb) % MarvinRange
<1> DEFINE R == MarvinRange
           q == n \div R
           r == n % R
<1>1. R \in Nat \ {0}
  BY MacAssumption
<1>2. q \in Nat /\ r \in 0 .. R - 1 /\ n = q * R + r
  BY <1>1, Division
<1> HIDE DEF R, q, r
<1>3. n + cb = q * R + (r + cb) /\ r + cb \in Nat
  <2>1. q * R \in Nat
    BY <1>1, <1>2
  <2> QED BY <1>2, <2>1
<1>4. (q * R + (r + cb)) % R = (r + cb) % R
  BY <1>1, <1>2, <1>3, MultipleDropped
<1> QED BY <1>3, <1>4 DEF r, R

(* An append of any size: the state then holds the longer message.         *)
LEMMA MarvinAppendHolds ==
  ASSUME NEW s \in MarvinStates, NEW n \in Nat, NEW cb \in Nat, MarvinHolds(s, n)
  PROVE  LET new == MarvinAppendState(s, MacBytes(n, n + cb))
         IN new \in MarvinStates /\ MarvinHolds(new, n + cb)
<1> DEFINE W == MarvinWord
           R == MarvinRange
           C == Len(s.chain)
           b == n - C
           old == s.buffer
           data == MacBytes(n, n + cb)
           fills == Fills(b, cb)
           taken == FilledBy(b, cb)
           word == CopyTo(old, b, Slice(data, 0, taken))
           rest == cb - taken
           bulk == WordsOf(rest)
           from == StartOf(b, cb)
           tail == Slice(data, taken + bulk, rest - bulk)
           new == MarvinAppendState(s, data)
           top == C + (IF fills THEN W ELSE 0) + bulk
<1>1. /\ W \in Nat \ {0} /\ R \in Nat \ {0} /\ b \in 0 .. W - 1 /\ C \in Nat /\ n = C + b
      /\ old \in [1 .. 2 * W -> MacByteSet] /\ s.chain = MacBytes(0, C) /\ C % W = 0
      /\ \A i \in 1 .. b : old[i] = Atom("data", C + i, 0)
      /\ \A i \in W + 1 .. 2 * W : old[i] = ZeroByte
      /\ s.dataLength = n % R
  BY MacAssumption, LenProperties DEF MarvinStates, MarvinHolds, Waiting
<1>2. data \in Seq(MacByteSet) /\ Len(data) = cb
  <2>1. n + cb \in Nat /\ n <= n + cb /\ (n + cb) - n = cb
    OBVIOUS
  <2> QED BY <2>1, MacBytesAre
<1>3. s.dataLength % W = b
  <2> HIDE DEF C
  <2> QED BY <1>1, MarvinCount DEF W
<1>4. new = [chain      |-> s.chain \o (IF fills THEN Slice(word, 0, W) ELSE <<>>) \o Slice(data, taken, bulk),
             buffer     |-> CopyTo(word, from, tail),
             dataLength |-> (s.dataLength + cb) % R]
  <2> HIDE DEF b, data, C
  <2> QED BY <1>2, <1>3 DEF MarvinAppendState, Fills, FilledBy, WordsOf, StartOf
<1> HIDE DEF new, b, C, W, old, R
<1>5. new.dataLength = (n + cb) % R /\ new.dataLength \in 0 .. R - 1
  <2>1. new.dataLength = (s.dataLength + cb) % R
    BY <1>4
  <2>2. ((n % R) + cb) % R = (n + cb) % R
    BY MarvinLength DEF R
  <2>3. new.dataLength = (n + cb) % R
    BY <1>1, <2>1, <2>2
  <2>4. n + cb \in Nat
    OBVIOUS
  <2>5. (n + cb) % R \in 0 .. R - 1
    BY <1>1, <2>4, Division
  <2> QED BY <2>3, <2>5
<1>6. /\ taken \in 0 .. cb /\ rest \in Nat /\ bulk \in 0 .. rest
      /\ \E d \in Nat : bulk = d * W
      /\ from + (rest - bulk) \in 0 .. W - 1
      /\ (~fills /\ b # 0) => bulk = 0
  <2>1. b \in 0 .. MarvinWord - 1
    BY <1>1 DEF W
  <2> QED BY <2>1, MarvinSplit DEF W
<1>7. /\ (fills => taken = W - b /\ from = 0) /\ (~fills => taken = 0 /\ from = b) /\ from \in Nat
      /\ rest = cb - taken /\ taken \in Nat /\ bulk \in Nat /\ rest - bulk \in Nat /\ b \in Nat
  BY <1>1, <1>6, SMTT(20) DEF FilledBy, StartOf, W
<1> HIDE DEF taken, bulk, rest, from, fills
<1>8. /\ Slice(data, 0, taken) = MacBytes(n, n + taken)
      /\ Slice(data, taken, bulk) = MacBytes(n + taken, n + taken + bulk)
      /\ tail = MacBytes(n + taken + bulk, n + cb)
  <2>1. /\ n + cb \in Nat /\ n + 0 + taken <= n + cb /\ n + taken + bulk <= n + cb
        /\ taken + bulk \in Nat /\ n + (taken + bulk) + (rest - bulk) <= n + cb
        /\ n + 0 = n /\ n + 0 + taken = n + taken
        /\ n + (taken + bulk) = n + taken + bulk /\ n + (taken + bulk) + (rest - bulk) = n + cb
    BY <1>1, <1>6, <1>7
  <2>2. Slice(data, 0, taken) = MacBytes(n + 0, n + 0 + taken)
    BY <1>7, <2>1, MacBytesPart
  <2>3. Slice(data, taken, bulk) = MacBytes(n + taken, n + taken + bulk)
    BY <1>7, <2>1, MacBytesPart
  <2>4. tail = MacBytes(n + (taken + bulk), n + (taken + bulk) + (rest - bulk))
    BY <1>7, <2>1, MacBytesPart
  <2> HIDE DEF tail, data
  <2> QED BY <2>1, <2>2, <2>3, <2>4
<1>9. /\ tail \in Seq(MacByteSet) /\ Len(tail) = rest - bulk
      /\ \A i \in 1 .. rest - bulk : tail[i] = Atom("data", n + taken + bulk + i, 0)
  <2>1. n + taken + bulk \in Nat /\ n + cb \in Nat /\ n + taken + bulk <= n + cb
        /\ (n + cb) - (n + taken + bulk) = rest - bulk
    BY <1>6, <1>7
  <2>2. LET t == MacBytes(n + taken + bulk, n + cb)
        IN /\ t \in Seq(MacByteSet) /\ Len(t) = (n + cb) - (n + taken + bulk)
           /\ \A i \in 1 .. (n + cb) - (n + taken + bulk) : t[i] = Atom("data", n + taken + bulk + i, 0)
    BY <2>1, MacBytesAre
  <2> HIDE DEF tail
  <2> QED BY <1>8, <2>1, <2>2
<1> HIDE DEF tail
<1>10. /\ word \in [1 .. 2 * W -> MacByteSet]
       /\ fills => \A i \in 1 .. W : word[i] = Atom("data", C + i, 0)
       /\ ~fills => \A i \in 1 .. b : word[i] = Atom("data", C + i, 0)
       /\ \A i \in W + 1 .. 2 * W : word[i] = ZeroByte
  <2> DEFINE x == MacBytes(n, n + taken)
             Z == 2 * W
  <2>1. /\ x \in Seq(MacByteSet) /\ Len(x) = taken
        /\ \A i \in 1 .. taken : x[i] = Atom("data", n + i, 0)
    <3>1. n + taken \in Nat /\ n <= n + taken /\ (n + taken) - n = taken
      BY <1>7
    <3> QED BY <3>1, MacBytesAre
  <2>2. word = CopyTo(old, b, x)
    BY <1>8
  <2>3. b + Len(x) <= W /\ b + Len(x) <= Z /\ Z \in Nat /\ W <= Z
    BY <1>1, <1>7, <2>1
  <2>4. old \in [1 .. Z -> MacByteSet]
    BY <1>1
  <2> HIDE DEF x, word, Z
  <2>5. /\ CopyTo(old, b, x) \in [1 .. Z -> MacByteSet]
        /\ \A i \in 1 .. Z : i > b /\ i <= b + Len(x) => CopyTo(old, b, x)[i] = x[i - b]
        /\ \A i \in 1 .. Z : ~(i > b /\ i <= b + Len(x)) => CopyTo(old, b, x)[i] = old[i]
    <3>1. b \in Nat /\ x \in Seq(MacByteSet) /\ b + Len(x) <= Z /\ Z \in Nat
      BY <1>7, <2>1, <2>3
    <3>0. Copied(Z, old, b, x)
      BY <2>4, <3>1, CopyMakes, Zenon
    <3> QED BY <3>0, Zenon DEF Copied
  <2>6. /\ word \in [1 .. Z -> MacByteSet]
        /\ \A i \in 1 .. Z : i > b /\ i <= b + Len(x) => word[i] = x[i - b]
        /\ \A i \in 1 .. Z : ~(i > b /\ i <= b + Len(x)) => word[i] = old[i]
    BY <2>2, <2>5, Zenon
  <2>7. \A i \in 1 .. b : word[i] = Atom("data", C + i, 0)
    <3>1. \A i \in 1 .. b : i \in 1 .. Z /\ ~(i > b)
      BY <1>1, <1>7, <2>3
    <3> QED BY <1>1, <2>6, <3>1
  <2>8. ASSUME fills, NEW i \in 1 .. W PROVE word[i] = Atom("data", C + i, 0)
    <3>1. CASE i <= b
      BY <1>7, <2>7, <3>1
    <3>2. CASE ~(i <= b)
      <4>1. i - b \in 1 .. taken /\ i > b /\ i <= b + Len(x) /\ n + (i - b) = C + i /\ i \in 1 .. Z
        BY <1>1, <1>7, <2>1, <2>3, <2>8, <3>2
      <4> QED BY <2>1, <2>6, <4>1
    <3> QED BY <3>1, <3>2
  <2>9. \A i \in W + 1 .. 2 * W : word[i] = ZeroByte
    <3>1. \A i \in W + 1 .. 2 * W : i \in 1 .. Z /\ ~(i <= b + Len(x))
      BY <1>1, <1>7, <2>1, <2>3 DEF Z
    <3> QED BY <1>1, <2>6, <3>1
  <2> QED BY <2>6, <2>7, <2>8, <2>9 DEF Z
<1> HIDE DEF word
<1>11. /\ top \in Nat /\ top % W = 0 /\ n + taken + bulk - from = top /\ top + (from + (rest - bulk)) = n + cb
       /\ (from # 0 => top = C /\ ~fills /\ from = b)
  <2>1. PICK d \in Nat : bulk = d * W
    BY <1>6
  <2> DEFINE c == C \div W
  <2>2. c \in Nat /\ C = c * W
    <3>1. c \in Nat /\ C = c * W + (C % W)
      BY <1>1, Division
    <3> HIDE DEF c
    <3>2. c * W \in Nat
      BY <1>1, <3>1
    <3> QED BY <1>1, <3>1, <3>2
  <2> HIDE DEF c
  <2>3. \E q \in Nat : top = q * W
    <3>1. CASE fills
      <4>1. top = (c + 1 + d) * W /\ c + 1 + d \in Nat
        BY <1>1, <2>1, <2>2, <3>1
      <4> QED BY <4>1
    <3>2. CASE ~fills
      <4>1. top = (c + d) * W /\ c + d \in Nat
        BY <1>1, <2>1, <2>2, <3>2
      <4> QED BY <4>1
    <3> QED BY <3>1, <3>2
  <2>4. top \in Nat
    BY <1>1, <1>7
  <2>5. top % W = 0
    <3> HIDE DEF top
    <3>1. PICK q \in Nat : top = q * W
      BY <2>3
    <3>2. top = q * W + 0 /\ 0 \in 0 .. W - 1
      BY <1>1, <3>1
    <3>0. DividesTo(top, W, q, 0)
      BY <1>1, <2>4, <3>2, DivisionNamed, Zenon
    <3> QED BY <3>0, Zenon DEF DividesTo
  <2>6. n + taken + bulk - from = top /\ top + (from + (rest - bulk)) = n + cb
    BY <1>1, <1>6, <1>7
  <2>7. from # 0 => top = C /\ ~fills /\ from = b
    BY <1>1, <1>6, <1>7
  <2> QED BY <2>4, <2>5, <2>6, <2>7
<1>12. new.chain = MacBytes(0, top)
  <2>1. CASE fills
    <3>1. /\ 0 \in Nat /\ 0 <= C /\ C + W \in Nat /\ C <= C + W /\ C + W <= top /\ n + taken = C + W
          /\ n + taken + bulk = top /\ 0 <= C + W
      BY <1>1, <1>7, <1>11, <2>1
    <3>2. MacBytes(0, C) \o MacBytes(C, C + W) = MacBytes(0, C + W)
      <4>1. Adjoin(0, C, C + W)
        BY <1>1, <3>1, PartsAdjoin, Zenon
      <4> QED BY <4>1, Zenon DEF Adjoin
    <3>3. MacBytes(0, C + W) \o MacBytes(C + W, top) = MacBytes(0, top)
      <4>1. Adjoin(0, C + W, top)
        BY <1>11, <3>1, PartsAdjoin, Zenon
      <4> QED BY <4>1, Zenon DEF Adjoin
    <3> HIDE DEF top, data
    <3>4. new.chain = (s.chain \o Slice(word, 0, W)) \o Slice(data, taken, bulk)
      BY <1>4, <2>1
    <3>5. Slice(word, 0, W) = MacBytes(C, C + W)
      <4>1. Waiting(word, C, W)
        BY <1>10, <2>1 DEF Waiting
      <4>2. 2 * W \in Nat /\ W \in 0 .. 2 * W
        BY <1>1
      <4> QED BY <1>1, <1>10, <4>1, <4>2, WaitingIs
    <3> QED BY <1>1, <1>8, <2>1, <3>1, <3>2, <3>3, <3>4, <3>5
  <2>2. CASE ~fills
    <3>1. /\ 0 \in Nat /\ 0 <= C /\ top = C + bulk /\ n + taken = n
      BY <1>1, <1>7, <2>2
    <3>2. MacBytes(0, C) \o <<>> = MacBytes(0, C)
      BY <1>1, <3>1, NoMacBytes
    <3>3. MacBytes(0, C) \o MacBytes(n, n + bulk) = MacBytes(0, top)
      <4>1. CASE b = 0
        <5>1. n = C /\ C <= C + bulk /\ C + bulk \in Nat
          BY <1>1, <1>7, <4>1
        <5>2. MacBytes(0, C) \o MacBytes(C, C + bulk) = MacBytes(0, C + bulk)
          <6>1. Adjoin(0, C, C + bulk)
            BY <1>1, <3>1, <5>1, PartsAdjoin, Zenon
          <6> QED BY <6>1, Zenon DEF Adjoin
        <5> QED BY <3>1, <5>1, <5>2
      <4>2. CASE b # 0
        <5>1. bulk = 0 /\ n + 0 = n /\ C + 0 = C
          BY <1>1, <1>6, <2>2, <4>2
        <5>2. MacBytes(n, n) = <<>>
          BY NoMacBytes
        <5> HIDE DEF top
        <5> QED BY <3>1, <3>2, <5>1, <5>2
      <4> QED BY <4>1, <4>2
    <3> HIDE DEF top, data
    <3>4. new.chain = (s.chain \o <<>>) \o Slice(data, taken, bulk)
      BY <1>4, <2>2
    <3> QED BY <1>1, <1>8, <3>1, <3>2, <3>3, <3>4
  <2> QED BY <2>1, <2>2
<1>13. /\ new.buffer \in [1 .. 2 * W -> MacByteSet]
       /\ \A i \in 1 .. from + (rest - bulk) : new.buffer[i] = Atom("data", top + i, 0)
       /\ \A i \in W + 1 .. 2 * W : new.buffer[i] = ZeroByte
  <2> DEFINE Z == 2 * W
  <2>1. from + Len(tail) <= W /\ from + Len(tail) <= Z /\ Z \in Nat /\ W <= Z
    BY <1>1, <1>6, <1>9
  <2>2. word \in [1 .. Z -> MacByteSet] /\ tail \in Seq(MacByteSet) /\ from \in Nat
    BY <1>7, <1>9, <1>10
  <2>3. new.buffer = CopyTo(word, from, tail)
    BY <1>4
  <2> HIDE DEF Z
  <2>4. /\ CopyTo(word, from, tail) \in [1 .. Z -> MacByteSet]
        /\ \A i \in 1 .. Z : i > from /\ i <= from + Len(tail) => CopyTo(word, from, tail)[i] = tail[i - from]
        /\ \A i \in 1 .. Z : ~(i > from /\ i <= from + Len(tail)) => CopyTo(word, from, tail)[i] = word[i]
    <3>1. Copied(Z, word, from, tail)
      BY <2>1, <2>2, CopyMakes, Zenon
    <3> QED BY <3>1, Zenon DEF Copied
  <2>5. ASSUME NEW i \in 1 .. from + (rest - bulk)
        PROVE  new.buffer[i] = Atom("data", top + i, 0)
    <3>1. i \in 1 .. Z
      BY <1>1, <1>6, <1>7, <2>1
    <3>2. CASE i > from
      <4>1. i - from \in 1 .. rest - bulk /\ i <= from + Len(tail) /\ n + taken + bulk + (i - from) = top + i
        BY <1>7, <1>9, <1>11, <3>2
      <4> QED BY <1>9, <2>3, <2>4, <3>1, <3>2, <4>1
    <3>3. CASE ~(i > from)
      <4>1. top = C /\ ~fills /\ i \in 1 .. b
        BY <1>7, <1>11, <3>3
      <4> QED BY <1>10, <2>3, <2>4, <3>1, <3>3, <4>1
    <3> QED BY <3>2, <3>3
  <2>6. \A i \in W + 1 .. 2 * W : new.buffer[i] = ZeroByte
    <3>1. \A i \in W + 1 .. 2 * W : i \in 1 .. Z /\ ~(i <= from + Len(tail))
      BY <1>1, <1>7, <1>9, <2>1 DEF Z
    <3> QED BY <1>10, <2>3, <2>4, <3>1
  <2> QED BY <2>3, <2>4, <2>5, <2>6 DEF Z
<1>14. MacBytes(0, top) \in Seq(MacByteSet) /\ Len(MacBytes(0, top)) = top
  <2>1. 0 \in Nat /\ 0 <= top /\ top - 0 = top
    BY <1>11
  <2> HIDE DEF top
  <2> QED BY <1>11, <2>1, MacBytesAre
<1> HIDE DEF top
<1>15. new \in MarvinStates
  <2>1. new = [chain |-> new.chain, buffer |-> new.buffer, dataLength |-> new.dataLength]
    BY <1>4
  <2>2. /\ new.chain \in Seq(MacByteSet) /\ new.buffer \in [1 .. 2 * MarvinWord -> MacByteSet]
        /\ new.dataLength \in 0 .. MarvinRange - 1
    BY <1>5, <1>12, <1>13, <1>14 DEF W, R
  <2> QED BY <2>1, <2>2 DEF MarvinStates
<1>16. MarvinHolds(new, n + cb)
  <2>1. Len(new.chain) = top
    BY <1>12, <1>14
  <2>2. (n + cb) - top = from + (rest - bulk)
    BY <1>6, <1>7, <1>11
  <2> QED BY <1>5, <1>6, <1>11, <1>12, <1>13, <2>1, <2>2 DEF MarvinHolds, Waiting, W, R
<1> QED BY <1>15, <1>16 DEF new

(* The checksum of a state that holds a message is that of the code which  *)
(* does the whole message in one call.                                     *)
LEMMA MarvinTagRight ==
  ASSUME NEW s \in MarvinStates, NEW n \in Nat, MarvinHolds(s, n)
  PROVE  MarvinTag(s) = Marvin32(MacBytes(0, n))
<1> DEFINE W == MarvinWord
           C == Len(s.chain)
           b == n - C
           old == s.buffer
           data == MacBytes(0, n)
           pairs == RoundDown(n, 2 * W)
           one == IF n - pairs >= W THEN W ELSE 0
           tail == n - pairs - one
           H == MacBytes(C, n)
           E == <<Mac80>>
           Y == Zeroes(W - b - 1)
           Z == Zeroes(W)
           P == CopyTo(CopyTo(old, b, Z), b, E)
           S2 == 2 * W
<1>1. /\ W \in Nat \ {0} /\ b \in 0 .. W - 1 /\ C \in Nat /\ n = C + b /\ b \in Nat /\ S2 \in Nat /\ W <= S2
      /\ old \in [1 .. S2 -> MacByteSet] /\ s.chain = MacBytes(0, C) /\ C % W = 0
      /\ \A i \in 1 .. b : old[i] = Atom("data", C + i, 0)
      /\ \A i \in W + 1 .. S2 : old[i] = ZeroByte
      /\ s.dataLength = n % MarvinRange
  BY MacAssumption, LenProperties DEF MarvinStates, MarvinHolds, Waiting
<1>2. Len(data) = n
  <2>1. 0 \in Nat /\ 0 <= n /\ n - 0 = n
    OBVIOUS
  <2> QED BY <2>1, MacBytesAre
<1>3. s.dataLength % W = b
  <2> HIDE DEF C
  <2> QED BY <1>1, MarvinCount DEF W
<1>4. MarvinTag(s) = MacBytes(0, C) \o P
  <2> HIDE DEF b, C
  <2> QED BY <1>1, <1>3 DEF MarvinTag
<1>5. /\ pairs \in Nat /\ one \in Nat /\ tail = b /\ pairs + one + tail = n
  <2> DEFINE q == n \div S2
             r == n % S2
             c == C \div W
  <2>1. q \in Nat /\ r \in 0 .. S2 - 1 /\ n = q * S2 + r
    <3>1. S2 \in Nat \ {0}
      BY <1>1
    <3> HIDE DEF S2
    <3> QED BY <3>1, Division
  <2>2. pairs = n - r
    BY DEF RoundDown
  <2>3. c \in Nat /\ C = c * W + (C % W)
    BY <1>1, Division
  <2>4. n = c * W + b
    <3> HIDE DEF c, b, C
    <3>1. c * W \in Nat
      BY <1>1, <2>3
    <3>2. C = c * W
      BY <1>1, <2>3, <3>1
    <3> QED BY <1>1, <3>1, <3>2
  <2>5. n % W = b
    <3> HIDE DEF c, b, C
    <3>1. ASSUME NEW a \in Nat, NEW e \in 0 .. W - 1, a = c * W + e PROVE a % W = e
      <4>1. DividesTo(a, W, c, e)
        BY <1>1, <2>3, <3>1, DivisionNamed, Zenon
      <4> QED BY <4>1, Zenon DEF DividesTo
    <3> QED BY <1>1, <2>4, <3>1
  <2> HIDE DEF q, r, b, C, c
  <2>6. q * S2 \in Nat /\ q * S2 = (2 * q) * W /\ pairs = q * S2
    <3>1. q * S2 \in Nat
      BY <1>1, <2>1, SMTT(20)
    <3>2. q * S2 = (2 * q) * W
      BY <1>1, <2>1
    <3> HIDE DEF S2, pairs
    <3> QED BY <1>1, <2>1, <2>2, <3>1, <3>2
  <2>7. \A a \in Nat, e \in 0 .. W - 1 : n = a * W + e => n % W = e
    BY <1>1, DivisionUnique, ZenonT(40)
  <2>8. CASE r >= W
    <3>1. n - pairs = r /\ one = W /\ tail = r - W /\ r - W \in 0 .. W - 1
      BY <1>1, <2>1, <2>2, <2>6, <2>8
    <3>2. n = (2 * q + 1) * W + (r - W) /\ 2 * q + 1 \in Nat
      BY <1>1, <2>1, <2>6
    <3>3. n % W = r - W
      BY <2>7, <3>1, <3>2
    <3> HIDE DEF pairs, one, tail, W
    <3> QED BY <1>1, <2>1, <2>2, <2>5, <2>6, <3>1, <3>3
  <2>9. CASE ~(r >= W)
    <3>1. n - pairs = r /\ one = 0 /\ tail = r /\ r \in 0 .. W - 1
      BY <1>1, <2>1, <2>2, <2>6, <2>9
    <3>2. n = (2 * q) * W + r /\ 2 * q \in Nat
      BY <1>1, <2>1, <2>6
    <3>3. n % W = r
      BY <2>7, <3>1, <3>2
    <3> HIDE DEF pairs, one, tail, W
    <3> QED BY <1>1, <2>1, <2>2, <2>5, <2>6, <3>1, <3>3
  <2> QED BY <2>8, <2>9
<1>6. Marvin32(data) = ((((Slice(data, 0, pairs) \o Slice(data, pairs, one)) \o Slice(data, pairs + one, tail))
                          \o E) \o Zeroes(W - tail - 1)) \o Z
  BY <1>2 DEF Marvin32
<1> HIDE DEF pairs, one, tail, C, b, old, S2
<1>7. (Slice(data, 0, pairs) \o Slice(data, pairs, one)) \o Slice(data, pairs + one, tail) = data
  <2>1. /\ 0 \in Nat /\ 0 + 0 + pairs <= n /\ 0 + pairs + one <= n /\ pairs + one \in Nat
        /\ 0 + (pairs + one) + tail <= n /\ 0 + (pairs + one) + tail = n /\ 0 + 0 = 0 /\ 0 + 0 + pairs = pairs
        /\ 0 + pairs = pairs /\ 0 + (pairs + one) = pairs + one /\ 0 + pairs + one = pairs + one /\ tail \in Nat
        /\ 0 <= pairs /\ pairs <= pairs + one /\ 0 <= pairs + one /\ pairs + one <= n
    BY <1>1, <1>5
  <2>2. Slice(data, 0, pairs) = MacBytes(0 + 0, 0 + 0 + pairs)
    BY <1>5, <2>1, MacBytesPart
  <2>3. Slice(data, pairs, one) = MacBytes(0 + pairs, 0 + pairs + one)
    BY <1>5, <2>1, MacBytesPart
  <2>4. Slice(data, pairs + one, tail) = MacBytes(0 + (pairs + one), 0 + (pairs + one) + tail)
    BY <1>5, <2>1, MacBytesPart
  <2>5. MacBytes(0, pairs) \o MacBytes(pairs, pairs + one) = MacBytes(0, pairs + one)
    <3>1. Adjoin(0, pairs, pairs + one)
      BY <1>5, <2>1, PartsAdjoin, Zenon
    <3> QED BY <3>1, Zenon DEF Adjoin
  <2>6. MacBytes(0, pairs + one) \o MacBytes(pairs + one, n) = MacBytes(0, n)
    <3>1. Adjoin(0, pairs + one, n)
      BY <1>5, <2>1, PartsAdjoin, Zenon
    <3> QED BY <3>1, Zenon DEF Adjoin
  <2> HIDE DEF data
  <2>7. /\ Slice(data, 0, pairs) = MacBytes(0, pairs)
        /\ Slice(data, pairs, one) = MacBytes(pairs, pairs + one)
        /\ Slice(data, pairs + one, tail) = MacBytes(pairs + one, n)
    BY <2>1, <2>2, <2>3, <2>4
  <2> QED BY <2>5, <2>6, <2>7 DEF data
<1>8. data = MacBytes(0, C) \o H
  <2>1. 0 \in Nat /\ 0 <= C /\ C <= n
    BY <1>1
  <2>0. Adjoin(0, C, n)
    BY <1>1, <2>1, PartsAdjoin, Zenon
  <2> QED BY <2>0, Zenon DEF Adjoin
<1>9. /\ H \in Seq(MacByteSet) /\ Len(H) = b /\ \A i \in 1 .. b : H[i] = Atom("data", C + i, 0)
  <2>1. C <= n /\ n - C = b
    BY <1>1
  <2>2. H \in Seq(MacByteSet) /\ Len(H) = n - C /\ \A i \in 1 .. n - C : H[i] = Atom("data", C + i, 0)
    BY <1>1, <2>1, MacBytesAre
  <2> HIDE DEF H
  <2> QED BY <2>1, <2>2, Zenon
<1>10. MacBytes(0, C) \in Seq(MacByteSet)
  <2>1. 0 \in Nat /\ 0 <= C
    BY <1>1
  <2> QED BY <1>1, <2>1, MacBytesAre
<1>11. E \in Seq(MacByteSet) /\ Len(E) = 1 /\ E[1] = Mac80
  BY Mac80Is
<1>12. /\ Y \in Seq(MacByteSet) /\ Len(Y) = W - b - 1 /\ \A i \in 1 .. W - b - 1 : Y[i] = ZeroByte
       /\ Z \in Seq(MacByteSet) /\ Len(Z) = W /\ \A i \in 1 .. W : Z[i] = ZeroByte
  <2>1. W - b - 1 \in Nat /\ W \in Nat
    BY <1>1
  <2> QED BY <2>1, ZeroesAre
<1> HIDE DEF data, H, E, Y, Z
<1> DEFINE h1 == H \o E
           h2 == h1 \o Y
           h3 == h2 \o Z
<1>13. /\ h1 \in Seq(MacByteSet) /\ Len(h1) = b + 1
       /\ \A i \in 1 .. b + 1 : h1[i] = IF i <= b THEN H[i] ELSE Mac80
  <2>1. /\ h1 \in Seq(MacByteSet) /\ Len(h1) = Len(H) + Len(E)
        /\ \A i \in 1 .. Len(H) + Len(E) : h1[i] = IF i <= Len(H) THEN H[i] ELSE E[i - Len(H)]
    BY <1>9, <1>11, ConcatProperties
  <2> HIDE DEF h1
  <2>2. \A i \in 1 .. b + 1 : i \in 1 .. Len(H) + Len(E) /\ (~(i <= b) => i - Len(H) = 1)
    BY <1>1, <1>9, <1>11
  <2> QED BY <1>9, <1>11, <2>1, <2>2
<1> HIDE DEF h1
<1>14. /\ h2 \in Seq(MacByteSet) /\ Len(h2) = W
       /\ \A i \in 1 .. W : h2[i] = IF i <= b + 1 THEN h1[i] ELSE ZeroByte
  <2>1. /\ h2 \in Seq(MacByteSet) /\ Len(h2) = Len(h1) + Len(Y)
        /\ \A i \in 1 .. Len(h1) + Len(Y) : h2[i] = IF i <= Len(h1) THEN h1[i] ELSE Y[i - Len(h1)]
    BY <1>12, <1>13, ConcatProperties
  <2> HIDE DEF h2
  <2>2. Len(h1) + Len(Y) = W
    BY <1>1, <1>12, <1>13
  <2>3. \A i \in 1 .. W : i \in 1 .. Len(h1) + Len(Y) /\ (~(i <= b + 1) => i - Len(h1) \in 1 .. W - b - 1)
    BY <1>1, <1>12, <1>13
  <2> QED BY <1>12, <1>13, <2>1, <2>2, <2>3
<1> HIDE DEF h2
<1>15. /\ h3 \in Seq(MacByteSet) /\ Len(h3) = S2
       /\ \A i \in 1 .. S2 : h3[i] = IF i <= W THEN h2[i] ELSE ZeroByte
  <2>1. /\ h3 \in Seq(MacByteSet) /\ Len(h3) = Len(h2) + Len(Z)
        /\ \A i \in 1 .. Len(h2) + Len(Z) : h3[i] = IF i <= Len(h2) THEN h2[i] ELSE Z[i - Len(h2)]
    BY <1>12, <1>14, ConcatProperties
  <2> HIDE DEF h3
  <2>2. Len(h2) + Len(Z) = S2
    BY <1>1, <1>12, <1>14 DEF S2
  <2>3. \A i \in 1 .. S2 : i \in 1 .. Len(h2) + Len(Z) /\ (~(i <= W) => i - Len(h2) \in 1 .. W)
    BY <1>1, <1>12, <1>14 DEF S2
  <2> QED BY <1>12, <1>14, <2>1, <2>2, <2>3
<1> HIDE DEF h3
<1>16. P = h3
  <2> DEFINE Q == CopyTo(old, b, Z)
  <2>1. b + Len(Z) <= S2 /\ b + Len(E) <= S2
    BY <1>1, <1>11, <1>12 DEF S2
  <2>2. /\ Q \in [1 .. S2 -> MacByteSet]
        /\ \A i \in 1 .. S2 : i > b /\ i <= b + Len(Z) => Q[i] = Z[i - b]
        /\ \A i \in 1 .. S2 : ~(i > b /\ i <= b + Len(Z)) => Q[i] = old[i]
    <3>1. S2 \in Nat /\ b \in Nat /\ Z \in Seq(MacByteSet) /\ old \in [1 .. S2 -> MacByteSet]
      BY <1>1, <1>12
    <3>0. Copied(S2, old, b, Z)
      BY <2>1, <3>1, CopyMakes, Zenon
    <3> QED BY <3>0, Zenon DEF Copied
  <2> HIDE DEF Q
  <2>3. /\ CopyTo(Q, b, E) \in [1 .. S2 -> MacByteSet]
        /\ \A i \in 1 .. S2 : i > b /\ i <= b + Len(E) => CopyTo(Q, b, E)[i] = E[i - b]
        /\ \A i \in 1 .. S2 : ~(i > b /\ i <= b + Len(E)) => CopyTo(Q, b, E)[i] = Q[i]
    <3>1. S2 \in Nat /\ b \in Nat /\ E \in Seq(MacByteSet)
      BY <1>1, <1>11
    <3>0. Copied(S2, Q, b, E)
      BY <2>1, <2>2, <3>1, CopyMakes, Zenon
    <3> QED BY <3>0, Zenon DEF Copied
  <2>4. P = CopyTo(Q, b, E)
    BY DEF Q
  <2> HIDE DEF P
  <2>5. ASSUME NEW i \in 1 .. S2 PROVE P[i] = h3[i]
    <3>1. CASE i <= b
      <4>1. i \in 1 .. b /\ ~(i > b) /\ i <= W /\ i \in 1 .. W /\ i <= b + 1 /\ i \in 1 .. b + 1
        BY <1>1, <3>1
      <4>2. P[i] = old[i]
        BY <2>2, <2>3, <2>4, <4>1
      <4>3. h3[i] = H[i]
        BY <1>13, <1>14, <1>15, <3>1, <4>1
      <4> QED BY <1>1, <1>9, <4>1, <4>2, <4>3
    <3>2. CASE i = b + 1
      <4>1. i > b /\ i <= b + Len(E) /\ i - b = 1 /\ i <= W /\ i \in 1 .. W /\ i <= b + 1 /\ ~(i <= b) /\ i \in 1 .. b + 1
        BY <1>1, <1>11, <3>2
      <4>2. P[i] = Mac80
        BY <1>11, <2>3, <2>4, <4>1
      <4>3. h3[i] = Mac80
        BY <1>13, <1>14, <1>15, <4>1
      <4> QED BY <4>2, <4>3
    <3>3. CASE i > b + 1
      <4>1. /\ i > b /\ ~(i <= b + Len(E)) /\ ~(i <= b + 1)
            /\ (i <= b + Len(Z) => i - b \in 1 .. W) /\ (~(i <= b + Len(Z)) => i \in W + 1 .. S2)
            /\ (i <= W => i \in 1 .. W)
        BY <1>1, <1>11, <1>12, <3>3, SMTT(20)
      <4>2. P[i] = Q[i]
        BY <2>3, <2>4, <4>1
      <4>3. Q[i] = ZeroByte
        <5>1. CASE i <= b + Len(Z)
          BY <1>12, <2>2, <4>1, <5>1
        <5>2. CASE ~(i <= b + Len(Z))
          BY <1>1, <2>2, <4>1, <5>2
        <5> QED BY <5>1, <5>2
      <4>4. h3[i] = ZeroByte
        BY <1>14, <1>15, <4>1
      <4> QED BY <4>2, <4>3, <4>4
    <3> QED BY <1>1, <3>1, <3>2, <3>3
  <2>6. P \in [1 .. S2 -> MacByteSet]
    BY <2>3, <2>4
  <2>7. h3 \in [1 .. S2 -> MacByteSet]
    BY <1>15, LenProperties
  <2>8. P = [i \in 1 .. S2 |-> P[i]] /\ h3 = [i \in 1 .. S2 |-> h3[i]]
    BY <2>6, <2>7
  <2>9. [i \in 1 .. S2 |-> P[i]] = [i \in 1 .. S2 |-> h3[i]]
    BY <2>5
  <2> QED BY <2>8, <2>9, Zenon
<1>17. Marvin32(data) = MacBytes(0, C) \o h3
  <2> DEFINE K == MacBytes(0, C)
  <2>1. K \in Seq(MacByteSet)
    BY <1>10
  <2> HIDE DEF K
  <2>2. Regroups(K, H, E) /\ Regroups(K, h1, Y) /\ Regroups(K, h2, Z)
    <3>1. H \in Seq(MacByteSet) /\ E \in Seq(MacByteSet) /\ Y \in Seq(MacByteSet) /\ Z \in Seq(MacByteSet)
      BY <1>9, <1>11, <1>12
    <3>2. h1 \in Seq(MacByteSet) /\ h2 \in Seq(MacByteSet)
      BY <1>13, <1>14
    <3> QED BY <2>1, <3>1, <3>2, MacRegroup, Zenon
  <2>3. (K \o H) \o E = K \o h1 /\ (K \o h1) \o Y = K \o h2 /\ (K \o h2) \o Z = K \o h3
    BY <2>2, Zenon DEF Regroups, h1, h2, h3
  <2>5. Marvin32(data) = ((data \o E) \o Y) \o Z
    BY <1>5, <1>6, <1>7 DEF Y
  <2>6. data = K \o H
    BY <1>8 DEF K
  <2> QED BY <2>3, <2>5, <2>6 DEF K
<1> QED BY <1>4, <1>16, <1>17 DEF data
-----------------------------------------------------------------------------
(* A state that has taken nothing holds the empty message, whatever its    *)
(* buffer has kept: SymCryptAesCmacInit does not clear it.                 *)
LEMMA CmacNothingHeld ==
  ASSUME NEW s \in CmacStates, s.chain = <<>>, s.bytesInBuf = 0
  PROVE  CmacHolds(s, 0)
<1>1. MacBytes(0, 0) = <<>>
  <2>1. 0 \in Nat
    OBVIOUS
  <2> QED BY <2>1, NoMacBytes
<1>2. Len(<<>>) = 0 /\ 0 % CmacBlock = 0
  BY MacAssumption
<1> QED BY <1>1, <1>2 DEF CmacHolds, Waiting

(* The same for Marvin32, which needs the zeroes behind its first word.    *)
LEMMA MarvinNothingHeld ==
  ASSUME NEW s \in MarvinStates, s.chain = <<>>, s.dataLength = 0,
         \A i \in MarvinWord + 1 .. 2 * MarvinWord : s.buffer[i] = ZeroByte
  PROVE  MarvinHolds(s, 0)
<1>1. MacBytes(0, 0) = <<>>
  <2>1. 0 \in Nat
    OBVIOUS
  <2> QED BY <2>1, NoMacBytes
<1>2. Len(<<>>) = 0 /\ 0 % MarvinWord = 0 /\ 0 % MarvinRange = 0 /\ 0 - 0 \in 0 .. MarvinWord - 1
  BY MacAssumption
<1> QED BY <1>1, <1>2 DEF MarvinHolds, Waiting

(* The memory of a new state is of bytes.                                  *)
LEMMA StaleAre == ASSUME NEW n \in Nat PROVE StaleBytes(n) \in [1 .. n -> MacByteSet]
<1>1. ASSUME NEW i \in 1 .. n PROVE Atom("stale", 0, i) \in MacByteSet
  <2>1. i \in Int /\ 0 \in Int
    OBVIOUS
  <2> QED BY <2>1, AtomIs, Zenon
<1> QED BY <1>1 DEF StaleBytes

(* SymCryptAesCmacInit, and SymCryptAesCmacResult that starts again.       *)
LEMMA CmacStartHolds ==
  ASSUME NEW s \in CmacStates
  PROVE  /\ CmacInitState(s) \in CmacStates /\ CmacHolds(CmacInitState(s), 0)
         /\ CmacResultState(s) \in CmacStates /\ CmacHolds(CmacResultState(s), 0)
<1>1. CmacBlock \in Nat /\ 0 \in 0 .. CmacBlock /\ <<>> \in Seq(MacByteSet)
  BY MacAssumption
<1>2. Zeroes(CmacBlock) \in [1 .. CmacBlock -> MacByteSet]
  BY <1>1, ZeroesAre, LenProperties
<1>3. /\ CmacInitState(s) \in CmacStates
      /\ CmacInitState(s).chain = <<>> /\ CmacInitState(s).bytesInBuf = 0
  BY <1>1 DEF CmacInitState, CmacStates
<1>4. /\ CmacResultState(s) \in CmacStates
      /\ CmacResultState(s).chain = <<>> /\ CmacResultState(s).bytesInBuf = 0
  BY <1>1, <1>2 DEF CmacResultState, CmacStates
<1> QED BY <1>3, <1>4, CmacNothingHeld

(* SymCryptMarvin32Init wipes the second half of whatever was there;       *)
(* SymCryptMarvin32Result writes a word of zeroes behind the data and one  *)
(* over the first half, which leaves the second half zero.                 *)
LEMMA MarvinInitHolds ==
  ASSUME NEW s \in MarvinStates
  PROVE  MarvinInitState(s) \in MarvinStates /\ MarvinHolds(MarvinInitState(s), 0)
<1> DEFINE W == MarvinWord
           S2 == 2 * W
           Z == Zeroes(W)
           old == s.buffer
           new == CopyTo(old, W, Z)
<1>1. W \in Nat /\ S2 \in Nat /\ W + W <= S2 /\ <<>> \in Seq(MacByteSet) /\ 0 \in 0 .. MarvinRange - 1
  BY MacAssumption
<1>2. Z \in Seq(MacByteSet) /\ Len(Z) = W /\ \A i \in 1 .. W : Z[i] = ZeroByte
  BY <1>1, ZeroesAre
<1>3. old \in [1 .. S2 -> MacByteSet]
  BY DEF MarvinStates
<1>4. MarvinInitState(s) = [chain |-> <<>>, dataLength |-> 0, buffer |-> new]
  BY DEF MarvinInitState
<1> HIDE DEF Z, old
<1>5. W + Len(Z) <= S2
  BY <1>1, <1>2
<1>6. /\ new \in [1 .. S2 -> MacByteSet]
      /\ \A i \in 1 .. S2 : i > W /\ i <= W + Len(Z) => new[i] = Z[i - W]
      /\ \A i \in 1 .. S2 : ~(i > W /\ i <= W + Len(Z)) => new[i] = old[i]
  <2>1. W \in Nat /\ S2 \in Nat /\ Z \in Seq(MacByteSet)
    BY <1>1, <1>2
  <2> HIDE DEF W, S2
  <2> QED BY <1>3, <1>5, <2>1, CopyToIs, Zenon
<1> HIDE DEF new
<1>7. ASSUME NEW i \in W + 1 .. S2 PROVE new[i] = ZeroByte
  <2>1. i \in 1 .. S2 /\ i > W /\ i <= W + Len(Z) /\ i - W \in 1 .. W
    BY <1>1, <1>2
  <2> QED BY <1>2, <1>6, <2>1
<1>8. MarvinInitState(s) \in MarvinStates
  BY <1>1, <1>4, <1>6 DEF MarvinStates
<1>9. \A i \in W + 1 .. S2 : MarvinInitState(s).buffer[i] = ZeroByte
  BY <1>4, <1>7
<1> QED BY <1>4, <1>8, <1>9, MarvinNothingHeld

(* The result leaves the state ready for the next message.                 *)
LEMMA MarvinResultHolds ==
  ASSUME NEW s \in MarvinStates, NEW n \in Nat, MarvinHolds(s, n)
  PROVE  MarvinResultState(s) \in MarvinStates /\ MarvinHolds(MarvinResultState(s), 0)
<1> DEFINE W == MarvinWord
           S2 == 2 * W
           Z == Zeroes(W)
           old == s.buffer
           b == s.dataLength % W
           mid == CopyTo(old, b, Z)
           new == CopyTo(mid, 0, Z)
<1>1. /\ W \in Nat \ {0} /\ S2 \in Nat /\ W + W <= S2 /\ <<>> \in Seq(MacByteSet)
      /\ 0 \in 0 .. MarvinRange - 1
  BY MacAssumption
<1>2. Z \in Seq(MacByteSet) /\ Len(Z) = W /\ \A i \in 1 .. W : Z[i] = ZeroByte
  BY <1>1, ZeroesAre
<1>3. old \in [1 .. S2 -> MacByteSet] /\ s.dataLength \in Nat /\ \A i \in W + 1 .. S2 : old[i] = ZeroByte
  BY MacAssumption DEF MarvinStates, MarvinHolds
<1>4. b \in 0 .. W - 1
  BY <1>1, <1>3
<1>5. MarvinResultState(s) = [chain |-> <<>>, dataLength |-> 0, buffer |-> new]
  BY DEF MarvinResultState
<1> HIDE DEF Z, old, b
<1>6. b + Len(Z) <= S2 /\ b \in Nat /\ 0 + Len(Z) <= S2 /\ 0 \in Nat
  BY <1>1, <1>2, <1>4
<1>7. /\ mid \in [1 .. S2 -> MacByteSet]
      /\ \A i \in 1 .. S2 : i > b /\ i <= b + Len(Z) => mid[i] = Z[i - b]
      /\ \A i \in 1 .. S2 : ~(i > b /\ i <= b + Len(Z)) => mid[i] = old[i]
  <2>1. /\ S2 \in Nat /\ Z \in Seq(MacByteSet) /\ old \in [1 .. S2 -> MacByteSet]
        /\ b \in Nat /\ b + Len(Z) <= S2
    BY <1>1, <1>2, <1>3, <1>6
  <2> HIDE DEF W, S2
  <2>0. Copied(S2, old, b, Z)
    BY <2>1, CopyMakes, Zenon
  <2> QED BY <2>0, Zenon DEF Copied
<1> HIDE DEF mid
<1>8. /\ new \in [1 .. S2 -> MacByteSet]
      /\ \A i \in 1 .. S2 : i > 0 /\ i <= 0 + Len(Z) => new[i] = Z[i - 0]
      /\ \A i \in 1 .. S2 : ~(i > 0 /\ i <= 0 + Len(Z)) => new[i] = mid[i]
  <2>1. S2 \in Nat /\ Z \in Seq(MacByteSet) /\ mid \in [1 .. S2 -> MacByteSet]
    BY <1>1, <1>2, <1>7
  <2> HIDE DEF W, S2
  <2>0. Copied(S2, mid, 0, Z)
    BY <1>6, <2>1, CopyMakes, Zenon
  <2> QED BY <2>0, Zenon DEF Copied
<1> HIDE DEF new
<1>9. ASSUME NEW i \in W + 1 .. S2 PROVE new[i] = ZeroByte
  <2>1. /\ i \in 1 .. S2 /\ i > b /\ ~(i <= 0 + Len(Z))
        /\ (i <= b + Len(Z) => i - b \in 1 .. W)
    BY <1>1, <1>2, <1>4
  <2>2. new[i] = mid[i]
    BY <1>8, <2>1
  <2>3. CASE i <= b + Len(Z)
    BY <1>2, <1>7, <2>1, <2>2, <2>3
  <2>4. CASE ~(i <= b + Len(Z))
    BY <1>3, <1>7, <2>1, <2>2, <2>4
  <2> QED BY <2>3, <2>4
<1>10. MarvinResultState(s) \in MarvinStates
  BY <1>1, <1>5, <1>8 DEF MarvinStates
<1>11. \A i \in W + 1 .. S2 : MarvinResultState(s).buffer[i] = ZeroByte
  BY <1>5, <1>9
<1> QED BY <1>5, <1>10, <1>11, MarvinNothingHeld
-----------------------------------------------------------------------------
(* Before the first Init no state holds a message.                         *)
LEMMA MacInitially == MacInit => MacInv
<1> SUFFICES ASSUME MacInit PROVE MacInv
  OBVIOUS
<1>1. CmacFresh \in CmacStates
  <2>1. CmacBlock \in Nat /\ 0 \in 0 .. CmacBlock /\ <<>> \in Seq(MacByteSet)
    BY MacAssumption
  <2>2. StaleBytes(CmacBlock) \in [1 .. CmacBlock -> MacByteSet]
    BY <2>1, StaleAre
  <2> QED BY <2>1, <2>2 DEF CmacFresh, CmacStates
<1>2. MarvinFresh \in MarvinStates
  <2>1. 2 * MarvinWord \in Nat /\ 0 \in 0 .. MarvinRange - 1 /\ <<>> \in Seq(MacByteSet)
    BY MacAssumption
  <2>2. StaleBytes(2 * MarvinWord) \in [1 .. 2 * MarvinWord -> MacByteSet]
    BY <2>1, StaleAre
  <2> QED BY <2>1, <2>2 DEF MarvinFresh, MarvinStates
<1>3. macLength \in [MacObjects -> Nat \cup {-1}] /\ \A o \in MacObjects : ~(macLength[o] >= 0)
  BY DEF MacInit
<1>4. \/ macAlg = "cmac" /\ macState \in [MacObjects -> CmacStates]
      \/ macAlg = "marvin32" /\ macState \in [MacObjects -> MarvinStates]
  BY <1>1, <1>2 DEF MacInit
<1> QED BY <1>3, <1>4 DEF MacInv

(* One object gets a state that holds its message.                         *)
LEMMA OneCmac ==
  ASSUME MacInv, macAlg = "cmac", NEW o \in MacObjects, NEW s \in CmacStates, NEW n \in Nat,
         CmacHolds(s, n), MacChange(o, s, n)
  PROVE  MacInv'
<1>1. /\ macLength \in [MacObjects -> Nat \cup {-1}] /\ macState \in [MacObjects -> CmacStates]
      /\ \A p \in MacObjects : macLength[p] >= 0 => CmacHolds(macState[p], macLength[p])
  BY DEF MacInv
<1>2. /\ macState' = [macState EXCEPT ![o] = s] /\ macLength' = [macLength EXCEPT ![o] = n]
      /\ macAlg' = "cmac"
  BY DEF MacChange
<1>3. macLength' \in [MacObjects -> Nat \cup {-1}] /\ macState' \in [MacObjects -> CmacStates]
  BY <1>1, <1>2
<1>4. ASSUME NEW p \in MacObjects, macLength'[p] >= 0 PROVE CmacHolds(macState'[p], macLength'[p])
  <2>1. CASE p = o
    <3>1. macState'[p] = s /\ macLength'[p] = n
      BY <1>1, <1>2, <2>1
    <3> QED BY <3>1
  <2>2. CASE p # o
    <3>1. macState'[p] = macState[p] /\ macLength'[p] = macLength[p]
      BY <1>1, <1>2, <2>2
    <3> QED BY <1>1, <1>4, <3>1
  <2> QED BY <2>1, <2>2
<1> QED BY <1>2, <1>3, <1>4 DEF MacInv

(* The same for Marvin32.                                                  *)
LEMMA OneMarvin ==
  ASSUME MacInv, macAlg = "marvin32", NEW o \in MacObjects, NEW s \in MarvinStates, NEW n \in Nat,
         MarvinHolds(s, n), MacChange(o, s, n)
  PROVE  MacInv'
<1>1. /\ macLength \in [MacObjects -> Nat \cup {-1}] /\ macState \in [MacObjects -> MarvinStates]
      /\ \A p \in MacObjects : macLength[p] >= 0 => MarvinHolds(macState[p], macLength[p])
  BY DEF MacInv
<1>2. /\ macState' = [macState EXCEPT ![o] = s] /\ macLength' = [macLength EXCEPT ![o] = n]
      /\ macAlg' = "marvin32"
  BY DEF MacChange
<1>3. macLength' \in [MacObjects -> Nat \cup {-1}] /\ macState' \in [MacObjects -> MarvinStates]
  BY <1>1, <1>2
<1>4. ASSUME NEW p \in MacObjects, macLength'[p] >= 0 PROVE MarvinHolds(macState'[p], macLength'[p])
  <2>1. CASE p = o
    <3>1. macState'[p] = s /\ macLength'[p] = n
      BY <1>1, <1>2, <2>1
    <3> QED BY <3>1
  <2>2. CASE p # o
    <3>1. macState'[p] = macState[p] /\ macLength'[p] = macLength[p]
      BY <1>1, <1>2, <2>2
    <3> QED BY <1>1, <1>4, <3>1
  <2> QED BY <2>1, <2>2
<1> QED BY <1>2, <1>3, <1>4 DEF MacInv

(* What the invariant says of one object.                                  *)
LEMMA CmacObject ==
  ASSUME MacInv, macAlg = "cmac", NEW o \in MacObjects
  PROVE  /\ macState[o] \in CmacStates
         /\ macLength[o] >= 0 => macLength[o] \in Nat /\ CmacHolds(macState[o], macLength[o])
  BY DEF MacInv

(* The same for Marvin32.                                                  *)
LEMMA MarvinObject ==
  ASSUME MacInv, macAlg = "marvin32", NEW o \in MacObjects
  PROVE  /\ macState[o] \in MarvinStates
         /\ macLength[o] >= 0 => macLength[o] \in Nat /\ MarvinHolds(macState[o], macLength[o])
  BY DEF MacInv

(* Every call of CMAC and of Marvin32 keeps what the states hold.          *)
LEMMA MacStep == MacInv /\ [MacNext]_macVars => MacInv'
<1> SUFFICES ASSUME MacInv, [MacNext]_macVars PROVE MacInv'
  OBVIOUS
<1>0. 0 \in Nat
  OBVIOUS
<1>1. ASSUME NEW o \in MacObjects, CmacInit(o) \/ CmacResult(o) PROVE MacInv'
  <2>1. macAlg = "cmac" /\ (MacChange(o, CmacInitState(macState[o]), 0) \/ MacChange(o, CmacResultState(macState[o]), 0))
    BY <1>1 DEF CmacInit, CmacResult, Started
  <2>2. macState[o] \in CmacStates
    BY <2>1, CmacObject
  <2>3. /\ CmacInitState(macState[o]) \in CmacStates /\ CmacHolds(CmacInitState(macState[o]), 0)
        /\ CmacResultState(macState[o]) \in CmacStates /\ CmacHolds(CmacResultState(macState[o]), 0)
    BY <2>2, CmacStartHolds
  <2> QED BY <1>0, <2>1, <2>3, OneCmac, Zenon
<1>2. ASSUME NEW o \in MacObjects, MarvinInit(o) PROVE MacInv'
  <2>1. macAlg = "marvin32" /\ MacChange(o, MarvinInitState(macState[o]), 0)
    BY <1>2 DEF MarvinInit
  <2>2. macState[o] \in MarvinStates
    BY <2>1, MarvinObject
  <2>3. MarvinInitState(macState[o]) \in MarvinStates /\ MarvinHolds(MarvinInitState(macState[o]), 0)
    BY <2>2, MarvinInitHolds
  <2> QED BY <1>0, <2>1, <2>3, OneMarvin, Zenon
<1>3. ASSUME NEW o \in MacObjects, MarvinResult(o) PROVE MacInv'
  <2>1. macAlg = "marvin32" /\ macLength[o] >= 0 /\ MacChange(o, MarvinResultState(macState[o]), 0)
    BY <1>3 DEF MarvinResult, Started
  <2>2. macState[o] \in MarvinStates /\ macLength[o] \in Nat /\ MarvinHolds(macState[o], macLength[o])
    BY <2>1, MarvinObject
  <2>3. MarvinResultState(macState[o]) \in MarvinStates /\ MarvinHolds(MarvinResultState(macState[o]), 0)
    BY <2>2, MarvinResultHolds
  <2> QED BY <1>0, <2>1, <2>3, OneMarvin, Zenon
<1>4. ASSUME NEW o \in MacObjects, NEW cb \in MacSizes, CmacAppend(o, cb) PROVE MacInv'
  <2> DEFINE n == macLength[o]
             new == CmacAppendState(macState[o], MacBytes(n, n + cb))
  <2>1. macAlg = "cmac" /\ n >= 0 /\ MacChange(o, new, n + cb)
    BY <1>4 DEF CmacAppend, Started
  <2>2. macState[o] \in CmacStates /\ n \in Nat /\ CmacHolds(macState[o], n)
    BY <2>1, CmacObject
  <2>3. cb \in Nat /\ n + cb \in Nat
    BY <2>2, MacAssumption
  <2>4. new \in CmacStates /\ CmacHolds(new, n + cb)
    BY <2>2, <2>3, CmacAppendHolds, Zenon
  <2> HIDE DEF n, new
  <2> QED BY <2>1, <2>3, <2>4, OneCmac, Zenon
<1>5. ASSUME NEW o \in MacObjects, NEW cb \in MacSizes, MarvinAppend(o, cb) PROVE MacInv'
  <2> DEFINE n == macLength[o]
             new == MarvinAppendState(macState[o], MacBytes(n, n + cb))
  <2>1. macAlg = "marvin32" /\ n >= 0 /\ MacChange(o, new, n + cb)
    BY <1>5 DEF MarvinAppend, Started
  <2>2. macState[o] \in MarvinStates /\ n \in Nat /\ MarvinHolds(macState[o], n)
    BY <2>1, MarvinObject
  <2>3. cb \in Nat /\ n + cb \in Nat
    BY <2>2, MacAssumption
  <2>4. new \in MarvinStates /\ MarvinHolds(new, n + cb)
    BY <2>2, <2>3, MarvinAppendHolds, Zenon
  <2> HIDE DEF n, new
  <2> QED BY <2>1, <2>3, <2>4, OneMarvin, Zenon
<1>6. ASSUME NEW o \in MacObjects, NEW p \in MacObjects \ {o}, CmacStateCopy(o, p) PROVE MacInv'
  <2>1. macAlg = "cmac" /\ macLength[o] >= 0 /\ MacChange(p, macState[o], macLength[o]) /\ p \in MacObjects
    BY <1>6 DEF CmacStateCopy, Started
  <2>2. macState[o] \in CmacStates /\ macLength[o] \in Nat /\ CmacHolds(macState[o], macLength[o])
    BY <2>1, CmacObject
  <2> QED BY <2>1, <2>2, OneCmac, Zenon
<1>7. ASSUME NEW o \in MacObjects, NEW p \in MacObjects \ {o}, MarvinStateCopy(o, p) PROVE MacInv'
  <2>1. macAlg = "marvin32" /\ macLength[o] >= 0 /\ MacChange(p, macState[o], macLength[o]) /\ p \in MacObjects
    BY <1>7 DEF MarvinStateCopy, Started
  <2>2. macState[o] \in MarvinStates /\ macLength[o] \in Nat /\ MarvinHolds(macState[o], macLength[o])
    BY <2>1, MarvinObject
  <2> QED BY <2>1, <2>2, OneMarvin, Zenon
<1>8. CASE UNCHANGED macVars
  BY <1>8 DEF macVars, MacInv
<1> QED BY <1>1, <1>2, <1>3, <1>4, <1>5, <1>6, <1>7, <1>8 DEF MacNext

(* What the invariant says of the results.                                 *)
LEMMA MacTagRight == MacInv => MacIsReference
<1> SUFFICES ASSUME MacInv, NEW o \in MacObjects, macLength[o] >= 0
             PROVE  IF macAlg = "cmac" THEN CmacTag(macState[o]) = CmacReference(MacBytes(0, macLength[o]))
                    ELSE MarvinTag(macState[o]) = Marvin32(MacBytes(0, macLength[o]))
  BY DEF MacIsReference
<1>1. CASE macAlg = "cmac"
  <2>1. macState[o] \in CmacStates /\ macLength[o] \in Nat /\ CmacHolds(macState[o], macLength[o])
    BY <1>1, CmacObject
  <2>2. CmacTag(macState[o]) = CmacReference(MacBytes(0, macLength[o]))
    BY <2>1, CmacTagRight, Zenon
  <2> QED BY <1>1, <2>2
<1>2. CASE macAlg # "cmac"
  <2>1. macAlg = "marvin32"
    BY <1>2 DEF MacInv
  <2>2. macState[o] \in MarvinStates /\ macLength[o] \in Nat /\ MarvinHolds(macState[o], macLength[o])
    BY <2>1, MarvinObject
  <2>3. MarvinTag(macState[o]) = Marvin32(MacBytes(0, macLength[o]))
    BY <2>2, MarvinTagRight, Zenon
  <2> QED BY <1>2, <2>3
<1> QED BY <1>1, <1>2

(* A CMAC or Marvin32 state holds the message since its Init or its last   *)
(* Result, for any block and word size and any sizes of the appends, and   *)
(* whatever SymCryptAesCmacInit or a copy has left in the buffer.          *)
THEOREM MacInvariance == MacSpec => []MacInv
  BY MacInitially, MacStep, PTL DEF MacSpec

(* In all that the objects do that take a message in parts, the result of  *)
(* an HMAC, a CMAC or a Marvin32 state is at any time that of the standard *)
(* (for Marvin32: of SymCryptMarvin32 on the message in one call).         *)
THEOREM MessagesMacsAreReference == MCMessagesSpec => []MacsAreReference
<1>1. MCMessagesInit => HmacInv /\ MacInv
  BY HmacInitially, MacInitially DEF MCMessagesInit
<1>2. /\ HmacInv /\ MacInv
      /\ [MCMessagesNext]_<<part, objectVars, hmacVars, macVars, modeVars, vars>>
      => HmacInv' /\ MacInv'
  <2>1. [MCMessagesNext]_<<part, objectVars, hmacVars, macVars, modeVars, vars>>
        => [HmacNext]_hmacVars /\ [MacNext]_macVars
    BY DEF MCMessagesNext
  <2> QED BY <2>1, HmacStep, MacStep
<1>3. HmacInv /\ MacInv => MacsAreReference
  BY HmacTagRight, MacTagRight DEF MacsAreReference
<1> QED BY <1>1, <1>2, <1>3, PTL DEF MCMessagesSpec
=============================================================================
