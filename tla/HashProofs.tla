------------------------------- MODULE HashProofs -------------------------------
(***************************************************************************)
(* For every block size, width of the length words, number of objects and  *)
(* sizes of the appends: a hash state holds its message, its result is the *)
(* standard's padded message, an exported blob holds nothing else, and     *)
(* HMAC is the standard's.  The argument: Holds(st, message) is kept by    *)
(* every operation, and determines the digest.                             *)
(***************************************************************************)
EXTENDS HmacState, SequenceTheorems, WellFoundedInduction, TLAPS

(* A set of natural numbers has a least element.                           *)
LEMMA LeastNatural ==
  ASSUME NEW S \in SUBSET Nat, S # {}
  PROVE  \E n \in S : \A m \in S : n <= m
<1>1. IsWellFoundedOn(OpToRel(<, Nat), Nat)
  BY NatLessThanWellFounded, Zenon
<1>2. PICK n \in S : \A m \in S : ~(<<m, n>> \in OpToRel(<, Nat))
  BY <1>1, WFMin, Zenon
<1>3. \A m \in S : ~(m < n)
  BY <1>2 DEF OpToRel
<1> QED BY <1>3

(* Quotient and remainder.                                                 *)
LEMMA Division ==
  ASSUME NEW a \in Nat, NEW b \in Nat \ {0}
  PROVE  a \div b \in Nat /\ a % b \in 0 .. b - 1 /\ a = (a \div b) * b + (a % b)
<1>1. a % b \in 0 .. b - 1
  OBVIOUS
<1>2. a \div b \in Int
  OBVIOUS
<1>3. a = b * (a \div b) + (a % b)
  BY SMTT(30)
<1>4. (a \div b) * b = b * (a \div b)
  BY <1>2
<1>5. a \div b \in Nat
  BY <1>1, <1>2, <1>3
<1> QED BY <1>1, <1>3, <1>4, <1>5

(* Quotient and remainder, named by what they satisfy.                     *)
LEMMA DivisionUnique ==
  ASSUME NEW a \in Nat, NEW b \in Nat \ {0}, NEW q \in Nat, NEW r \in 0 .. b - 1, a = q * b + r
  PROVE  a \div b = q /\ a % b = r
  OBVIOUS

(* The same as a predicate, which the provers match as a whole.            *)
DividesTo(a, b, q, r) == a \div b = q /\ a % b = r

LEMMA DivisionNamed ==
  ASSUME NEW a \in Nat, NEW b \in Nat \ {0}, NEW q \in Nat, NEW r \in 0 .. b - 1, a = q * b + r
  PROVE  DividesTo(a, b, q, r)
  BY DivisionUnique, Zenon DEF DividesTo

(* Multiples of the modulus do not count.                                  *)
LEMMA MultipleDropped ==
  ASSUME NEW b \in Nat \ {0}, NEW q \in Nat, NEW c \in Nat
  PROVE  (q * b + c) % b = c % b
<1> DEFINE e == c \div b
           r == c % b
<1>1. e \in Nat /\ r \in 0 .. b - 1 /\ c = e * b + r
  BY Division
<1> HIDE DEF e, r
<1>2. q * b + c = (q + e) * b + r /\ q + e \in Nat /\ q * b + c \in Nat
  BY <1>1
<1>3. (q * b + c) % b = r
  BY <1>1, <1>2, DivisionUnique
<1> QED BY <1>3 DEF r

(* A sum of two numbers below b, at least b.                               *)
LEMMA OneWrap ==
  ASSUME NEW b \in Nat \ {0}, NEW a \in Nat, a >= b, a < 2 * b
  PROVE  a % b = a - b
  OBVIOUS

(* Two numbers less than b apart that differ by a multiple of b are equal. *)
LEMMA SmallMultiple ==
  ASSUME NEW b \in Nat \ {0}, NEW q \in Int, q * b < b, q * b > -b
  PROVE  q = 0
  OBVIOUS
-----------------------------------------------------------------------------
(* dataLengthL and dataLengthH after cb more bytes: the test for the carry *)
(* is right as long as cb fits in a word.                                  *)
LEMMA LengthCounts ==
  ASSUME NEW st, NEW n \in Nat, NEW cb \in Words,
         st.dataLengthL = n % WordRange, st.dataLengthH = (n \div WordRange) % WordRange
  PROVE  /\ LengthL(st, cb) = (n + cb) % WordRange
         /\ LengthH(st, cb) = ((n + cb) \div WordRange) % WordRange
<1> DEFINE W == WordRange
           q == n \div W
           L == n % W
           k == q \div W
           H == q % W
<1>1. W \in Nat \ {0} /\ cb \in Nat /\ cb < W
  BY HashAssumption DEF Words
<1>2. q \in Nat /\ L \in 0 .. W - 1 /\ n = q * W + L
  BY <1>1, Division
<1>3. k \in Nat /\ H \in 0 .. W - 1 /\ q = k * W + H
  BY <1>1, <1>2, Division
<1>4. LengthL(st, cb) = (L + cb) % W
  BY DEF LengthL
<1>5. LengthH(st, cb) = IF (L + cb) % W < cb THEN (H + 1) % W ELSE H
  BY <1>4 DEF LengthH
<1> HIDE DEF W, q, L, k, H
<1>6. CASE L + cb < W
  <2>1. n + cb = q * W + (L + cb) /\ L + cb \in 0 .. W - 1 /\ n + cb \in Nat
    BY <1>1, <1>2, <1>6
  <2>2. (n + cb) \div W = q /\ (n + cb) % W = L + cb
    <3>1. /\ n + cb \in Nat /\ W \in Nat \ {0} /\ q \in Nat /\ L + cb \in 0 .. W - 1
          /\ n + cb = q * W + (L + cb)
      BY <1>1, <1>2, <2>1
    <3> QED BY <3>1, DivisionUnique, Zenon
  <2>3. (L + cb) % W = L + cb
    BY <1>1, <2>1
  <2>4. ~(L + cb < cb)
    BY <1>1, <1>2
  <2> QED BY <1>4, <1>5, <2>2, <2>3, <2>4 DEF W, H
<1>7. CASE L + cb >= W
  <2> DEFINE r == L + cb - W
  <2>1. /\ n + cb = (q + 1) * W + r /\ r \in 0 .. W - 1
        /\ n + cb \in Nat /\ L + cb \in Nat /\ q + 1 \in Nat
    BY <1>1, <1>2, <1>7
  <2>2. (n + cb) \div W = q + 1 /\ (n + cb) % W = L + cb - W
    <3> HIDE DEF r
    <3>1. \A a \in Nat, x \in Nat, y \in 0 .. W - 1 : a = x * W + y => a \div W = x /\ a % W = y
      BY <1>1, DivisionUnique
    <3>2. (n + cb) \div W = q + 1 /\ (n + cb) % W = r
      BY <2>1, <3>1
    <3> QED BY <3>2 DEF r
  <2>3. (L + cb) % W = L + cb - W
    <3>1. L + cb \in Nat /\ L + cb < 2 * W
      BY <1>1, <1>2
    <3>2. \A a \in Nat : a >= W /\ a < 2 * W => a % W = a - W
      BY <1>1, OneWrap
    <3> QED BY <1>1, <1>2, <1>7, <3>1, <3>2
  <2>4. L + cb - W < cb
    BY <1>1, <1>2
  <2>5. q + 1 = k * W + (H + 1) /\ H + 1 \in Nat
    BY <1>1, <1>3
  <2>6. (q + 1) % W = (H + 1) % W
    BY <1>1, <1>3, <2>5, MultipleDropped
  <2> QED BY <1>4, <1>5, <2>2, <2>3, <2>4, <2>6 DEF W
<1> QED BY <1>1, <1>2, <1>6, <1>7

(* The length in bits, from the two words.                                 *)
LEMMA LengthFieldIsBits ==
  ASSUME NEW st, NEW n \in Nat,
         st.dataLengthL = n % WordRange, st.dataLengthH = (n \div WordRange) % WordRange
  PROVE  LengthField(st) = BitLength(n)
<1> DEFINE W == WordRange
           w == W \div 8
           q == n \div W
           L == n % W
           k == q \div W
           H == q % W
           e == L \div w
           f == L % w
<1>1. W \in Nat \ {0} /\ W % 8 = 0
  BY HashAssumption
<1>2. w \in Nat \ {0} /\ W = w * 8
  BY <1>1
<1>3. q \in Nat /\ L \in 0 .. W - 1 /\ n = q * W + L
  BY <1>1, Division
<1>4. k \in Nat /\ H \in 0 .. W - 1 /\ q = k * W + H
  BY <1>1, <1>3, Division
<1>5. e \in Nat /\ f \in 0 .. w - 1 /\ L = e * w + f
  <2>1. L \in Nat
    BY <1>1, <1>3
  <2> HIDE DEF L, w
  <2> QED BY <1>2, <2>1, Division
<1> HIDE DEF W, w, q, L, k, H, e, f
<1>6. (L * 8) % W = (8 * n) % W
  <2>1. 8 * n = (8 * q) * W + L * 8 /\ 8 * q \in Nat /\ L * 8 \in Nat
    BY <1>1, <1>3
  <2>2. ((8 * q) * W + L * 8) % W = (L * 8) % W
    BY <1>1, <2>1, MultipleDropped
  <2> QED BY <2>1, <2>2
<1>7. (8 * n) \div W = 8 * q + e
  <2>1. 8 * L = e * W + 8 * f
    BY <1>2, <1>3, <1>5
  <2>2. 8 * n = (8 * q) * W + 8 * L
    BY <1>1, <1>3
  <2>3. (8 * q + e) * W = (8 * q) * W + e * W
    BY <1>1, <1>3, <1>5
  <2>4. 8 * n = (8 * q + e) * W + 8 * f /\ 8 * q + e \in Nat /\ 8 * n \in Nat
    BY <2>1, <2>2, <2>3, <1>1, <1>3, <1>5
  <2>5. 8 * f \in 0 .. W - 1
    BY <1>2, <1>5
  <2>6. \A a \in Nat, x \in Nat, r \in 0 .. W - 1 : a = x * W + r => a \div W = x
    BY <1>1, DivisionUnique
  <2>7. 8 * n \in Nat /\ 8 * q + e \in Nat
    BY <2>4
  <2> QED BY <2>4, <2>5, <2>6, <2>7
<1>8. (H * 8 + e) % W = (8 * q + e) % W
  <2>1. 8 * q + e = (8 * k) * W + (H * 8 + e) /\ 8 * k \in Nat /\ H * 8 + e \in Nat
    BY <1>1, <1>4, <1>5
  <2>2. ((8 * k) * W + (H * 8 + e)) % W = (H * 8 + e) % W
    BY <1>1, <2>1, MultipleDropped
  <2> QED BY <2>1, <2>2
<1>9. LengthField(st) = IF LengthWords = 1 THEN <<-2 - ((L * 8) % W)>>
                        ELSE <<-2 - ((H * 8 + e) % W), -2 - ((L * 8) % W)>>
  BY DEF LengthField, LengthWord, L, H, q, e, w, W
<1>10. BitLength(n) = IF LengthWords = 1 THEN <<-2 - ((8 * n) % W)>>
                      ELSE <<-2 - (((8 * n) \div W) % W), -2 - ((8 * n) % W)>>
  BY DEF BitLength, LengthWord, W
<1> QED BY <1>6, <1>7, <1>8, <1>9, <1>10

(* The zeroes of the standard's padding, from the bytes in the last block. *)
LEMMA PadZeroesIs ==
  ASSUME NEW n \in Nat, NEW c \in Nat, NEW b \in 0 .. InputBlockSize - 1,
         n = c * InputBlockSize + b
  PROVE  PadZeroes(n) = (IF b + 1 > InputBlockSize - LengthWords THEN 2 * InputBlockSize ELSE InputBlockSize)
                          - LengthWords - b - 1
<1> DEFINE B == InputBlockSize
           m == IF b + 1 > B - LengthWords THEN 2 ELSE 1
           z == m * B - LengthWords - b - 1
           P(k) == (n + 1 + k + LengthWords) % B = 0
<1>1. B \in Nat \ {0} /\ LengthWords \in {1, 2} /\ LengthWords < B /\ b \in 0 .. B - 1 /\ n = c * B + b
  BY HashAssumption
<1>2. z \in 0 .. B - 1 /\ m \in {1, 2}
  BY <1>1
<1>3. z = (IF b + 1 > B - LengthWords THEN 2 * B ELSE B) - LengthWords - b - 1
  BY <1>1
<1> HIDE DEF B, m
<1>4. P(z)
  <2>1. n + 1 + z + LengthWords = (c + m) * B + 0 /\ c + m \in Nat /\ 0 \in 0 .. B - 1
    BY <1>1, <1>2
  <2>2. n + 1 + z + LengthWords \in Nat
    BY <1>1, <1>2
  <2> HIDE DEF z
  <2> QED BY <1>1, <2>1, <2>2, DivisionUnique
<1>5. \A k \in 0 .. B - 1 : P(k) => k = z
  <2> TAKE k \in 0 .. B - 1
  <2> HAVE P(k)
  <2> DEFINE a == n + 1 + k + LengthWords
             d == a \div B
  <2>1. a \in Nat
    BY <1>1
  <2>2. d \in Nat /\ a = d * B + (a % B)
    BY <1>1, <2>1, Division
  <2>3. a = d * B
    BY <1>1, <2>2
  <2> HIDE DEF d
  <2> DEFINE x == d - c - m
  <2>4. k - z = x * B
    <3>1. x * B = d * B - c * B - m * B
      BY <1>1, <1>2, <2>2
    <3>2. d * B \in Int /\ c * B \in Int /\ m * B \in Int
      BY <1>1, <1>2, <2>2
    <3>3. \A dB, cB, mB \in Int : dB = n + 1 + k + LengthWords /\ n = cB + b
            => k - (mB - LengthWords - b - 1) = dB - cB - mB
      BY <1>1
    <3> HIDE DEF x
    <3> QED BY <1>1, <2>3, <3>1, <3>2, <3>3
  <2>5. k - z < B /\ k - z > -B /\ x \in Int
    BY <1>1, <1>2, <2>2
  <2>6. x = 0
    <3> HIDE DEF x, z
    <3> QED BY <1>1, <2>4, <2>5, SmallMultiple
  <2>7. k - z = 0 /\ k \in Int /\ z \in Int
    BY <1>1, <1>2, <2>4, <2>6
  <2> HIDE DEF z
  <2> QED BY <2>7
<1> HIDE DEF z
<1>6. PadZeroes(n) = z
  BY <1>2, <1>4, <1>5 DEF PadZeroes, B
<1> QED BY <1>3, <1>6 DEF B
-----------------------------------------------------------------------------
Buffers == [1 .. InputBlockSize -> Int]

(* Two sequences of bytes of known lengths, one behind the other.          *)
LEMMA Joined ==
  ASSUME NEW s \in Seq(Int), NEW t \in Seq(Int), NEW m, NEW k, Len(s) = m, Len(t) = k
  PROVE  /\ s \o t \in Seq(Int) /\ Len(s \o t) = m + k
         /\ \A i \in 1 .. m + k : (s \o t)[i] = IF i <= m THEN s[i] ELSE t[i - m]
  BY ConcatProperties

(* What memcpy into the buffer does.                                       *)
LEMMA OverwriteIs ==
  ASSUME NEW buffer \in Buffers, NEW at \in 0 .. InputBlockSize, NEW data \in Seq(Int),
         at + Len(data) <= InputBlockSize
  PROVE  /\ Overwrite(buffer, at, data) \in Buffers
         /\ Overwrite(buffer, at, data) \in Seq(Int)
         /\ Len(Overwrite(buffer, at, data)) = InputBlockSize
         /\ SubSeq(Overwrite(buffer, at, data), 1, at + Len(data)) = SubSeq(buffer, 1, at) \o data
<1> DEFINE B == InputBlockSize
           new == Overwrite(buffer, at, data)
           n == at + Len(data)
<1>1. B \in Nat /\ Len(data) \in Nat /\ at \in Nat /\ n \in 0 .. B
  BY HashAssumption, LenProperties
<1>2. \A i \in 1 .. Len(data) : data[i] \in Int
  BY ElementOfSeq
<1>3. new \in Buffers
  <2>1. \A i \in 1 .. B : i > at /\ i <= at + Len(data) => i - at \in 1 .. Len(data)
    BY <1>1
  <2> QED BY <1>1, <1>2, <2>1 DEF Overwrite, Buffers
<1>4. new \in Seq(Int) /\ Len(new) = B
  BY <1>1, <1>3, IsASeq DEF Buffers
<1>5. \A i \in 1 .. B : new[i] = IF i > at /\ i <= n THEN data[i - at] ELSE buffer[i]
  BY DEF Overwrite
<1> HIDE DEF new, n
<1>6. /\ SubSeq(new, 1, n) \in Seq(Int) /\ Len(SubSeq(new, 1, n)) = n
      /\ \A i \in 1 .. n : SubSeq(new, 1, n)[i] = new[i]
  <2>1. \A i \in 1 .. n : new[i] \in Int
    BY <1>1, <1>3 DEF Buffers
  <2> QED BY <1>1, <2>1, SubSeqProperties
<1>7. /\ SubSeq(buffer, 1, at) \in Seq(Int) /\ Len(SubSeq(buffer, 1, at)) = at
      /\ \A i \in 1 .. at : SubSeq(buffer, 1, at)[i] = buffer[i]
  <2>1. \A i \in 1 .. at : buffer[i] \in Int
    BY <1>1 DEF Buffers
  <2> QED BY <1>1, <2>1, SubSeqProperties
<1> DEFINE old == SubSeq(buffer, 1, at)
<1> HIDE DEF old
<1>8. /\ old \o data \in Seq(Int) /\ Len(old \o data) = n
      /\ \A i \in 1 .. n : (old \o data)[i] = IF i <= at THEN old[i] ELSE data[i - at]
  BY <1>7, ConcatProperties DEF old, n
<1>9. \A i \in 1 .. n : SubSeq(new, 1, n)[i] = (old \o data)[i]
  BY <1>1, <1>5, <1>6, <1>7, <1>8, SMTT(20) DEF old
<1>10. SubSeq(new, 1, n) = old \o data
  BY <1>6, <1>8, <1>9, SeqEqual
<1> QED BY <1>3, <1>4, <1>10 DEF new, n, old

(* A message that a state holds is a sequence of bytes.                    *)
LEMMA HeldIsBytes ==
  ASSUME NEW st, NEW msg, Holds(st, msg)
  PROVE  msg \in Seq(Int)
<1>1. /\ st.chain \in Seq(Int) /\ st.buffer \in Buffers
      /\ st.bytesInBuffer \in 0 .. InputBlockSize - 1 /\ st.bytesInBuffer \in Int
  BY DEF Holds, HashStates, Buffers
<1>2. SubSeq(st.buffer, 1, st.bytesInBuffer) \in Seq(Int)
  <2>1. \A i \in 1 .. st.bytesInBuffer : st.buffer[i] \in Int
    BY <1>1, HashAssumption DEF Buffers
  <2> QED BY <1>1, <2>1, SubSeqProperties
<1>3. st.chain \o SubSeq(st.buffer, 1, st.bytesInBuffer) \in Seq(Int)
  BY <1>1, <1>2, ConcatProperties
<1> QED BY <1>3 DEF Holds

(* What a state that holds a message looks like.                           *)
LEMMA HoldsParts ==
  ASSUME NEW st, NEW msg \in Seq(Int), Holds(st, msg)
  PROVE  /\ st.chain \in Seq(Int) /\ st.buffer \in Buffers
         /\ st.bytesInBuffer \in 0 .. InputBlockSize - 1
         /\ SubSeq(st.buffer, 1, st.bytesInBuffer) \in Seq(Int)
         /\ Len(SubSeq(st.buffer, 1, st.bytesInBuffer)) = st.bytesInBuffer
         /\ \A i \in 1 .. st.bytesInBuffer : SubSeq(st.buffer, 1, st.bytesInBuffer)[i] = st.buffer[i]
         /\ Len(msg) = Len(st.chain) + st.bytesInBuffer
         /\ \A i \in 1 .. st.bytesInBuffer : msg[Len(st.chain) + i] = st.buffer[i]
         /\ \E c \in Nat : Len(st.chain) = c * InputBlockSize
<1>1. /\ st.chain \in Seq(Int) /\ st.buffer \in Buffers /\ Len(st.chain) \in Nat
      /\ st.bytesInBuffer \in 0 .. InputBlockSize - 1 /\ InputBlockSize \in Nat \ {0}
  BY HashAssumption, LenProperties DEF Holds, HashStates, Buffers
<1> DEFINE b == st.bytesInBuffer
           head == SubSeq(st.buffer, 1, b)
<1>2. /\ head \in Seq(Int) /\ Len(head) = b
      /\ \A i \in 1 .. b : head[i] = st.buffer[i]
  <2>1. \A i \in 1 .. b : st.buffer[i] \in Int
    BY <1>1 DEF Buffers
  <2> QED BY <1>1, <2>1, SubSeqProperties
<1>3. msg = st.chain \o head
  BY DEF Holds
<1> HIDE DEF head, b
<1>4. /\ Len(msg) = Len(st.chain) + b
      /\ \A i \in 1 .. Len(st.chain) + b :
           msg[i] = IF i <= Len(st.chain) THEN st.chain[i] ELSE head[i - Len(st.chain)]
  <2> DEFINE chain == st.chain
  <2>1. chain \in Seq(Int)
    BY <1>1
  <2>2. head \in Seq(Int) /\ Len(head) = b
    BY <1>2
  <2>3. msg = chain \o head
    BY <1>3
  <2> HIDE DEF chain
  <2>4. /\ Len(chain \o head) = Len(chain) + Len(head)
        /\ \A i \in 1 .. Len(chain) + Len(head) :
             (chain \o head)[i] = IF i <= Len(chain) THEN chain[i] ELSE head[i - Len(chain)]
    BY <2>1, <2>2, ConcatProperties
  <2> QED BY <2>2, <2>3, <2>4 DEF chain
<1>5. \A i \in 1 .. b : msg[Len(st.chain) + i] = st.buffer[i]
  <2>1. \A i \in 1 .. b : Len(st.chain) + i \in 1 .. Len(st.chain) + b /\ ~(Len(st.chain) + i <= Len(st.chain)) /\ (Len(st.chain) + i) - Len(st.chain) = i
    BY <1>1 DEF b
  <2> QED BY <1>2, <1>4, <2>1
<1>6. \E c \in Nat : Len(st.chain) = c * InputBlockSize
  <2> DEFINE c == Len(st.chain) \div InputBlockSize
  <2>1. c \in Nat /\ Len(st.chain) = c * InputBlockSize + (Len(st.chain) % InputBlockSize)
    BY <1>1, Division
  <2>2. Len(st.chain) % InputBlockSize = 0
    BY DEF Holds
  <2> HIDE DEF c
  <2>3. Len(st.chain) = c * InputBlockSize + 0
    BY <2>1, <2>2
  <2>4. c \in Nat /\ Len(st.chain) = c * InputBlockSize
    BY <1>1, <2>1, <2>3
  <2> QED BY <2>4
<1> QED BY <1>1, <1>2, <1>4, <1>5, <1>6 DEF b, head

(* The length field of the standard.                                       *)
LEMMA BitLengthType ==
  ASSUME NEW n \in Nat
  PROVE  BitLength(n) \in Seq(Int) /\ Len(BitLength(n)) = LengthWords
<1>1. \A w \in Nat : LengthWord(w) \in Int
  BY HashAssumption DEF LengthWord
<1>2. 8 * n \in Nat /\ (8 * n) \div WordRange \in Nat
  BY HashAssumption, Division
<1>3. LengthWord(8 * n) \in Int /\ LengthWord((8 * n) \div WordRange) \in Int
  BY <1>1, <1>2
<1>4. LengthWords = 1 \/ LengthWords = 2
  BY HashAssumption
<1> QED BY <1>3, <1>4 DEF BitLength

(* The bytes that the result adds to the chain.                            *)
PaddingLength(st) == IF NeedsTwoBlocks(st) THEN 2 * InputBlockSize ELSE InputBlockSize

(* The last blocks, byte by byte: content, 0x80, zeroes, length.           *)
LEMMA PaddingIs ==
  ASSUME NEW st, st.buffer \in Buffers, st.bytesInBuffer \in 0 .. InputBlockSize - 1,
         LengthField(st) \in Seq(Int), Len(LengthField(st)) = LengthWords
  PROVE  /\ HashPadding(st) \in Seq(Int) /\ Len(HashPadding(st)) = PaddingLength(st)
         /\ \A i \in 1 .. PaddingLength(st) : HashPadding(st)[i] =
               IF i <= st.bytesInBuffer THEN st.buffer[i]
               ELSE IF i = st.bytesInBuffer + 1 THEN Pad80
               ELSE IF i <= PaddingLength(st) - LengthWords THEN Zero
               ELSE LengthField(st)[i - (PaddingLength(st) - LengthWords)]
<1> DEFINE lf == LengthField(st)
           M == PaddingLength(st)
<1>0. M = IF NeedsTwoBlocks(st) THEN 2 * InputBlockSize ELSE InputBlockSize
  BY DEF PaddingLength
<1>a. lf \in Seq(Int) /\ Len(lf) = LengthWords
  OBVIOUS
<1> SUFFICES /\ HashPadding(st) \in Seq(Int) /\ Len(HashPadding(st)) = M
             /\ \A i \in 1 .. M : HashPadding(st)[i] =
                  IF i <= st.bytesInBuffer THEN st.buffer[i]
                  ELSE IF i = st.bytesInBuffer + 1 THEN Pad80
                  ELSE IF i <= M - LengthWords THEN Zero ELSE lf[i - (M - LengthWords)]
  OBVIOUS
<1> HIDE DEF M
<1> DEFINE B == InputBlockSize
           b == st.bytesInBuffer
           at == B - LengthWords
<1>1. B \in Nat \ {0} /\ b \in 0 .. B - 1 /\ at \in 1 .. B - 1 /\ at + Len(lf) = B
      /\ LengthWords \in Nat
  BY <1>a, HashAssumption
<1> HIDE DEF at
<1>2. Pad1(st) \in Buffers
  BY <1>1 DEF Pad1, Buffers, Pad80, Zero
<1>3. ZeroBuffer \in Buffers
  BY DEF ZeroBuffer, Buffers, Zero
<1>4. Pad1(st) \in Seq(Int) /\ Len(Pad1(st)) = B
  BY <1>1, <1>2, IsASeq DEF Buffers
<1>5. \A buffer \in Buffers : PutLength(buffer, st) \in Buffers /\ PutLength(buffer, st) \in Seq(Int)
                               /\ Len(PutLength(buffer, st)) = B
  BY <1>1, <1>a, OverwriteIs DEF PutLength, at
<1>6. \A buffer \in Buffers : \A i \in 1 .. B :
        PutLength(buffer, st)[i] = IF i <= at THEN buffer[i] ELSE lf[i - at]
  BY <1>1 DEF PutLength, Overwrite, at
<1>7. \A i \in 1 .. B : Pad1(st)[i] = IF i <= b THEN st.buffer[i] ELSE IF i = b + 1 THEN Pad80 ELSE Zero
  BY DEF Pad1
<1>8. \A i \in 1 .. B : ZeroBuffer[i] = Zero
  BY DEF ZeroBuffer
<1>9. CASE NeedsTwoBlocks(st)
  <2> DEFINE x == Pad1(st)
             y == PutLength(ZeroBuffer, st)
  <2>1. HashPadding(st) = x \o y /\ M = 2 * B /\ b + 1 > at
    BY <1>0, <1>9 DEF HashPadding, NeedsTwoBlocks, at
  <2>2. y \in Seq(Int) /\ Len(y) = B /\ x \in Seq(Int) /\ Len(x) = B
    BY <1>3, <1>4, <1>5
  <2>3. \A i \in 1 .. B : y[i] = IF i <= at THEN Zero ELSE lf[i - at]
    BY <1>1, <1>3, <1>6, <1>8
  <2> HIDE DEF x, y
  <2>4. /\ x \o y \in Seq(Int) /\ Len(x \o y) = B + B
        /\ \A i \in 1 .. B + B : (x \o y)[i] = IF i <= B THEN x[i] ELSE y[i - B]
    BY <2>2, Joined
  <2>5. ASSUME NEW i \in 1 .. M
        PROVE  HashPadding(st)[i] = IF i <= b THEN st.buffer[i] ELSE IF i = b + 1 THEN Pad80
                                    ELSE IF i <= M - LengthWords THEN Zero ELSE lf[i - (M - LengthWords)]
    <3>1. CASE i <= B
      <4>1. i \in 1 .. B /\ i \in 1 .. B + B /\ i <= M - LengthWords
        BY <1>1, <2>1, <3>1 DEF at
      <4> QED BY <1>7, <2>1, <2>4, <3>1, <4>1, SMTT(40) DEF x
    <3>2. CASE ~(i <= B)
      <4>1. /\ i - B \in 1 .. B /\ i \in 1 .. B + B /\ ~(i <= b) /\ i # b + 1
            /\ (i - B <= at <=> i <= M - LengthWords) /\ i - B - at = i - (M - LengthWords)
        BY <1>1, <2>1, <3>2 DEF at
      <4> QED BY <2>1, <2>3, <2>4, <3>2, <4>1
    <3> QED BY <3>1, <3>2
  <2>6. M = B + B
    BY <1>1, <2>1
  <2> QED BY <2>1, <2>4, <2>5, <2>6
<1>10. CASE ~NeedsTwoBlocks(st)
  <2>1. HashPadding(st) = PutLength(Pad1(st), st) /\ M = B /\ b + 1 <= at
    BY <1>0, <1>1, <1>10 DEF HashPadding, NeedsTwoBlocks, at
  <2>2. \A i \in 1 .. B : HashPadding(st)[i] = IF i <= at THEN Pad1(st)[i] ELSE lf[i - at]
    BY <1>2, <1>6, <2>1
  <2>3. \A i \in 1 .. B : i <= b \/ i = b + 1 => i <= at
    BY <1>1, <2>1
  <2>4. \A i \in 1 .. M : HashPadding(st)[i] =
               IF i <= b THEN st.buffer[i] ELSE IF i = b + 1 THEN Pad80
               ELSE IF i <= M - LengthWords THEN Zero ELSE lf[i - (M - LengthWords)]
    BY <1>7, <2>1, <2>2, <2>3 DEF at
  <2> QED BY <1>2, <1>5, <2>1, <2>4
<1> QED BY <1>9, <1>10

(* The result of a state is the hash of the padded message it holds.       *)
LEMMA DigestIsPadded ==
  ASSUME NEW st, NEW msg \in Seq(Int), Holds(st, msg)
  PROVE  HashDigest(st) = PaddedMessage(msg)
<1> DEFINE B == InputBlockSize
           b == st.bytesInBuffer
           n == Len(msg)
           lf == BitLength(n)
           z == PadZeroes(n)
           M == PaddingLength(st)
           P == HashPadding(st)
           zs == [i \in 1 .. z |-> Zero]
           C == Len(st.chain)
<1>1. PICK c \in Nat : C = c * B
  BY HoldsParts
<1>2. /\ n \in Nat /\ C \in Nat /\ B \in Nat \ {0} /\ n = C + b /\ b \in 0 .. B - 1
      /\ LengthWords \in Nat /\ LengthWords < B
  BY HashAssumption, HoldsParts, LenProperties
<1>3. lf \in Seq(Int) /\ Len(lf) = LengthWords
  BY <1>2, BitLengthType
<1>4. LengthField(st) = lf
  BY <1>2, LengthFieldIsBits DEF Holds
<1>5. /\ P \in Seq(Int) /\ Len(P) = M
      /\ \A i \in 1 .. M : P[i] = IF i <= b THEN st.buffer[i] ELSE IF i = b + 1 THEN Pad80
                                 ELSE IF i <= M - LengthWords THEN Zero ELSE lf[i - (M - LengthWords)]
  <2>1. st.buffer \in Buffers /\ st.bytesInBuffer \in 0 .. InputBlockSize - 1
    BY HoldsParts
  <2>2. LengthField(st) \in Seq(Int) /\ Len(LengthField(st)) = LengthWords
    BY <1>3, <1>4
  <2> QED BY <1>4, <2>1, <2>2, PaddingIs
<1>6. z = M - LengthWords - b - 1 /\ z \in Nat /\ M \in Nat
  <2> HIDE DEF z
  <2>1. z = (IF b + 1 > B - LengthWords THEN 2 * B ELSE B) - LengthWords - b - 1
    <3> HIDE DEF C, n, b
    <3>1. n \in Nat /\ c \in Nat /\ b \in 0 .. B - 1 /\ n = c * B + b
      BY <1>1, <1>2
    <3>2. PadZeroes(n) = (IF b + 1 > B - LengthWords THEN 2 * B ELSE B) - LengthWords - b - 1
      BY <3>1, PadZeroesIs, Zenon
    <3> QED BY <3>2 DEF z
  <2>2. NeedsTwoBlocks(st) <=> b + 1 > B - LengthWords
    BY DEF NeedsTwoBlocks
  <2>3. M = IF NeedsTwoBlocks(st) THEN 2 * B ELSE B
    BY DEF PaddingLength
  <2> HIDE DEF M
  <2> QED BY <1>2, <2>1, <2>2, <2>3
<1> HIDE DEF M, z, lf, P, C, n, b, B
<1>7. zs \in Seq(Int) /\ Len(zs) = z /\ \A i \in 1 .. z : zs[i] = Zero
  BY <1>6, IsASeq DEF Zero
<1> HIDE DEF zs
<1> DEFINE m1 == msg \o <<Pad80>>
           m2 == m1 \o zs
           m3 == m2 \o lf
           D == st.chain \o P
<1>8. /\ m1 \in Seq(Int) /\ Len(m1) = n + 1
      /\ \A i \in 1 .. n + 1 : m1[i] = IF i <= n THEN msg[i] ELSE Pad80
  <2>1. <<Pad80>> \in Seq(Int) /\ Len(<<Pad80>>) = 1 /\ <<Pad80>>[1] = Pad80
    BY DEF Pad80
  <2>2. /\ m1 \in Seq(Int) /\ Len(m1) = n + 1
        /\ \A i \in 1 .. n + 1 : m1[i] = IF i <= n THEN msg[i] ELSE <<Pad80>>[i - n]
    BY <2>1, ConcatProperties DEF n
  <2>3. \A i \in 1 .. n + 1 : ~(i <= n) => i - n = 1
    BY <1>2
  <2> QED BY <2>1, <2>2, <2>3
<1> HIDE DEF m1
<1>9. /\ m2 \in Seq(Int) /\ Len(m2) = n + 1 + z
      /\ \A i \in 1 .. n + 1 + z : m2[i] = IF i <= n + 1 THEN m1[i] ELSE zs[i - (n + 1)]
  BY <1>7, <1>8, Joined
<1> HIDE DEF m2
<1>10. /\ m3 \in Seq(Int) /\ Len(m3) = n + 1 + z + LengthWords
       /\ \A i \in 1 .. n + 1 + z + LengthWords :
            m3[i] = IF i <= n + 1 + z THEN m2[i] ELSE lf[i - (n + 1 + z)]
  BY <1>3, <1>9, Joined, SMTT(20)
<1> HIDE DEF m3
<1>11. st.chain \in Seq(Int)
  BY HoldsParts
<1>12. /\ D \in Seq(Int) /\ Len(D) = C + M
       /\ \A i \in 1 .. C + M : D[i] = IF i <= C THEN st.chain[i] ELSE P[i - C]
  BY <1>5, <1>11, ConcatProperties, ZenonT(40) DEF C
<1> HIDE DEF D
<1>13. C + M = n + 1 + z + LengthWords
  BY <1>2, <1>6
<1>14. \A i \in 1 .. C : msg[i] = st.chain[i]
  <2>1. msg = st.chain \o SubSeq(st.buffer, 1, b)
    BY DEF Holds, b
  <2>2. SubSeq(st.buffer, 1, b) \in Seq(Int) /\ Len(SubSeq(st.buffer, 1, b)) = b
    BY HoldsParts DEF b
  <2>3. \A i \in 1 .. C + b : msg[i] = IF i <= C THEN st.chain[i] ELSE SubSeq(st.buffer, 1, b)[i - C]
    BY <1>11, <2>1, <2>2, ConcatProperties DEF C
  <2> QED BY <1>2, <2>3
<1>15. \A i \in 1 .. b : msg[C + i] = st.buffer[i]
  BY HoldsParts DEF b, C
<1>16. ASSUME NEW i \in 1 .. C + M
       PROVE  D[i] = m3[i]
  <2>1. i \in 1 .. n + 1 + z + LengthWords /\ i \in Int
    BY <1>13
  <2>2. CASE i <= C
    <3>1. i \in 1 .. C /\ i \in 1 .. n + 1 /\ i \in 1 .. n + 1 + z /\ i <= n /\ i <= n + 1 /\ i <= n + 1 + z
      BY <1>2, <1>6, <2>2
    <3> QED BY <1>8, <1>9, <1>10, <1>12, <1>14, <2>1, <2>2, <3>1
  <2>3. CASE ~(i <= C)
    <3> DEFINE j == i - C
    <3>1. j \in 1 .. M /\ i = C + j /\ D[i] = P[j]
      BY <1>2, <1>6, <1>12, <2>3
    <3>2. CASE j <= b
      <4>1. j \in 1 .. b /\ i \in 1 .. n + 1 /\ i \in 1 .. n + 1 + z /\ i <= n /\ i <= n + 1 /\ i <= n + 1 + z
        BY <1>2, <1>6, <3>1, <3>2
      <4>2. m3[i] = msg[i]
        BY <1>8, <1>9, <1>10, <2>1, <4>1
      <4>3. msg[i] = st.buffer[j]
        BY <1>15, <3>1, <4>1
      <4>4. P[j] = st.buffer[j]
        BY <1>5, <3>1, <3>2
      <4> QED BY <3>1, <4>2, <4>3, <4>4
    <3>3. CASE j = b + 1
      <4>1. i \in 1 .. n + 1 /\ i \in 1 .. n + 1 + z /\ ~(i <= n) /\ i <= n + 1 /\ i <= n + 1 + z /\ ~(j <= b)
        BY <1>2, <1>6, <3>1, <3>3
      <4>2. m3[i] = Pad80
        BY <1>8, <1>9, <1>10, <2>1, <4>1
      <4>3. P[j] = Pad80
        BY <1>5, <3>1, <3>3, <4>1
      <4> QED BY <3>1, <4>2, <4>3
    <3>4. CASE j > b + 1 /\ j <= M - LengthWords
      <4>1. /\ i \in 1 .. n + 1 + z /\ ~(i <= n + 1) /\ i <= n + 1 + z /\ i - (n + 1) \in 1 .. z
            /\ ~(j <= b) /\ j # b + 1
        BY <1>2, <1>6, <3>1, <3>4
      <4>2. m3[i] = Zero
        BY <1>7, <1>9, <1>10, <2>1, <4>1
      <4>3. P[j] = Zero
        BY <1>5, <3>1, <3>4, <4>1
      <4> QED BY <3>1, <4>2, <4>3
    <3>5. CASE j > b + 1 /\ ~(j <= M - LengthWords)
      <4>1. ~(i <= n + 1 + z) /\ i - (n + 1 + z) = j - (M - LengthWords) /\ ~(j <= b) /\ j # b + 1
        BY <1>2, <1>6, <3>1, <3>5
      <4>2. m3[i] = lf[j - (M - LengthWords)]
        BY <1>10, <2>1, <4>1
      <4>3. P[j] = lf[j - (M - LengthWords)]
        BY <1>5, <3>1, <3>5, <4>1
      <4> QED BY <3>1, <4>2, <4>3
    <3>6. j <= b \/ j = b + 1 \/ j > b + 1
      BY <1>2, <3>1
    <3> QED BY <3>2, <3>3, <3>4, <3>5, <3>6
  <2> QED BY <2>2, <2>3
<1>17. D = m3
  BY <1>10, <1>12, <1>13, <1>16, SeqEqual
<1> QED BY <1>17 DEF D, m3, m2, m1, HashDigest, PaddedMessage, P, zs, z, lf, n

(* A part of the input is a sequence of bytes.                             *)
LEMMA PartOf ==
  ASSUME NEW data \in Seq(Int), NEW m \in 1 .. Len(data) + 1, NEW n \in m - 1 .. Len(data)
  PROVE  SubSeq(data, m, n) \in Seq(Int) /\ Len(SubSeq(data, m, n)) = n - m + 1
<1>1. m \in Int /\ n \in Int /\ Len(data) \in Nat
  BY LenProperties
<1>2. \A i \in m .. n : data[i] \in Int
  <2>1. \A i \in m .. n : i \in 1 .. Len(data)
    BY <1>1
  <2> QED BY <2>1, ElementOfSeq
<1>3. /\ SubSeq(data, m, n) \in Seq(Int)
      /\ Len(SubSeq(data, m, n)) = IF m <= n THEN n - m + 1 ELSE 0
  BY <1>1, <1>2, SubSeqProperties
<1> QED BY <1>1, <1>3

(* Blocks compressed one after the other are whole blocks.                 *)
LEMMA WholeBlocks ==
  ASSUME NEW x \in Nat, NEW c \in Nat, x = c * InputBlockSize
  PROVE  x % InputBlockSize = 0
<1>1. InputBlockSize \in Nat \ {0}
  BY HashAssumption
<1> QED BY <1>1, DivisionUnique

(* Concatenations of bytes can be regrouped.                               *)
LEMMA Regroup ==
  /\ \A x, y \in Seq(Int) : x \o y \in Seq(Int)
  /\ \A x, y, z \in Seq(Int) : (x \o y) \o z = x \o (y \o z)
<1>1. ASSUME NEW x \in Seq(Int), NEW y \in Seq(Int) PROVE x \o y \in Seq(Int)
  BY ConcatProperties
<1>2. ASSUME NEW x \in Seq(Int), NEW y \in Seq(Int), NEW z \in Seq(Int)
      PROVE  (x \o y) \o z = x \o (y \o z)
  BY ConcatAssociative
<1> QED BY <1>1, <1>2, Zenon

(* The same as a predicate, which the provers match as a whole.            *)
Regroups(x, y, z) == (x \o y) \o z = x \o (y \o z)

LEMMA RegroupThree == \A x, y, z \in Seq(Int) : Regroups(x, y, z)
  BY Regroup, Zenon DEF Regroups

(* Five pieces: a filled buffer (the first two), whole blocks and a rest.  *)
RegroupsFive(a, b, c, d, e) == ((a \o (b \o c)) \o d) \o e = (a \o b) \o ((c \o d) \o e)

LEMMA RegroupFive == \A a, b, c, d, e \in Seq(Int) : RegroupsFive(a, b, c, d, e)
<1> SUFFICES ASSUME NEW a \in Seq(Int), NEW b \in Seq(Int), NEW c \in Seq(Int), NEW d \in Seq(Int),
                    NEW e \in Seq(Int)
             PROVE  RegroupsFive(a, b, c, d, e)
  BY Zenon
<1> DEFINE ab == a \o b
           cd == c \o d
<1>1. ab \in Seq(Int) /\ cd \in Seq(Int)
  BY Regroup, Zenon
<1> HIDE DEF ab, cd
<1>2. Regroups(a, b, c) /\ Regroups(ab, c, d) /\ Regroups(ab, cd, e)
  BY <1>1, RegroupThree, Zenon
<1>3. a \o (b \o c) = ab \o c /\ (ab \o c) \o d = ab \o cd /\ (ab \o cd) \o e = ab \o (cd \o e)
  BY <1>2, Zenon DEF Regroups, ab, cd
<1>4. ((a \o (b \o c)) \o d) \o e = ab \o (cd \o e)
  BY <1>3, Zenon
<1> QED BY <1>4, Zenon DEF RegroupsFive, ab, cd

(* The pieces of an append: used bytes complete the buffer or none, bulk   *)
(* is a whole number of blocks, less than a block is left.                 *)
UsedOf(b, cb) == IF b > 0 /\ cb >= InputBlockSize - b THEN InputBlockSize - b ELSE 0
TailOf(rest) == IF rest >= InputBlockSize THEN rest % InputBlockSize ELSE rest

(* Those pieces are within the append, and after them the count of the     *)
(* buffer is less than a block.                                            *)
LEMMA AppendSplit ==
  ASSUME NEW b \in 0 .. InputBlockSize - 1, NEW cb \in Nat
  PROVE  /\ UsedOf(b, cb) \in 0 .. cb /\ TailOf(cb - UsedOf(b, cb)) \in 0 .. cb - UsedOf(b, cb)
         /\ \E d \in Nat : cb - TailOf(cb - UsedOf(b, cb)) - UsedOf(b, cb) = d * InputBlockSize
         /\ (IF b > 0 /\ cb >= InputBlockSize - b THEN 0 ELSE b) + TailOf(cb - UsedOf(b, cb)) < InputBlockSize
<1> DEFINE fills == b > 0 /\ cb >= InputBlockSize - b
           used == UsedOf(b, cb)
           tail == TailOf(cb - used)
<1>a. used = IF fills THEN InputBlockSize - b ELSE 0
  BY DEF UsedOf
<1>b. tail = IF cb - used >= InputBlockSize THEN (cb - used) % InputBlockSize ELSE cb - used
  BY DEF TailOf
<1> SUFFICES /\ used \in 0 .. cb /\ tail \in 0 .. cb - used
             /\ \E d \in Nat : cb - tail - used = d * InputBlockSize
             /\ (IF fills THEN 0 ELSE b) + tail < InputBlockSize
  OBVIOUS
<1> HIDE DEF used, tail
<1> DEFINE B == InputBlockSize
           rest == cb - used
<1>1. B \in Nat \ {0} /\ used \in 0 .. cb /\ rest \in Nat
  BY <1>a, HashAssumption
<1> HIDE DEF rest
<1>2. CASE rest >= B
  <2> DEFINE d == rest \div B
  <2>1. d \in Nat /\ rest % B \in 0 .. B - 1 /\ rest = d * B + (rest % B)
    BY <1>1, Division
  <2>2. tail = rest % B
    BY <1>2, <1>b DEF rest
  <2> HIDE DEF d
  <2>3. rest = d * B + tail /\ tail \in 0 .. B - 1
    BY <2>1, <2>2
  <2>4. d * B \in Nat
    BY <1>1, <2>1
  <2>5. cb - tail - used = d * B /\ tail \in 0 .. cb - used
    BY <1>1, <2>3, <2>4 DEF rest
  <2>6. fills \/ b = 0
    <3>1. CASE b > 0 /\ ~fills
      <4>1. used = 0 /\ cb < B - b
        BY <1>1, <1>a, <3>1
      <4> QED BY <1>1, <1>2, <3>1, <4>1 DEF rest
    <3> QED BY <1>1, <3>1
  <2>7. (IF fills THEN 0 ELSE b) + tail < B
    BY <1>1, <2>3, <2>6
  <2> QED BY <1>1, <2>1, <2>5, <2>7
<1>3. CASE ~(rest >= B)
  <2>1. tail = rest /\ rest < B
    BY <1>1, <1>3, <1>b DEF rest
  <2>2. cb - tail - used = 0 * B /\ tail \in 0 .. cb - used
    BY <1>1, <2>1 DEF rest
  <2>3. (IF fills THEN 0 ELSE b) + tail < B
    <3>1. CASE fills
      BY <1>1, <2>1, <3>1
    <3>2. CASE ~fills
      BY <1>1, <1>a, <2>1, <3>2 DEF rest
    <3> QED BY <3>1, <3>2
  <2> QED BY <1>1, <2>2, <2>3
<1> QED BY <1>1, <1>2, <1>3

(* An append in parts of any sizes: the state then holds the longer        *)
(* message.                                                                *)
LEMMA AppendHolds ==
  ASSUME NEW st, NEW msg \in Seq(Int), NEW data \in Seq(Int), Holds(st, msg), Len(data) \in Words
  PROVE  Holds(HashAppend(st, data), msg \o data)
<1> DEFINE B == InputBlockSize
           b == st.bytesInBuffer
           cb == Len(data)
           fills == FillsBuffer(st, data)
           used == IF fills THEN B - b ELSE 0
           full == IF fills THEN Overwrite(st.buffer, b, SubSeq(data, 1, used)) ELSE st.buffer
           inside == IF fills THEN 0 ELSE b
           tail == IF cb - used >= B THEN (cb - used) % B ELSE cb - used
           D1 == SubSeq(data, 1, used)
           D2 == SubSeq(data, used + 1, cb - tail)
           D3 == SubSeq(data, cb - tail + 1, cb)
           head == SubSeq(st.buffer, 1, b)
           new == HashAppend(st, data)
<1>1. /\ st.chain \in Seq(Int) /\ st.buffer \in Buffers /\ b \in 0 .. B - 1 /\ B \in Nat \ {0}
      /\ head \in Seq(Int) /\ Len(head) = b /\ cb \in Nat /\ msg = st.chain \o head /\ Len(msg) \in Nat
  BY HoldsParts, HashAssumption, LenProperties DEF Holds
<1>2. new = [chain         |-> (st.chain \o (IF fills THEN full ELSE <<>>)) \o D2,
             buffer        |-> Overwrite(full, inside, D3),
             bytesInBuffer |-> inside + tail,
             dataLengthL   |-> LengthL(st, cb),
             dataLengthH   |-> LengthH(st, cb)]
  BY DEF HashAppend
<1>3. fills \in BOOLEAN /\ (fills <=> b > 0 /\ cb >= B - b)
  BY DEF FillsBuffer
<1> HIDE DEF new, fills, head, cb, b
<1>4. /\ used \in 0 .. cb /\ tail \in 0 .. cb - used
      /\ \E d \in Nat : cb - tail - used = d * B
      /\ inside + tail < B
  <2>1. used = UsedOf(b, cb)
    BY <1>3 DEF UsedOf
  <2>2. tail = TailOf(cb - used)
    BY DEF TailOf
  <2>3. (IF b > 0 /\ cb >= B - b THEN 0 ELSE b) = inside
    BY <1>3
  <2> HIDE DEF used, tail, inside
  <2>4. b \in 0 .. InputBlockSize - 1 /\ cb \in Nat
    BY <1>1
  <2> QED BY <2>1, <2>2, <2>3, <2>4, AppendSplit
<1>5. used \in Nat /\ tail \in Nat /\ used + tail <= cb /\ inside \in 0 .. B - 1
      /\ (fills => used = B - b) /\ (~fills => used = 0 /\ inside = b) /\ (fills => inside = 0)
  BY <1>1, <1>4
<1> HIDE DEF used, tail, inside
<1>6. /\ D1 \in Seq(Int) /\ Len(D1) = used /\ D2 \in Seq(Int) /\ Len(D2) = cb - tail - used
      /\ D3 \in Seq(Int) /\ Len(D3) = tail
  <2>1. /\ 1 \in 1 .. cb + 1 /\ used \in 1 - 1 .. cb /\ used - 1 + 1 = used
        /\ used + 1 \in 1 .. cb + 1 /\ cb - tail \in (used + 1) - 1 .. cb
        /\ (cb - tail) - (used + 1) + 1 = cb - tail - used
        /\ (cb - tail) + 1 \in 1 .. cb + 1 /\ cb \in ((cb - tail) + 1) - 1 .. cb
        /\ cb - ((cb - tail) + 1) + 1 = tail
    BY <1>1, <1>5
  <2>2. D1 \in Seq(Int) /\ Len(D1) = used - 1 + 1
    BY <2>1, PartOf DEF cb
  <2>3. D2 \in Seq(Int) /\ Len(D2) = (cb - tail) - (used + 1) + 1
    BY <2>1, PartOf DEF cb
  <2>4. D3 \in Seq(Int) /\ Len(D3) = cb - ((cb - tail) + 1) + 1
    BY <2>1, PartOf DEF cb
  <2> QED BY <2>1, <2>2, <2>3, <2>4
<1>7. (D1 \o D2) \o D3 = data
  <2>1. D1 \o D2 = SubSeq(data, 1, cb - tail)
    <3>1. 1 \in 1 .. cb + 1 /\ used \in 1 - 1 .. cb /\ cb - tail \in used .. cb
      BY <1>1, <1>5
    <3> QED BY <3>1, ConcatAdjacentSubSeq DEF cb
  <2>2. SubSeq(data, 1, cb - tail) \o D3 = SubSeq(data, 1, cb)
    <3>1. 1 \in 1 .. cb + 1 /\ cb - tail \in 1 - 1 .. cb /\ cb \in cb - tail .. cb
      BY <1>1, <1>5
    <3> QED BY <3>1, ConcatAdjacentSubSeq DEF cb
  <2>3. SubSeq(data, 1, cb) = data
    BY SubSeqFull DEF cb
  <2> QED BY <2>1, <2>2, <2>3
<1> HIDE DEF D1, D2, D3
<1>8. PICK d \in Nat : Len(D2) = d * B
  BY <1>4, <1>6
<1>9. PICK c \in Nat : Len(st.chain) = c * B
  BY HoldsParts
<1>10. /\ full \in Buffers
       /\ fills => full \in Seq(Int) /\ Len(full) = B /\ full = head \o D1
  <2>1. CASE fills
    <3>1. full = Overwrite(st.buffer, b, D1) /\ b + Len(D1) = B /\ b \in 0 .. B
      BY <1>1, <1>5, <1>6, <2>1 DEF D1
    <3>2. /\ full \in Buffers /\ full \in Seq(Int) /\ Len(full) = B
          /\ SubSeq(full, 1, b + Len(D1)) = SubSeq(st.buffer, 1, b) \o D1
      <4>1. b + Len(D1) <= B /\ b \in 0 .. B
        BY <1>1, <3>1
      <4>2. /\ Overwrite(st.buffer, b, D1) \in Buffers
            /\ Overwrite(st.buffer, b, D1) \in Seq(Int)
            /\ Len(Overwrite(st.buffer, b, D1)) = B
            /\ SubSeq(Overwrite(st.buffer, b, D1), 1, b + Len(D1)) = SubSeq(st.buffer, 1, b) \o D1
        BY <1>1, <1>6, <4>1, OverwriteIs, Zenon
      <4> QED BY <3>1, <4>2, Zenon
    <3> HIDE DEF full
    <3>3. SubSeq(full, 1, B) = full
      BY <3>2, SubSeqFull
    <3> QED BY <3>1, <3>2, <3>3 DEF head
  <2>2. CASE ~fills
    BY <1>1, <2>2
  <2> QED BY <2>1, <2>2
<1> HIDE DEF full
<1> DEFINE buf == Overwrite(full, inside, D3)
           mid == IF fills THEN full ELSE <<>>
           chain == (st.chain \o mid) \o D2
<1>11. /\ buf \in Buffers
       /\ SubSeq(buf, 1, inside + tail) = SubSeq(full, 1, inside) \o D3
  <2>1. inside \in 0 .. B /\ inside + Len(D3) <= B
    BY <1>1, <1>4, <1>5, <1>6
  <2> QED BY <1>6, <1>10, <2>1, OverwriteIs
<1>12. mid \in Seq(Int) /\ (\E e \in Nat : Len(mid) = e * B)
  <2>1. CASE fills
    <3>1. mid = full /\ Len(mid) = 1 * B
      BY <1>1, <1>10, <2>1
    <3> QED BY <1>10, <2>1, <3>1
  <2>2. CASE ~fills
    <3>1. mid = <<>>
      BY <2>2
    <3>2. Len(<<>>) = 0 /\ <<>> \in Seq(Int)
      OBVIOUS
    <3>3. Len(mid) = 0 * B
      BY <1>1, <3>1, <3>2
    <3> QED BY <3>1, <3>2, <3>3
  <2> QED BY <2>1, <2>2
<1>13. PICK e \in Nat : Len(mid) = e * B
  BY <1>12
<1>14. /\ st.chain \o mid \in Seq(Int) /\ Len(st.chain \o mid) = c * B + e * B
       /\ chain \in Seq(Int) /\ Len(chain) = c * B + e * B + d * B
  <2> HIDE DEF mid
  <2>1. st.chain \o mid \in Seq(Int) /\ Len(st.chain \o mid) = c * B + e * B
    <3>1. mid \in Seq(Int) /\ st.chain \in Seq(Int)
      BY <1>1, <1>12
    <3>2. st.chain \o mid \in Seq(Int) /\ Len(st.chain \o mid) = Len(st.chain) + Len(mid)
      BY <3>1, ConcatProperties
    <3> QED BY <1>9, <1>13, <3>2
  <2>2. chain \in Seq(Int) /\ Len(chain) = Len(st.chain \o mid) + Len(D2)
    BY <1>6, <2>1, ConcatProperties
  <2> QED BY <1>8, <2>1, <2>2
<1>15. Len(chain) % B = 0
  <2> HIDE DEF chain
  <2>1. Len(chain) = (c + e + d) * B
    BY <1>1, <1>14
  <2>2. c + e + d \in Nat /\ Len(chain) \in Nat
    BY <1>14, LenProperties
  <2> QED BY <2>1, <2>2, WholeBlocks
<1>16. chain \o (SubSeq(full, 1, inside) \o D3) = msg \o data
  <2>1. CASE fills
    <3>1. SubSeq(full, 1, inside) \o D3 = D3
      <4>1. SubSeq(full, 1, inside) = <<>>
        BY <1>5, <2>1, SubSeqEmpty
      <4> QED BY <1>6, <4>1, ConcatEmptySeq
    <3>2. chain = (st.chain \o (head \o D1)) \o D2
      BY <1>10, <2>1 DEF chain, mid
    <3>3. ((st.chain \o (head \o D1)) \o D2) \o D3 = (st.chain \o head) \o ((D1 \o D2) \o D3)
      <4>1. /\ st.chain \in Seq(Int) /\ head \in Seq(Int) /\ D1 \in Seq(Int)
            /\ D2 \in Seq(Int) /\ D3 \in Seq(Int)
        BY <1>1, <1>6
      <4> HIDE DEF chain, mid
      <4> HIDE DEF head, D1, D2, D3
      <4>2. RegroupsFive(st.chain, head, D1, D2, D3)
        BY <4>1, RegroupFive, Zenon
      <4> QED BY <4>2, Zenon DEF RegroupsFive
    <3> HIDE DEF chain
    <3> QED BY <1>1, <1>7, <3>1, <3>2, <3>3
  <2>2. CASE ~fills
    <3>1. st.chain \o mid = st.chain
      BY <1>1, <2>2, ConcatEmptySeq
    <3>2. SubSeq(full, 1, inside) = head
      BY <1>5, <2>2 DEF full, head
    <3>3. D1 = <<>>
      BY <1>5, <2>2, SubSeqEmpty DEF D1
    <3>4. D2 \o D3 = data
      BY <1>6, <1>7, <3>3, ConcatEmptySeq
    <3>5. CASE b = 0
      <4>1. head = <<>>
        BY <3>5, SubSeqEmpty DEF head
      <4>2. msg = st.chain /\ head \o D3 = D3
        BY <1>1, <1>6, <4>1, ConcatEmptySeq
      <4>3. (msg \o D2) \o D3 = msg \o (D2 \o D3)
        BY <1>6, Regroup, ZenonT(40)
      <4> QED BY <3>1, <3>2, <3>4, <4>2, <4>3
    <3>6. CASE b > 0
      <4>1. cb < B - b
        BY <1>1, <1>3, <2>2, <3>6
      <4>2. tail = cb
        BY <1>1, <1>5, <2>2, <4>1 DEF tail
      <4>3. D2 = <<>> /\ D3 = data
        <5>1. cb - tail = 0 /\ used + 1 > cb - tail
          BY <1>1, <1>5, <2>2, <4>2
        <5>2. D2 = <<>>
          BY <1>1, <1>5, <5>1, SubSeqEmpty DEF D2
        <5> QED BY <1>6, <3>4, <5>2, ConcatEmptySeq
      <4>4. chain = st.chain
        BY <1>1, <3>1, <4>3, ConcatEmptySeq
      <4>5. (st.chain \o head) \o data = st.chain \o (head \o data)
        BY <1>1, Regroup, ZenonT(40)
      <4>6. msg = st.chain \o head
        BY <1>1
      <4> HIDE DEF chain
      <4> QED BY <3>2, <4>3, <4>4, <4>5, <4>6, Zenon
    <3>7. b = 0 \/ b > 0
      BY <1>1
    <3> QED BY <3>5, <3>6, <3>7, Zenon
  <2> QED BY <2>1, <2>2
<1>17. /\ LengthL(st, cb) = Len(msg \o data) % WordRange
       /\ LengthH(st, cb) = (Len(msg \o data) \div WordRange) % WordRange
       /\ LengthL(st, cb) \in Words /\ LengthH(st, cb) \in Words
  <2>1. Len(msg \o data) = Len(msg) + cb /\ Len(msg) + cb \in Nat
    BY <1>1, ConcatProperties DEF cb
  <2>2. /\ st.dataLengthL = Len(msg) % WordRange
        /\ st.dataLengthH = (Len(msg) \div WordRange) % WordRange /\ cb \in Words
    BY DEF Holds, cb
  <2>3. /\ LengthL(st, cb) = (Len(msg) + cb) % WordRange
        /\ LengthH(st, cb) = ((Len(msg) + cb) \div WordRange) % WordRange
    BY <1>1, <2>2, LengthCounts
  <2>4. \A x \in Nat : x % WordRange \in Words /\ x \div WordRange \in Nat
    BY HashAssumption, Division DEF Words
  <2> QED BY <2>1, <2>3, <2>4
<1>18. inside + tail \in 0 .. B - 1
  BY <1>1, <1>4, <1>5
<1>19. /\ new.chain = chain /\ new.buffer = buf /\ new.bytesInBuffer = inside + tail
       /\ new.dataLengthL = LengthL(st, cb) /\ new.dataLengthH = LengthH(st, cb)
       /\ new = [chain |-> chain, buffer |-> buf, bytesInBuffer |-> inside + tail,
                 dataLengthL |-> LengthL(st, cb), dataLengthH |-> LengthH(st, cb)]
  BY <1>2
<1> HIDE DEF chain, buf, mid
<1>20. new \in HashStates
  BY <1>11, <1>14, <1>17, <1>18, <1>19 DEF HashStates, Buffers
<1>21. new.chain \o SubSeq(new.buffer, 1, new.bytesInBuffer) = msg \o data
  BY <1>11, <1>16, <1>19
<1>22. Holds(new, msg \o data)
  BY <1>15, <1>17, <1>19, <1>20, <1>21 DEF Holds
<1> QED BY <1>22 DEF new
-----------------------------------------------------------------------------
(* A state without a message: after Init, whatever is in the buffer.       *)
LEMMA HoldsNothing ==
  ASSUME NEW buffer \in Buffers
  PROVE  Holds([chain |-> <<>>, buffer |-> buffer, bytesInBuffer |-> 0,
                dataLengthL |-> 0, dataLengthH |-> 0], <<>>)
<1> DEFINE st == [chain |-> <<>>, buffer |-> buffer, bytesInBuffer |-> 0,
                  dataLengthL |-> 0, dataLengthH |-> 0]
<1>1. /\ st.chain = <<>> /\ st.buffer = buffer /\ st.bytesInBuffer = 0
      /\ st.dataLengthL = 0 /\ st.dataLengthH = 0
  OBVIOUS
<1>2. InputBlockSize \in Nat \ {0} /\ WordRange \in Nat \ {0}
  BY HashAssumption
<1>3. <<>> \in Seq(Int) /\ Len(<<>>) = 0
  OBVIOUS
<1>4. 0 % InputBlockSize = 0 /\ 0 % WordRange = 0 /\ 0 \div WordRange = 0
  BY <1>2
<1>5. st \in HashStates
  BY <1>2, <1>3 DEF HashStates, Buffers, Words
<1>6. SubSeq(buffer, 1, 0) = <<>>
  BY SubSeqEmpty
<1>7. <<>> \o <<>> = <<>>
  BY <1>3, ConcatEmptySeq
<1> HIDE DEF st
<1>8. Holds(st, <<>>)
  BY <1>1, <1>3, <1>4, <1>5, <1>6, <1>7 DEF Holds
<1> QED BY <1>8 DEF st

(* Only the bytes in use of the buffer matter.                             *)
LEMMA HoldsSame ==
  ASSUME NEW st, NEW msg \in Seq(Int), Holds(st, msg), NEW buffer \in Buffers,
         SubSeq(buffer, 1, st.bytesInBuffer) = SubSeq(st.buffer, 1, st.bytesInBuffer)
  PROVE  Holds([chain |-> st.chain, buffer |-> buffer, bytesInBuffer |-> st.bytesInBuffer,
                dataLengthL |-> st.dataLengthL, dataLengthH |-> st.dataLengthH], msg)
<1> DEFINE new == [chain |-> st.chain, buffer |-> buffer, bytesInBuffer |-> st.bytesInBuffer,
                   dataLengthL |-> st.dataLengthL, dataLengthH |-> st.dataLengthH]
<1>1. /\ new.chain = st.chain /\ new.buffer = buffer /\ new.bytesInBuffer = st.bytesInBuffer
      /\ new.dataLengthL = st.dataLengthL /\ new.dataLengthH = st.dataLengthH
  OBVIOUS
<1>2. new \in HashStates
  BY DEF Holds, HashStates, Buffers
<1> HIDE DEF new
<1>3. Holds(new, msg)
  BY <1>1, <1>2 DEF Holds
<1> QED BY <1>3 DEF new

(* Only the bytes in use of a buffer are looked at.                        *)
LEMMA SameHead ==
  ASSUME NEW x \in Buffers, NEW y \in Buffers, NEW b \in 0 .. InputBlockSize,
         \A i \in 1 .. b : x[i] = y[i]
  PROVE  SubSeq(x, 1, b) = SubSeq(y, 1, b)
<1>1. b \in Nat /\ InputBlockSize \in Nat
  BY HashAssumption
<1>2. \A i \in 1 .. b : x[i] \in Int /\ y[i] \in Int
  BY <1>1 DEF Buffers
<1>3. /\ SubSeq(x, 1, b) \in Seq(Int) /\ Len(SubSeq(x, 1, b)) = b
      /\ \A i \in 1 .. b : SubSeq(x, 1, b)[i] = x[i]
  BY <1>1, <1>2, SubSeqProperties
<1>4. /\ SubSeq(y, 1, b) \in Seq(Int) /\ Len(SubSeq(y, 1, b)) = b
      /\ \A i \in 1 .. b : SubSeq(y, 1, b)[i] = y[i]
  BY <1>1, <1>2, SubSeqProperties
<1> QED BY <1>3, <1>4, SeqEqual

(* The length counted and the bytes in the buffer agree: an import derives *)
(* the one from the other.                                                 *)
LEMMA BytesFromLength ==
  ASSUME NEW st, NEW msg \in Seq(Int), Holds(st, msg)
  PROVE  st.dataLengthL % InputBlockSize = st.bytesInBuffer
<1> DEFINE B == InputBlockSize
           W == WordRange
           n == Len(msg)
           b == st.bytesInBuffer
           q == n \div W
           w == W \div B
           L == n % W
           e == L \div B
           f == L % B
<1>1. B \in Nat \ {0} /\ W \in Nat \ {0} /\ W % B = 0 /\ n \in Nat
  BY HashAssumption, LenProperties
<1>2. PICK c \in Nat : Len(st.chain) = c * B
  BY HoldsParts
<1>3. n = Len(st.chain) + b /\ b \in 0 .. B - 1
  BY HoldsParts
<1>4. q \in Nat /\ L \in Nat /\ n = q * W + L
  <2>1. q \in Nat /\ L \in 0 .. W - 1 /\ n = q * W + L
    BY <1>1, Division
  <2> HIDE DEF q, L
  <2> QED BY <1>1, <2>1
<1>5. w \in Nat /\ W = w * B + (W % B)
  BY <1>1, Division
<1>6. e \in Nat /\ f \in 0 .. B - 1 /\ L = e * B + f
  <2> HIDE DEF L
  <2> QED BY <1>1, <1>4, Division
<1>7. st.dataLengthL = L
  BY DEF Holds
<1> HIDE DEF B, W, n, b, q, w, L, e, f
<1>8. W = w * B
  BY <1>1, <1>5
<1>9. n = (q * w + e) * B + f /\ q * w + e \in Nat
  <2>1. q * W = (q * w) * B
    BY <1>1, <1>4, <1>5, <1>8
  <2>2. q * w \in Nat
    BY <1>4, <1>5
  <2>3. \A x \in Nat : (x + e) * B = x * B + e * B
    BY <1>1, <1>6
  <2>4. (q * w + e) * B = (q * w) * B + e * B
    BY <2>2, <2>3
  <2>5. (q * w) * B \in Int /\ e * B \in Int
    BY <1>1, <1>6, <2>2
  <2> QED BY <1>4, <1>6, <2>1, <2>2, <2>4, <2>5
<1>10. n % B = f
  <2>1. \A x \in Nat : n = x * B + f => n % B = f
    BY <1>1, <1>6, DivisionUnique
  <2> QED BY <1>9, <2>1
<1>11. n % B = b
  <2>1. n = c * B + b
    BY <1>2, <1>3
  <2> QED BY <1>1, <1>3, <2>1, DivisionUnique
<1>12. f = b
  BY <1>10, <1>11
<1> QED BY <1>7, <1>12 DEF f, b, B

(* A wiped buffer is a buffer.                                             *)
LEMMA ZeroIsBuffer == ZeroBuffer \in Buffers
  BY DEF ZeroBuffer, Buffers, Zero

(* The blob of an export, in the bytes in use the buffer of the state.     *)
LEMMA BlobBufferIs ==
  ASSUME NEW st, NEW msg \in Seq(Int), Holds(st, msg)
  PROVE  /\ BlobBuffer(st) \in Buffers
         /\ SubSeq(BlobBuffer(st), 1, st.bytesInBuffer) = SubSeq(st.buffer, 1, st.bytesInBuffer)
         /\ \A i \in 1 .. InputBlockSize : i > st.bytesInBuffer => BlobBuffer(st)[i] = Zero
<1>1. st.dataLengthL % InputBlockSize = st.bytesInBuffer
  BY BytesFromLength
<1>2. BlobBuffer(st) = [i \in 1 .. InputBlockSize |-> IF i <= st.bytesInBuffer THEN st.buffer[i] ELSE Zero]
  BY <1>1 DEF BlobBuffer
<1>3. /\ st.buffer \in Buffers /\ st.bytesInBuffer \in 0 .. InputBlockSize - 1
      /\ InputBlockSize \in Nat
  BY HoldsParts, HashAssumption
<1>4. BlobBuffer(st) \in Buffers
  BY <1>2, <1>3 DEF Buffers, Zero
<1>5. \A i \in 1 .. st.bytesInBuffer : BlobBuffer(st)[i] = st.buffer[i]
  BY <1>2, <1>3
<1>6. SubSeq(BlobBuffer(st), 1, st.bytesInBuffer) = SubSeq(st.buffer, 1, st.bytesInBuffer)
  <2>1. st.bytesInBuffer \in 0 .. InputBlockSize
    BY <1>3
  <2> QED BY <1>3, <1>4, <1>5, <2>1, SameHead
<1>7. \A i \in 1 .. InputBlockSize : i > st.bytesInBuffer => BlobBuffer(st)[i] = Zero
  BY <1>2, <1>3
<1> QED BY <1>4, <1>6, <1>7

(* The states of the caller have taken nothing yet, and there is no blob.  *)
LEMMA ObjectInitially == ObjectInit => ObjectInv
<1> SUFFICES ASSUME ObjectInit PROVE ObjectInv
  OBVIOUS
<1>1. Holds(WipedState, <<>>)
  BY HoldsNothing, ZeroIsBuffer DEF WipedState
<1>2. WipedState \in HashStates
  BY <1>1 DEF Holds
<1>3. <<>> \in Seq(Int)
  OBVIOUS
<1>4. ObjectTypeOK
  BY <1>2, <1>3 DEF ObjectInit, ObjectTypeOK
<1>5. BufferHoldsTail
  BY <1>1 DEF ObjectInit, BufferHoldsTail
<1>6. BlobLaw
  BY DEF ObjectInit, BlobLaw
<1> QED BY <1>4, <1>5, <1>6 DEF ObjectInv

(* A step that gives one object a state that holds its message.            *)
LEMMA OneObject ==
  ASSUME ObjectInv, NEW o \in Objects, NEW st, NEW msg \in Seq(Int), Holds(st, msg),
         state' = [state EXCEPT ![o] = st], message' = [message EXCEPT ![o] = msg], blob' = blob
  PROVE  ObjectInv'
<1>1. st \in HashStates
  BY DEF Holds
<1>2. ObjectTypeOK'
  BY <1>1 DEF ObjectInv, ObjectTypeOK, HashStates, Words
<1>3. ASSUME NEW p \in Objects PROVE Holds(state'[p], message'[p])
  <2>1. CASE p = o
    BY <2>1 DEF ObjectInv, ObjectTypeOK
  <2>2. CASE p # o
    BY <2>2 DEF ObjectInv, ObjectTypeOK, BufferHoldsTail
  <2> QED BY <2>1, <2>2
<1>4. BufferHoldsTail'
  BY <1>3 DEF BufferHoldsTail, Holds, HashStates, Words
<1>5. BlobLaw'
  BY DEF ObjectInv, BlobLaw, BlobState, Holds, HashStates, Words
<1> QED BY <1>2, <1>4, <1>5 DEF ObjectInv

(* Every call on a state or a blob keeps what they hold.                   *)
LEMMA ObjectStep == ObjectInv /\ [ObjectNext]_objectVars => ObjectInv'
<1> SUFFICES ASSUME ObjectInv, [ObjectNext]_objectVars PROVE ObjectInv'
  OBVIOUS
<1>a. \A p \in Objects : /\ state[p] \in HashStates /\ message[p] \in Seq(Int)
                          /\ Holds(state[p], message[p]) /\ state[p].buffer \in Buffers
  BY DEF ObjectInv, ObjectTypeOK, BufferHoldsTail, HashStates, Buffers
<1>1. ASSUME NEW o \in Objects, XxxInit(o) PROVE ObjectInv'
  <2>1. Holds(HashInit(state[o]), <<>>)
    BY <1>a, HoldsNothing DEF HashInit
  <2>2. <<>> \in Seq(Int)
    OBVIOUS
  <2>3. /\ state' = [state EXCEPT ![o] = HashInit(state[o])]
        /\ message' = [message EXCEPT ![o] = <<>>] /\ blob' = blob
    BY <1>1 DEF XxxInit
  <2> QED BY <2>1, <2>2, <2>3, OneObject
<1>2. ASSUME NEW o \in Objects, NEW cb \in Sizes, NEW tag \in Tags, XxxAppend(o, cb, tag)
      PROVE  ObjectInv'
  <2> DEFINE data == [i \in 1 .. cb |-> tag + Len(message[o]) + i]
  <2>1. cb \in Nat /\ cb \in Words /\ tag \in Nat /\ Len(message[o]) \in Nat
    BY <1>a, ObjectAssumption, LenProperties DEF Words
  <2>2. data \in Seq(Int) /\ Len(data) = cb
    BY <2>1, IsASeq
  <2>3. /\ state' = [state EXCEPT ![o] = HashAppend(state[o], data)]
        /\ message' = [message EXCEPT ![o] = message[o] \o data] /\ blob' = blob
    BY <1>2 DEF XxxAppend
  <2> HIDE DEF data
  <2>4. Holds(HashAppend(state[o], data), message[o] \o data)
    BY <1>a, <2>1, <2>2, AppendHolds
  <2>5. message[o] \o data \in Seq(Int)
    BY <1>a, <2>2, Regroup
  <2> QED BY <2>3, <2>4, <2>5, OneObject
<1>3. ASSUME NEW o \in Objects, XxxResult(o) PROVE ObjectInv'
  <2>1. Holds(HashResult(state[o]), <<>>)
    BY HoldsNothing, ZeroIsBuffer DEF HashResult, WipedState
  <2>2. <<>> \in Seq(Int)
    OBVIOUS
  <2>3. /\ state' = [state EXCEPT ![o] = HashResult(state[o])]
        /\ message' = [message EXCEPT ![o] = <<>>] /\ blob' = blob
    BY <1>3 DEF XxxResult
  <2> QED BY <2>1, <2>2, <2>3, OneObject
<1>4. ASSUME NEW o \in Objects, NEW p \in Objects \ {o}, XxxStateCopy(o, p) PROVE ObjectInv'
  <2>1. /\ state' = [state EXCEPT ![p] = state[o]]
        /\ message' = [message EXCEPT ![p] = message[o]] /\ blob' = blob /\ p \in Objects
    BY <1>4 DEF XxxStateCopy
  <2> QED BY <1>a, <2>1, OneObject
<1>5. ASSUME NEW o \in Objects, XxxStateExport(o) PROVE ObjectInv'
  <2> DEFINE st == state[o]
             new == [chain |-> st.chain, buffer |-> BlobBuffer(st), bytesInBuffer |-> st.bytesInBuffer,
                     dataLengthL |-> st.dataLengthL, dataLengthH |-> st.dataLengthH]
  <2>1. /\ blob' = [exported |-> TRUE, chain |-> st.chain, buffer |-> BlobBuffer(st),
                    dataLengthL |-> st.dataLengthL, dataLengthH |-> st.dataLengthH,
                    message |-> message[o]]
        /\ state' = state /\ message' = message
    BY <1>5 DEF XxxStateExport
  <2>2. Holds(st, message[o]) /\ message[o] \in Seq(Int)
    BY <1>a
  <2>3. /\ BlobBuffer(st) \in Buffers
        /\ SubSeq(BlobBuffer(st), 1, st.bytesInBuffer) = SubSeq(st.buffer, 1, st.bytesInBuffer)
        /\ \A i \in 1 .. InputBlockSize : i > st.bytesInBuffer => BlobBuffer(st)[i] = Zero
    BY <2>2, BlobBufferIs
  <2>4. Holds(new, message[o])
    BY <2>2, <2>3, HoldsSame
  <2>5. st.dataLengthL % InputBlockSize = st.bytesInBuffer
    BY <2>2, BytesFromLength
  <2>6. /\ blob'.exported = TRUE /\ blob'.message = message[o]
        /\ blob'.dataLengthL = st.dataLengthL /\ blob'.buffer = BlobBuffer(st)
        /\ blob'.chain = st.chain /\ blob'.dataLengthH = st.dataLengthH
    BY <2>1
  <2>7. BlobState' = new
    BY <2>5, <2>6 DEF BlobState
  <2>8. Holds(BlobState, blob.message)'
    <3>1. Holds(BlobState', blob'.message)
      BY <2>4, <2>6, <2>7
    <3> QED BY <3>1 DEF Holds, HashStates, Words
  <2>9. BlobLaw'
    BY <2>3, <2>5, <2>6, <2>8 DEF BlobLaw
  <2>10. ObjectTypeOK' /\ BufferHoldsTail'
    BY <2>1 DEF ObjectInv, ObjectTypeOK, BufferHoldsTail, Holds, HashStates, Words
  <2> QED BY <2>9, <2>10 DEF ObjectInv
<1>6. ASSUME NEW o \in Objects, XxxStateImport(o) PROVE ObjectInv'
  <2> DEFINE bytes == blob.dataLengthL % InputBlockSize
             part == SubSeq(blob.buffer, 1, bytes)
             buffer == Overwrite(state[o].buffer, 0, part)
             new == [chain |-> blob.chain, buffer |-> buffer, bytesInBuffer |-> bytes,
                     dataLengthL |-> blob.dataLengthL, dataLengthH |-> blob.dataLengthH]
  <2>1. /\ blob.exported
        /\ state' = [state EXCEPT ![o] = new]
        /\ message' = [message EXCEPT ![o] = blob.message] /\ blob' = blob
    BY <1>6 DEF XxxStateImport
  <2>2. Holds(BlobState, blob.message)
    BY <2>1 DEF ObjectInv, BlobLaw, NoBlob
  <2>3. /\ BlobState.chain = blob.chain /\ BlobState.buffer = blob.buffer /\ BlobState.bytesInBuffer = bytes
        /\ BlobState.dataLengthL = blob.dataLengthL /\ BlobState.dataLengthH = blob.dataLengthH
    BY DEF BlobState
  <2>4. blob.message \in Seq(Int)
    BY <2>2, HeldIsBytes
  <2>5. /\ part \in Seq(Int) /\ Len(part) = bytes /\ bytes \in 0 .. InputBlockSize - 1
    BY <2>2, <2>3, <2>4, HoldsParts
  <2> HIDE DEF part, bytes
  <2>6. 0 \in 0 .. InputBlockSize /\ 0 + Len(part) <= InputBlockSize /\ 0 + bytes = bytes
    BY <2>5, HashAssumption
  <2>7. /\ buffer \in Buffers
        /\ SubSeq(buffer, 1, 0 + Len(part)) = SubSeq(state[o].buffer, 1, 0) \o part
    BY <1>a, <2>5, <2>6, OverwriteIs
  <2>8. SubSeq(state[o].buffer, 1, 0) \o part = part
    BY <2>5, SubSeqEmpty, ConcatEmptySeq
  <2> HIDE DEF buffer
  <2>9. SubSeq(buffer, 1, BlobState.bytesInBuffer) = SubSeq(BlobState.buffer, 1, BlobState.bytesInBuffer)
    BY <2>3, <2>5, <2>6, <2>7, <2>8 DEF part
  <2>10. Holds([chain |-> BlobState.chain, buffer |-> buffer, bytesInBuffer |-> BlobState.bytesInBuffer,
                dataLengthL |-> BlobState.dataLengthL, dataLengthH |-> BlobState.dataLengthH], blob.message)
    BY <2>2, <2>4, <2>7, <2>9, HoldsSame
  <2>11. Holds(new, blob.message)
    BY <2>3, <2>10
  <2> QED BY <2>1, <2>4, <2>11, OneObject
<1>7. CASE UNCHANGED objectVars
  BY <1>7 DEF objectVars, ObjectInv, ObjectTypeOK, BufferHoldsTail, BlobLaw, BlobState, Holds, HashStates, Words
<1> QED BY <1>1, <1>2, <1>3, <1>4, <1>5, <1>6, <1>7 DEF ObjectNext

(* Every object holds its message and so does the blob: an invariant for   *)
(* any objects, sizes of appends below a word's range and block sizes.     *)
THEOREM ObjectInvariance == ObjectSpec => []ObjectInv
  BY ObjectInitially, ObjectStep, PTL DEF ObjectSpec

(* The result of an object is at any time the hash of the padded message   *)
(* of the standard: SymCryptXxxResult after any appends, copies and        *)
(* imports, also when the length in bits takes more than a word.           *)
THEOREM ObjectResultIsReference == ObjectSpec => []ResultIsReference
<1>1. ObjectInv => ResultIsReference
  <2> SUFFICES ASSUME ObjectInv, NEW o \in Objects
               PROVE  HashDigest(state[o]) = PaddedMessage(message[o])
    BY DEF ResultIsReference
  <2>1. message[o] \in Seq(Int) /\ Holds(state[o], message[o])
    BY DEF ObjectInv, ObjectTypeOK, BufferHoldsTail
  <2> QED BY <2>1, DigestIsPadded
<1> QED BY <1>1, ObjectInvariance, PTL

(* SymCryptXxxStateExport gives out no byte of the buffer but those of the *)
(* message that is being hashed.                                           *)
THEOREM ObjectBlobHoldsOnlyMessage == ObjectSpec => []BlobHoldsOnlyMessage
<1>1. ObjectInv => BlobHoldsOnlyMessage
  <2> SUFFICES ASSUME ObjectInv, blob.exported, NEW i \in 1 .. InputBlockSize, blob.buffer[i] # Zero
               PROVE  \E j \in 1 .. Len(blob.message) : blob.message[j] = blob.buffer[i]
    BY DEF BlobHoldsOnlyMessage
  <2>1. /\ Holds(BlobState, blob.message)
        /\ \A k \in 1 .. InputBlockSize : k > blob.dataLengthL % InputBlockSize => blob.buffer[k] = Zero
    BY DEF ObjectInv, BlobLaw, NoBlob
  <2> DEFINE b == BlobState.bytesInBuffer
             c == Len(BlobState.chain)
  <2>2. b = blob.dataLengthL % InputBlockSize /\ BlobState.buffer = blob.buffer
    BY DEF BlobState
  <2>3. /\ b \in 0 .. InputBlockSize - 1 /\ Len(blob.message) = c + b /\ c \in Nat
        /\ \A k \in 1 .. b : blob.message[c + k] = BlobState.buffer[k]
    <3>1. blob.message \in Seq(Int)
      BY <2>1, HeldIsBytes
    <3>2. BlobState.chain \in Seq(Int)
      BY <2>1, <3>1, HoldsParts
    <3> QED BY <2>1, <3>1, <3>2, HoldsParts, LenProperties
  <2> HIDE DEF b, c
  <2>4. i <= b
    <3>1. ~(i > b)
      BY <2>1, <2>2
    <3> QED BY <2>3, <3>1
  <2>5. i \in 1 .. b /\ c + i \in 1 .. Len(blob.message)
    BY <2>3, <2>4, HashAssumption
  <2> QED BY <2>2, <2>3, <2>5
<1> QED BY <1>1, ObjectInvariance, PTL
-----------------------------------------------------------------------------
(* A state whose fields are set directly: whole blocks in the chaining     *)
(* state, the rest in the buffer, the length in the low word.              *)
LEMMA HoldsByHand ==
  ASSUME NEW chain \in Seq(Int), NEW buffer \in Buffers, NEW b \in 0 .. InputBlockSize - 1, NEW len \in Words,
         Len(chain) = InputBlockSize, len = InputBlockSize + b
  PROVE  Holds([chain |-> chain, buffer |-> buffer, bytesInBuffer |-> b, dataLengthL |-> len, dataLengthH |-> 0],
               chain \o SubSeq(buffer, 1, b))
<1> DEFINE st == [chain |-> chain, buffer |-> buffer, bytesInBuffer |-> b, dataLengthL |-> len, dataLengthH |-> 0]
           msg == chain \o SubSeq(buffer, 1, b)
<1>1. /\ st.chain = chain /\ st.buffer = buffer /\ st.bytesInBuffer = b
      /\ st.dataLengthL = len /\ st.dataLengthH = 0
  OBVIOUS
<1>2. InputBlockSize \in Nat \ {0} /\ WordRange \in Nat \ {0} /\ len \in Nat /\ len < WordRange /\ b \in Int
  BY HashAssumption DEF Words
<1>3. st \in HashStates
  BY <1>2 DEF HashStates, Buffers, Words
<1>4. SubSeq(buffer, 1, b) \in Seq(Int) /\ Len(SubSeq(buffer, 1, b)) = b
  <2>1. \A i \in 1 .. b : buffer[i] \in Int
    BY <1>2 DEF Buffers
  <2> QED BY <1>2, <2>1, SubSeqProperties
<1>5. Len(msg) = len
  BY <1>4, ConcatProperties
<1>6. len % WordRange = len /\ len \div WordRange = 0 /\ 0 % WordRange = 0
  BY <1>2
<1>7. InputBlockSize % InputBlockSize = 0
  BY <1>2
<1> HIDE DEF st, msg
<1>8. Holds(st, msg)
  BY <1>1, <1>3, <1>5, <1>6, <1>7 DEF Holds, msg
<1> QED BY <1>8 DEF st, msg

(* The two chaining states of an expanded key.                             *)
LEMMA KeyStates ==
  ASSUME NEW cbKey \in HmacKeySizes
  PROVE  /\ HmacExpandKey(cbKey).innerState \in Seq(Int) /\ Len(HmacExpandKey(cbKey).innerState) = InputBlockSize
         /\ HmacExpandKey(cbKey).outerState \in Seq(Int) /\ Len(HmacExpandKey(cbKey).outerState) = InputBlockSize
         /\ HmacExpandKey(cbKey).innerState = [i \in 1 .. InputBlockSize |-> Ipad(HmacKeyBlock(cbKey)[i])]
         /\ HmacExpandKey(cbKey).outerState = [i \in 1 .. InputBlockSize |-> Opad(HmacKeyBlock(cbKey)[i])]
<1>1. \A i \in 1 .. InputBlockSize : HmacKeyBlock(cbKey)[i] \in Int
  BY DEF HmacKeyBlock, KeyByteOf, DigestByte, Zero
<1>2. \A i \in 1 .. InputBlockSize : Ipad(HmacKeyBlock(cbKey)[i]) \in Int /\ Opad(HmacKeyBlock(cbKey)[i]) \in Int
  BY <1>1 DEF Ipad, Opad
<1>3. /\ HmacExpandKey(cbKey).innerState = [i \in 1 .. InputBlockSize |-> Ipad(HmacKeyBlock(cbKey)[i])]
      /\ HmacExpandKey(cbKey).outerState = [i \in 1 .. InputBlockSize |-> Opad(HmacKeyBlock(cbKey)[i])]
  BY DEF HmacExpandKey
<1>4. InputBlockSize \in Nat
  BY HashAssumption
<1> QED BY <1>2, <1>3, <1>4, IsASeq

(* A key longer than a block is hashed as the standard says.               *)
LEMMA LongKeyHashed ==
  ASSUME NEW cbKey \in HmacKeySizes
  PROVE  HmacExpandKey(cbKey).hashed = HmacReference(cbKey, 0).key
<1> DEFINE data == [i \in 1 .. cbKey |-> KeyByteOf(i)]
           start == HashInit(WipedState)
<1>1. cbKey \in Nat /\ cbKey \in Words
  BY HmacAssumption, HashAssumption DEF Words
<1>2. data \in Seq(Int) /\ Len(data) = cbKey
  BY <1>1, IsASeq DEF KeyByteOf
<1>3. Holds(start, <<>>)
  BY HoldsNothing, ZeroIsBuffer DEF HashInit, WipedState
<1> HIDE DEF data, start
<1>4. <<>> \in Seq(Int) /\ <<>> \o data = data
  BY <1>2, ConcatEmptySeq
<1>5. Holds(HashAppend(start, data), <<>> \o data)
  BY <1>1, <1>2, <1>3, <1>4, AppendHolds
<1>6. HashDigest(HashAppend(start, data)) = PaddedMessage(data)
  BY <1>2, <1>4, <1>5, DigestIsPadded
<1> QED BY <1>6 DEF HmacExpandKey, HmacReference, data, start

(* SymCryptHmacXxxInit.                                                    *)
LEMMA StartHolds ==
  ASSUME NEW hash \in HashStates, NEW cbKey \in HmacKeySizes
  PROVE  Holds(HmacStart(hash, HmacExpandKey(cbKey).innerState), InnerMessage(cbKey, 0))
<1> DEFINE chain == HmacExpandKey(cbKey).innerState
<1>1. chain \in Seq(Int) /\ Len(chain) = InputBlockSize
  BY KeyStates
<1> HIDE DEF chain
<1>2. hash.buffer \in Buffers
  BY DEF HashStates, Buffers
<1>3. HmacStart(hash, chain) = [chain |-> chain, buffer |-> hash.buffer, bytesInBuffer |-> 0,
                                dataLengthL |-> InputBlockSize, dataLengthH |-> 0]
  BY DEF HmacStart
<1>4. 0 \in 0 .. InputBlockSize - 1 /\ InputBlockSize \in Words /\ InputBlockSize = InputBlockSize + 0
  BY HashAssumption, HmacAssumption DEF Words
<1>5. Holds(HmacStart(hash, chain), chain \o SubSeq(hash.buffer, 1, 0))
  BY <1>1, <1>2, <1>3, <1>4, HoldsByHand
<1>6. SubSeq(hash.buffer, 1, 0) = <<>>
  BY SubSeqEmpty
<1>7. HmacBytes(0, 0) = <<>>
  BY DEF HmacBytes
<1> QED BY <1>5, <1>6, <1>7 DEF chain, InnerMessage

(* The outer hash of SymCryptHmacXxxResult.                                *)
LEMMA OuterHolds ==
  ASSUME NEW hash, NEW cbKey \in HmacKeySizes
  PROVE  HashDigest(HmacOuter(hash, HmacExpandKey(cbKey).outerState)) = HmacReference(cbKey, 0).outer
<1> DEFINE chain == HmacExpandKey(cbKey).outerState
           digest == [j \in 1 .. ResultSize |-> DigestByte(j)]
           buffer == Overwrite(ZeroBuffer, 0, digest)
           len == InputBlockSize + ResultSize
<1>1. chain \in Seq(Int) /\ Len(chain) = InputBlockSize
  BY KeyStates
<1>2. /\ ResultSize \in 0 .. InputBlockSize - 1 /\ ResultSize \in Nat /\ len \in Words
      /\ 0 \in 0 .. InputBlockSize /\ 0 + ResultSize <= InputBlockSize /\ 0 + ResultSize = ResultSize
  BY HashAssumption, HmacAssumption DEF Words
<1>3. digest \in Seq(Int) /\ Len(digest) = ResultSize
  BY <1>2, IsASeq DEF DigestByte
<1>4. HmacOuter(hash, chain) = [chain |-> chain, buffer |-> buffer, bytesInBuffer |-> ResultSize,
                                dataLengthL |-> len, dataLengthH |-> 0]
  BY DEF HmacOuter, HashResult, WipedState
<1>5. chain \o digest = [i \in 1 .. InputBlockSize |-> Opad(HmacKeyBlock(cbKey)[i])] \o digest
  BY KeyStates
<1> HIDE DEF chain, digest
<1>6. buffer \in Buffers /\ SubSeq(buffer, 1, 0 + Len(digest)) = SubSeq(ZeroBuffer, 1, 0) \o digest
  BY <1>2, <1>3, ZeroIsBuffer, OverwriteIs
<1>7. SubSeq(buffer, 1, ResultSize) = digest
  BY <1>2, <1>3, <1>6, SubSeqEmpty, ConcatEmptySeq
<1> HIDE DEF buffer, len
<1>8. len = InputBlockSize + ResultSize
  BY DEF len
<1>9. Holds(HmacOuter(hash, chain), chain \o SubSeq(buffer, 1, ResultSize))
  BY <1>1, <1>2, <1>4, <1>6, <1>8, HoldsByHand
<1>10. chain \o digest \in Seq(Int)
  BY <1>1, <1>3, Regroup
<1>11. HashDigest(HmacOuter(hash, chain)) = PaddedMessage(chain \o digest)
  BY <1>7, <1>9, <1>10, DigestIsPadded
<1> QED BY <1>5, <1>11 DEF chain, digest, HmacReference

(* SymCryptHmacXxxAppend.                                                  *)
LEMMA HmacAppendHolds ==
  ASSUME NEW hash, NEW cbKey \in HmacKeySizes, NEW n \in Nat, NEW cb \in HmacSizes,
         Holds(hash, InnerMessage(cbKey, n))
  PROVE  Holds(HashAppend(hash, HmacBytes(n, n + cb)), InnerMessage(cbKey, n + cb))
<1> DEFINE chain == HmacExpandKey(cbKey).innerState
           x == HmacBytes(0, n)
           y == HmacBytes(n, n + cb)
           z == HmacBytes(0, n + cb)
<1>1. chain \in Seq(Int)
  BY KeyStates
<1>2. cb \in Nat /\ cb \in Words /\ n + cb \in Nat
  BY HmacAssumption, HashAssumption DEF Words
<1>3. x \in Seq(Int) /\ Len(x) = n /\ (\A i \in 1 .. n : x[i] = i)
  BY IsASeq DEF HmacBytes
<1>4. y \in Seq(Int) /\ Len(y) = cb /\ (\A i \in 1 .. cb : y[i] = n + i)
  <2>1. (n + cb) - n = cb
    BY <1>2
  <2>2. y = [i \in 1 .. cb |-> n + i]
    BY <2>1 DEF HmacBytes
  <2> HIDE DEF y
  <2>3. \A i \in 1 .. cb : n + i \in Int
    OBVIOUS
  <2>4. [i \in 1 .. cb |-> n + i] \in Seq(Int)
    BY <1>2, <2>3, IsASeq
  <2> QED BY <1>2, <2>2, <2>4
<1>5. z \in Seq(Int) /\ Len(z) = n + cb /\ (\A i \in 1 .. n + cb : z[i] = i)
  <2>1. (n + cb) - 0 = n + cb
    BY <1>2
  <2>2. z = [i \in 1 .. n + cb |-> 0 + i]
    BY <2>1 DEF HmacBytes
  <2> HIDE DEF z
  <2>3. \A i \in 1 .. n + cb : 0 + i \in Int /\ 0 + i = i
    OBVIOUS
  <2>4. [i \in 1 .. n + cb |-> 0 + i] \in Seq(Int)
    BY <1>2, <2>3, IsASeq
  <2> QED BY <1>2, <2>2, <2>3, <2>4
<1> HIDE DEF chain, x, y, z
<1>6. x \o y = z
  <2>1. /\ x \o y \in Seq(Int) /\ Len(x \o y) = n + cb
        /\ \A i \in 1 .. n + cb : (x \o y)[i] = IF i <= n THEN x[i] ELSE y[i - n]
    BY <1>3, <1>4, Joined
  <2>2. ASSUME NEW i \in 1 .. n + cb PROVE (x \o y)[i] = z[i]
    <3>1. CASE i <= n
      BY <1>3, <1>5, <2>1, <3>1
    <3>2. CASE ~(i <= n)
      <4>1. i - n \in 1 .. cb /\ n + (i - n) = i
        BY <1>2, <3>2
      <4> QED BY <1>4, <1>5, <2>1, <3>2, <4>1
    <3> QED BY <3>1, <3>2
  <2> QED BY <1>5, <2>1, <2>2, SeqEqual
<1>7. chain \o x \in Seq(Int) /\ (chain \o x) \o y = chain \o z
  <2>1. chain \o x \in Seq(Int) /\ (chain \o x) \o y = chain \o (x \o y)
    BY <1>1, <1>3, <1>4, Regroup, Zenon
  <2> QED BY <1>6, <2>1
<1>8. Holds(hash, chain \o x)
  BY DEF InnerMessage, chain, x
<1>9. Len(y) \in Words
  BY <1>2, <1>4
<1>10. Holds(HashAppend(hash, y), (chain \o x) \o y)
  BY <1>4, <1>7, <1>8, <1>9, AppendHolds
<1> QED BY <1>7, <1>10 DEF InnerMessage, chain, x, y, z

(* No HMAC state has a key yet.                                            *)
LEMMA HmacInitially == HmacInit => HmacInv
<1> SUFFICES ASSUME HmacInit PROVE HmacInv
  OBVIOUS
<1>1. WipedState \in HashStates
  <2>1. Holds(WipedState, <<>>)
    BY HoldsNothing, ZeroIsBuffer DEF WipedState
  <2> QED BY <2>1 DEF Holds
<1> QED BY <1>1 DEF HmacInit, HmacInv

(* A step that gives one object a hash that holds what its key and message *)
(* ask for.                                                                *)
LEMMA OneHmac ==
  ASSUME HmacInv, NEW o \in HmacObjects, NEW hash \in HashStates, NEW key \in HmacKeySizes \cup {NoKey},
         NEW n \in Nat, key # NoKey => Holds(hash, InnerMessage(key, n)),
         hmac' = [hmac EXCEPT ![o] = [hash |-> hash, key |-> key]],
         hmacMessage' = [hmacMessage EXCEPT ![o] = n]
  PROVE  HmacInv'
<1>1. /\ hmac' \in [HmacObjects -> [hash : HashStates, key : HmacKeySizes \cup {NoKey}]]
      /\ hmacMessage' \in [HmacObjects -> Nat]
  BY DEF HmacInv
<1>2. ASSUME NEW p \in HmacObjects, hmac'[p].key # NoKey
      PROVE  Holds(hmac'[p].hash, InnerMessage(hmac'[p].key, hmacMessage'[p]))
  <2>1. CASE p = o
    <3>1. hmac'[p].hash = hash /\ hmac'[p].key = key /\ hmacMessage'[p] = n
      BY <2>1 DEF HmacInv
    <3> QED BY <1>2, <3>1
  <2>2. CASE p # o
    <3>1. hmac'[p] = hmac[p] /\ hmacMessage'[p] = hmacMessage[p]
      BY <2>2 DEF HmacInv
    <3> QED BY <1>2, <3>1 DEF HmacInv
  <2> QED BY <2>1, <2>2
<1> QED BY <1>1, <1>2 DEF HmacInv, Holds, HashStates, Words, InnerMessage, HmacExpandKey, HmacBytes

(* What the invariant says of one object.                                  *)
LEMMA HmacObject ==
  ASSUME HmacInv, NEW p \in HmacObjects
  PROVE  /\ hmac[p].hash \in HashStates /\ hmac[p].key \in HmacKeySizes \cup {NoKey}
         /\ hmac[p] = [hash |-> hmac[p].hash, key |-> hmac[p].key]
         /\ hmacMessage[p] \in Nat
         /\ hmac[p].key # NoKey => Holds(hmac[p].hash, InnerMessage(hmac[p].key, hmacMessage[p]))
  BY DEF HmacInv

(* Every call keeps the key block and the message in the inner hash.       *)
LEMMA HmacStep == HmacInv /\ [HmacNext]_hmacVars => HmacInv'
<1> SUFFICES ASSUME HmacInv, [HmacNext]_hmacVars PROVE HmacInv'
  OBVIOUS
<1>1. ASSUME NEW o \in HmacObjects, NEW cbKey \in HmacKeySizes, HmacXxxInit(o, cbKey) PROVE HmacInv'
  <2> DEFINE new == HmacStart(hmac[o].hash, HmacExpandKey(cbKey).innerState)
  <2>1. Holds(new, InnerMessage(cbKey, 0))
    <3>1. hmac[o].hash \in HashStates
      BY HmacObject
    <3> QED BY <3>1, StartHolds
  <2>2. new \in HashStates
    BY <2>1 DEF Holds
  <2>3. /\ hmac' = [hmac EXCEPT ![o] = [hash |-> new, key |-> cbKey]]
        /\ hmacMessage' = [hmacMessage EXCEPT ![o] = 0]
    BY <1>1 DEF HmacXxxInit
  <2> HIDE DEF new
  <2> QED BY <2>1, <2>2, <2>3, OneHmac
<1>2. ASSUME NEW o \in HmacObjects, NEW cb \in HmacSizes, HmacXxxAppend(o, cb) PROVE HmacInv'
  <2> DEFINE n == hmacMessage[o]
             key == hmac[o].key
             new == HashAppend(hmac[o].hash, HmacBytes(n, n + cb))
  <2>a. /\ hmac[o].hash \in HashStates /\ key \in HmacKeySizes \cup {NoKey} /\ key # NoKey
        /\ hmac[o] = [hash |-> hmac[o].hash, key |-> key]
        /\ n \in Nat /\ Holds(hmac[o].hash, InnerMessage(key, n))
    <3>1. hmac[o].key # NoKey
      BY <1>2 DEF HmacXxxAppend
    <3> QED BY <3>1, HmacObject
  <2>b. cb \in Nat
    BY HmacAssumption
  <2>1. key \in HmacKeySizes /\ n \in Nat /\ n + cb \in Nat
    BY <2>a, <2>b
  <2>2. Holds(new, InnerMessage(key, n + cb))
    <3> HIDE DEF key, n
    <3> QED BY <2>a, <2>1, HmacAppendHolds
  <2>3. new \in HashStates
    BY <2>2 DEF Holds
  <2>4. /\ hmac' = [hmac EXCEPT ![o] = [hash |-> new, key |-> key]]
        /\ hmacMessage' = [hmacMessage EXCEPT ![o] = n + cb]
    <3>1. hmac' = [hmac EXCEPT ![o] = [hmac[o] EXCEPT !.hash = new]]
      BY <1>2 DEF HmacXxxAppend
    <3>2. [hmac[o] EXCEPT !.hash = new] = [hash |-> new, key |-> key]
      <4> HIDE DEF new, key
      <4> QED BY <2>a
    <3>3. hmacMessage' = [hmacMessage EXCEPT ![o] = n + cb]
      BY <1>2 DEF HmacXxxAppend
    <3> QED BY <3>1, <3>2, <3>3
  <2> HIDE DEF new, key, n
  <2> QED BY <2>1, <2>2, <2>3, <2>4, OneHmac
<1>3. ASSUME NEW o \in HmacObjects, HmacXxxResult(o) PROVE HmacInv'
  <2>1. HashResult(hmac[o].hash) \in HashStates
    <3>1. Holds(HashResult(hmac[o].hash), <<>>)
      BY HoldsNothing, ZeroIsBuffer DEF HashResult, WipedState
    <3> QED BY <3>1 DEF Holds
  <2>2. /\ hmac' = [hmac EXCEPT ![o] = [hash |-> HashResult(hmac[o].hash), key |-> NoKey]]
        /\ hmacMessage' = [hmacMessage EXCEPT ![o] = 0]
    BY <1>3 DEF HmacXxxResult
  <2> QED BY <2>1, <2>2, OneHmac
<1>4. ASSUME NEW o \in HmacObjects, NEW p \in HmacObjects \ {o}, HmacXxxStateCopy(o, p) PROVE HmacInv'
  <2>1. /\ hmac' = [hmac EXCEPT ![p] = [hash |-> hmac[o].hash, key |-> hmac[o].key]]
        /\ hmacMessage' = [hmacMessage EXCEPT ![p] = hmacMessage[o]] /\ p \in HmacObjects
    <3>1. hmac[o] = [hash |-> hmac[o].hash, key |-> hmac[o].key]
      BY HmacObject
    <3> QED BY <1>4, <3>1 DEF HmacXxxStateCopy
  <2> QED BY <2>1, HmacObject, OneHmac
<1>5. CASE UNCHANGED hmacVars
  BY <1>5 DEF hmacVars, HmacInv, Holds, HashStates, Words, InnerMessage, HmacExpandKey, HmacBytes
<1> QED BY <1>1, <1>2, <1>3, <1>4, <1>5 DEF HmacNext

(* What the invariant says of the results.                                 *)
LEMMA HmacTagRight == HmacInv => HmacIsReference
<1> SUFFICES ASSUME HmacInv, NEW o \in HmacObjects, hmac[o].key # NoKey
             PROVE  HmacTag(hmac[o].hash, hmac[o].key) = HmacReference(hmac[o].key, hmacMessage[o])
  BY DEF HmacIsReference
<1> DEFINE hash == hmac[o].hash
           key == hmac[o].key
           n == hmacMessage[o]
<1>1. key \in HmacKeySizes /\ n \in Nat /\ Holds(hash, InnerMessage(key, n))
  BY DEF HmacInv
<1> HIDE DEF hash, key, n
<1>2. InnerMessage(key, n) \in Seq(Int)
  BY <1>1, HeldIsBytes
<1>3. HashDigest(hash) = HmacReference(key, n).inner
  <2>1. HashDigest(hash) = PaddedMessage(InnerMessage(key, n))
    BY <1>1, <1>2, DigestIsPadded
  <2>2. HmacExpandKey(key).innerState = [i \in 1 .. InputBlockSize |-> Ipad(HmacKeyBlock(key)[i])]
    BY <1>1, KeyStates
  <2> QED BY <2>1, <2>2 DEF InnerMessage, HmacReference
<1>4. HashDigest(HmacOuter(hash, HmacExpandKey(key).outerState)) = HmacReference(key, n).outer
  <2>1. HmacReference(key, n).outer = HmacReference(key, 0).outer
    BY DEF HmacReference
  <2> QED BY <1>1, <2>1, OuterHolds
<1>5. HmacExpandKey(key).hashed = HmacReference(key, n).key
  <2>1. HmacReference(key, n).key = HmacReference(key, 0).key
    BY DEF HmacReference
  <2> QED BY <1>1, <2>1, LongKeyHashed
<1>6. HmacTag(hash, key) = [outer |-> HmacReference(key, n).outer, inner |-> HmacReference(key, n).inner,
                            key |-> HmacReference(key, n).key]
  BY <1>3, <1>4, <1>5 DEF HmacTag
<1>7. HmacReference(key, n) = [outer |-> HmacReference(key, n).outer, inner |-> HmacReference(key, n).inner,
                               key |-> HmacReference(key, n).key]
  BY DEF HmacReference
<1> QED BY <1>6, <1>7 DEF hash, key, n

(* The hash inside an HMAC state holds the key block and the message, for  *)
(* any objects, key sizes and sizes of appends.                            *)
THEOREM HmacInvariance == HmacSpec => []HmacInv
  BY HmacInitially, HmacStep, PTL DEF HmacSpec

(* The result of an HMAC state is at any time the HMAC of FIPS 198-1 of    *)
(* what was appended since its last Init: SymCryptHmacXxxInit sets the     *)
(* fields of the hash directly and SymCryptHmacXxxResult those of the      *)
(* outer one.                                                              *)
THEOREM HmacResultIsReference == HmacSpec => []HmacIsReference
  BY HmacInvariance, HmacTagRight, PTL
=============================================================================
