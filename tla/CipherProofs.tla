---------------------------- MODULE CipherProofs ----------------------------
(***************************************************************************)
(* For every block size, counter range and nonce range, for parts of any   *)
(* size in any order and for every mixture of the one-pass and two-pass    *)
(* code: GCM, CCM, ChaCha20, Poly1305 and ChaCha20-Poly1305 give the       *)
(* output and the tag of their standards.  The argument: counter mode is   *)
(* at its place in the key stream (CtrLaw), the MAC has taken the whole    *)
(* blocks of its text and holds the rest (MacLaw); every operation keeps   *)
(* both, and together they determine the output and the tag.               *)
(*                                                                         *)
(* For ECB, CBC, CFB and XTS, calls of any sizes, in place or not: the     *)
(* ciphertext is the standard's and decryption gives the plaintext back.   *)
(* The argument: the chaining value is the block before the place in IV    *)
(* and ciphertext, or the number of the data unit (ModesInv); every step   *)
(* of a call's loop keeps that (EncAt, DecAt).                             *)
(***************************************************************************)
EXTENDS MessageProofs

(* A text is a sequence.                                                   *)
LEMMA TextLen ==
  ASSUME NEW x, NEW n, Text(x, n)
  PROVE  n \in Nat /\ x \in Seq({x[i] : i \in 1 .. n}) /\ Len(x) = n
<1> DEFINE S == {x[i] : i \in 1 .. n}
<1>1. n \in Nat /\ x = [i \in 1 .. n |-> x[i]]
  BY DEF Text
<1>2. \A i \in 1 .. n : x[i] \in S
  OBVIOUS
<1> HIDE DEF S
<1>3. [i \in 1 .. n |-> x[i]] \in Seq(S)
  BY <1>1, <1>2, IsASeq
<1>4. x \in Seq(S)
  BY <1>1, <1>3
<1>5. DOMAIN x = 1 .. n
  BY <1>1
<1>6. Len(x) = n
  BY <1>1, <1>4, <1>5, LenProperties
<1> QED BY <1>1, <1>4, <1>6 DEF S

(* Texts with the same bytes are the same.                                 *)
LEMMA TextSame ==
  ASSUME NEW x, NEW y, NEW n, Text(x, n), Text(y, n), \A i \in 1 .. n : x[i] = y[i]
  PROVE  x = y
<1>1. x = [i \in 1 .. n |-> x[i]] /\ y = [i \in 1 .. n |-> y[i]]
  BY Zenon DEF Text
<1>2. [i \in 1 .. n |-> x[i]] = [i \in 1 .. n |-> y[i]]
  OBVIOUS
<1> QED BY <1>1, <1>2, Zenon

(* A sequence is a text of its length.                                     *)
LEMMA SeqIsText ==
  ASSUME NEW S, NEW x \in Seq(S)
  PROVE  Text(x, Len(x))
<1>1. Len(x) \in Nat /\ DOMAIN x = 1 .. Len(x) /\ x = [i \in DOMAIN x |-> x[i]]
  BY LenProperties
<1> QED BY <1>1 DEF Text

(* One text behind another.                                                *)
TextJoined(x, y, m, k) ==
  /\ Text(x \o y, m + k)
  /\ \A i \in 1 .. m : (x \o y)[i] = x[i]
  /\ \A i \in 1 .. k : (x \o y)[m + i] = y[i]

LEMMA TextJoin ==
  ASSUME NEW x, NEW y, NEW m, NEW k, Text(x, m), Text(y, k)
  PROVE  TextJoined(x, y, m, k)
<1> DEFINE S == {x[i] : i \in 1 .. m} \cup {y[i] : i \in 1 .. k}
<1>1. m \in Nat /\ k \in Nat /\ x = [i \in 1 .. m |-> x[i]] /\ y = [i \in 1 .. k |-> y[i]]
  BY DEF Text
<1>2. (\A i \in 1 .. m : x[i] \in S) /\ (\A i \in 1 .. k : y[i] \in S)
  OBVIOUS
<1> HIDE DEF S
<1>3. [i \in 1 .. m |-> x[i]] \in Seq(S) /\ [i \in 1 .. k |-> y[i]] \in Seq(S)
  <2>1. m \in Nat /\ k \in Nat
    BY <1>1
  <2>2. [i \in 1 .. m |-> x[i]] \in Seq(S)
    BY <1>2, <2>1, IsASeq
  <2>3. [i \in 1 .. k |-> y[i]] \in Seq(S)
    BY <1>2, <2>1, IsASeq
  <2> QED BY <2>2, <2>3
<1>4. x \in Seq(S) /\ y \in Seq(S) /\ Len(x) = m /\ Len(y) = k
  <2>1. x \in Seq(S) /\ y \in Seq(S)
    BY <1>1, <1>3
  <2>2. Len(x) = m /\ Len(y) = k
    BY TextLen, Zenon
  <2> QED BY <2>1, <2>2
<1>5. /\ x \o y \in Seq(S) /\ Len(x \o y) = m + k
      /\ \A i \in 1 .. m + k : (x \o y)[i] = IF i <= m THEN x[i] ELSE y[i - m]
  BY <1>4, ConcatProperties
<1>6. Text(x \o y, m + k)
  BY <1>5, SeqIsText
<1>7. \A i \in 1 .. m : (x \o y)[i] = x[i]
  <2> TAKE i \in 1 .. m
  <2>1. i \in 1 .. m + k /\ i <= m
    BY <1>1
  <2> QED BY <1>5, <2>1
<1>8. \A i \in 1 .. k : (x \o y)[m + i] = y[i]
  <2> TAKE i \in 1 .. k
  <2>1. m + i \in 1 .. m + k /\ ~(m + i <= m) /\ (m + i) - m = i
    BY <1>1
  <2> QED BY <1>5, <2>1
<1> QED BY <1>6, <1>7, <1>8, Zenon DEF TextJoined

(* Part of a text.                                                         *)
TextSliced(x, at, cb) ==
  Text(Slice(x, at, cb), cb) /\ \A i \in 1 .. cb : Slice(x, at, cb)[i] = x[at + i]

LEMMA TextSlice ==
  ASSUME NEW x, NEW n, Text(x, n), NEW at \in Nat, NEW cb \in Nat, at + cb <= n
  PROVE  TextSliced(x, at, cb)
<1> DEFINE S == {x[i] : i \in 1 .. n}
           y == SubSeq(x, at + 1, at + cb)
<1>1. n \in Nat /\ x \in Seq(S) /\ Len(x) = n
  BY TextLen, Zenon
<1>2. \A i \in 1 .. n : x[i] \in S
  OBVIOUS
<1> HIDE DEF S
<1>3. \A i \in at + 1 .. at + cb : x[i] \in S
  BY <1>1, <1>2
<1>4. /\ y \in Seq(S) /\ Len(y) = (IF at + 1 <= at + cb THEN (at + cb) - (at + 1) + 1 ELSE 0)
      /\ \A i \in 1 .. (at + cb) - (at + 1) + 1 : y[i] = x[(at + 1) + i - 1]
  BY <1>1, <1>3, SubSeqProperties
<1>5. (at + cb) - (at + 1) + 1 = cb /\ \A i \in 1 .. cb : (at + 1) + i - 1 = at + i
  OBVIOUS
<1>6. Len(y) = cb
  <2>1. ~(at + 1 <= at + cb) => cb = 0
    OBVIOUS
  <2> HIDE DEF y
  <2> QED BY <1>4, <1>5, <2>1
<1>7. Text(y, cb)
  <2> HIDE DEF y
  <2> QED BY <1>4, <1>6, SeqIsText
<1>8. \A i \in 1 .. cb : y[i] = x[at + i]
  <2> HIDE DEF y
  <2> QED BY <1>4, <1>5
<1>9. Slice(x, at, cb) = y
  BY DEF Slice
<1> QED BY <1>7, <1>8, <1>9, Zenon DEF TextSliced

(* The empty text.                                                         *)
LEMMA TextEmpty ==
  /\ Text(<<>>, 0)
  /\ \A x : Text(x, 0) => x = <<>>
<1>1. <<>> \in Seq({}) /\ Len(<<>>) = 0
  OBVIOUS
<1>2. Text(<<>>, 0)
  BY <1>1, SeqIsText
<1>3. ASSUME NEW x, Text(x, 0) PROVE x = <<>>
  <2>1. \A i \in 1 .. 0 : x[i] = <<>>[i]
    OBVIOUS
  <2> QED BY <1>2, <1>3, <2>1, TextSame, Zenon
<1> QED BY <1>2, <1>3

(* The empty text before or behind another.                                *)
LEMMA TextAndEmpty ==
  ASSUME NEW x, NEW n, Text(x, n)
  PROVE  x \o <<>> = x /\ <<>> \o x = x
<1>1. x \in Seq({x[i] : i \in 1 .. n})
  BY TextLen
<1> QED BY <1>1, ConcatEmptySeq

(* Concatenation is associative.                                           *)
LEMMA TextRegroup ==
  ASSUME NEW x, NEW y, NEW z, NEW a, NEW b, NEW c, Text(x, a), Text(y, b), Text(z, c)
  PROVE  Regroups(x, y, z)
<1> DEFINE S == {x[i] : i \in 1 .. a} \cup {y[i] : i \in 1 .. b} \cup {z[i] : i \in 1 .. c}
<1>1. /\ x \in Seq({x[i] : i \in 1 .. a}) /\ y \in Seq({y[i] : i \in 1 .. b})
      /\ z \in Seq({z[i] : i \in 1 .. c})
  BY TextLen, Zenon
<1>2. /\ {x[i] : i \in 1 .. a} \subseteq S /\ {y[i] : i \in 1 .. b} \subseteq S
      /\ {z[i] : i \in 1 .. c} \subseteq S
  OBVIOUS
<1>3. \A R, T : R \subseteq T => Seq(R) \subseteq Seq(T)
  OBVIOUS
<1>4. x \in Seq(S) /\ y \in Seq(S) /\ z \in Seq(S)
  <2> HIDE DEF S
  <2> QED BY <1>1, <1>2, <1>3
<1> HIDE DEF S
<1> QED BY <1>4, ConcatAssociative DEF Regroups

(* A text cut in two.                                                      *)
CutAt(x, at, a, b) == Slice(x, at, a) \o Slice(x, at + a, b) = Slice(x, at, a + b)

LEMMA TextCut ==
  ASSUME NEW x, NEW n, Text(x, n), NEW at \in Nat, NEW a \in Nat, NEW b \in Nat, at + a + b <= n
  PROVE  CutAt(x, at, a, b)
<1> DEFINE u == Slice(x, at, a)
           v == Slice(x, at + a, b)
           w == Slice(x, at, a + b)
<1>1. /\ at + a \in Nat /\ a + b \in Nat /\ n \in Nat
      /\ at + a <= n /\ at + (a + b) <= n /\ (at + a) + b <= n
  <2>1. n \in Nat
    BY TextLen, Zenon
  <2> QED BY <2>1
<1>2. TextSliced(x, at, a) /\ TextSliced(x, at + a, b) /\ TextSliced(x, at, a + b)
  BY <1>1, TextSlice
<1>3. /\ Text(u, a) /\ \A i \in 1 .. a : u[i] = x[at + i]
      /\ Text(v, b) /\ \A i \in 1 .. b : v[i] = x[(at + a) + i]
      /\ Text(w, a + b) /\ \A i \in 1 .. a + b : w[i] = x[at + i]
  BY <1>2, Zenon DEF TextSliced
<1> HIDE DEF u, v, w
<1>4. TextJoined(u, v, a, b)
  BY <1>3, TextJoin, Zenon
<1>5. /\ Text(u \o v, a + b) /\ \A i \in 1 .. a : (u \o v)[i] = u[i]
      /\ \A i \in 1 .. b : (u \o v)[a + i] = v[i]
  BY <1>4, Zenon DEF TextJoined
<1>6. ASSUME NEW i \in 1 .. a + b PROVE (u \o v)[i] = w[i]
  <2>1. CASE i <= a
    <3>1. i \in 1 .. a
      BY <2>1
    <3> QED BY <1>3, <1>5, <3>1
  <2>2. CASE ~(i <= a)
    <3>1. i - a \in 1 .. b /\ a + (i - a) = i /\ (at + a) + (i - a) = at + i
      BY <2>2
    <3>2. (u \o v)[a + (i - a)] = v[i - a] /\ v[i - a] = x[(at + a) + (i - a)] /\ w[i] = x[at + i]
      BY <1>3, <1>5, <3>1, Zenon
    <3> QED BY <3>1, <3>2
  <2> QED BY <2>1, <2>2
<1>7. u \o v = w
  BY <1>3, <1>5, <1>6, TextSame, Zenon
<1> QED BY <1>7 DEF u, v, w, CutAt

(* All of a text.                                                          *)
LEMMA TextAll ==
  ASSUME NEW x, NEW n, Text(x, n)
  PROVE  Slice(x, 0, n) = x
<1>1. n \in Nat /\ 0 \in Nat /\ 0 + n <= n /\ \A i \in 1 .. n : 0 + i = i
  <2>1. n \in Nat
    BY TextLen, Zenon
  <2> QED BY <2>1
<1>2. TextSliced(x, 0, n)
  BY <1>1, TextSlice
<1>3. Text(Slice(x, 0, n), n) /\ \A i \in 1 .. n : Slice(x, 0, n)[i] = x[i]
  <2>1. Text(Slice(x, 0, n), n) /\ \A i \in 1 .. n : Slice(x, 0, n)[i] = x[0 + i]
    BY <1>2, Zenon DEF TextSliced
  <2> QED BY <1>1, <2>1
<1> QED BY <1>3, TextSame, Zenon

(* memcpy into a buffer.                                                   *)
TextCopied(buffer, at, data, size, k) ==
  /\ Text(CopyTo(buffer, at, data), size)
  /\ \A i \in 1 .. k : CopyTo(buffer, at, data)[at + i] = data[i]
  /\ \A i \in 1 .. size : i <= at \/ i > at + k => CopyTo(buffer, at, data)[i] = buffer[i]

LEMMA TextCopy ==
  ASSUME NEW buffer, NEW size, Text(buffer, size), NEW data, NEW k, Text(data, k),
         NEW at \in Nat, at + k <= size
  PROVE  TextCopied(buffer, at, data, size, k)
<1>1. size \in Nat /\ Len(buffer) = size /\ k \in Nat /\ Len(data) = k
  BY TextLen, Zenon
<1> DEFINE new == [i \in 1 .. size |-> IF i > at /\ i <= at + k THEN data[i - at] ELSE buffer[i]]
<1>2. CopyTo(buffer, at, data) = new
  BY <1>1 DEF CopyTo
<1>3. Text(new, size)
  BY <1>1 DEF Text
<1>4. \A i \in 1 .. k : new[at + i] = data[i]
  <2> TAKE i \in 1 .. k
  <2>1. at + i \in 1 .. size /\ at + i > at /\ at + i <= at + k /\ (at + i) - at = i
    BY <1>1
  <2> QED BY <2>1
<1>5. \A i \in 1 .. size : i <= at \/ i > at + k => new[i] = buffer[i]
  BY <1>1
<1> QED BY <1>2, <1>3, <1>4, <1>5, Zenon DEF TextCopied

(* XOR of two texts.                                                       *)
TextXored(x, y, n) ==
  /\ Text(XorBytes(x, y), n) /\ XorBytes(x, y) = [i \in 1 .. n |-> XorByte(x[i], y[i])]
  /\ \A i \in 1 .. n : XorBytes(x, y)[i] = XorByte(x[i], y[i])

LEMMA TextXor ==
  ASSUME NEW x, NEW y, NEW n, Text(x, n)
  PROVE  TextXored(x, y, n)
<1>1. n \in Nat /\ Len(x) = n
  BY TextLen, Zenon
<1>2. XorBytes(x, y) = [i \in 1 .. n |-> XorByte(x[i], y[i])]
  BY <1>1, Zenon DEF XorBytes
<1> QED BY <1>1, <1>2 DEF Text, TextXored

(* Zero bytes.                                                             *)
LEMMA TextZeroes ==
  ASSUME NEW n \in Nat
  PROVE  Text(Zeroes(n), n) /\ \A i \in 1 .. n : Zeroes(n)[i] = ZeroByte
  BY DEF Zeroes, Text

(* XOR with a zero byte, and of a byte with another.                       *)
LEMMA XorZero ==
  ASSUME NEW d
  PROVE  XorByte(d, ZeroByte) = d /\ XorByte(ZeroByte, d) = d
  BY DEF XorByte, ZeroByte

-----------------------------------------------------------------------------
(* A number of whole blocks does not count in a remainder.                 *)
LEMMA WholeDropped ==
  ASSUME NEW B \in Nat \ {0}, NEW m \in Nat, m % B = 0, NEW k \in Nat
  PROVE  (m + k) % B = k % B
<1> DEFINE q == m \div B
<1>1. q \in Nat /\ m = q * B + (m % B)
  BY Division, Zenon
<1> HIDE DEF q
<1>2. m = q * B
  BY <1>1
<1>3. (q * B + k) % B = k % B
  BY <1>1, MultipleDropped, Zenon
<1> QED BY <1>2, <1>3

(* The zeroes of a padding.                                                *)
PadZ(n, B) == (B - (n % B)) % B

LEMMA PadSize ==
  ASSUME NEW B \in Nat \ {0}, NEW n \in Nat
  PROVE  /\ PadZ(n, B) \in 0 .. B - 1 /\ n + PadZ(n, B) \in Nat /\ (n + PadZ(n, B)) % B = 0
         /\ (n % B = 0 => PadZ(n, B) = 0)
         /\ (n % B # 0 => PadZ(n, B) = B - (n % B))
<1> DEFINE q == n \div B
           r == n % B
<1>1. q \in Nat /\ r \in 0 .. B - 1 /\ n = q * B + r
  BY Division, Zenon
<1>2. PadZ(n, B) = (B - r) % B
  BY DEF PadZ
<1> HIDE DEF q, r
<1>3. CASE r = 0
  <2>1. (B - r) % B = 0
    <3>1. B - r = B /\ B % B = 0
      BY <1>3
    <3> QED BY <3>1
  <2>2. n + 0 = q * B + 0 /\ n + 0 \in Nat /\ 0 \in 0 .. B - 1
    BY <1>1, <1>3
  <2>3. (n + 0) % B = 0
    BY <1>1, <2>2, DivisionUnique, Zenon
  <2> QED BY <1>2, <1>3, <2>1, <2>2, <2>3 DEF r
<1>4. CASE r # 0
  <2>1. (B - r) % B = B - r /\ B - r \in 0 .. B - 1
    BY <1>1, <1>4
  <2>2. n + (B - r) = (q + 1) * B + 0 /\ n + (B - r) \in Nat /\ 0 \in 0 .. B - 1 /\ q + 1 \in Nat
    BY <1>1
  <2>3. (n + (B - r)) % B = 0
    BY <2>2, DivisionUnique, Zenon
  <2> QED BY <1>2, <1>4, <2>1, <2>2, <2>3 DEF r
<1> QED BY <1>3, <1>4

(* A padded text.                                                          *)
LEMMA PadIs ==
  ASSUME NEW B \in Nat \ {0}, NEW x, NEW n, Text(x, n)
  PROVE  /\ PadToBlock(x, B) = x \o Zeroes(PadZ(n, B))
         /\ Text(PadToBlock(x, B), n + PadZ(n, B))
         /\ TextJoined(x, Zeroes(PadZ(n, B)), n, PadZ(n, B))
<1>1. n \in Nat /\ Len(x) = n
  BY TextLen, Zenon
<1>2. PadToBlock(x, B) = x \o Zeroes(PadZ(n, B))
  BY <1>1, Zenon DEF PadToBlock, PadZ
<1>3. PadZ(n, B) \in Nat
  <2>1. PadZ(n, B) \in 0 .. B - 1
    BY <1>1, PadSize, Zenon
  <2> QED BY <2>1
<1>4. TextJoined(x, Zeroes(PadZ(n, B)), n, PadZ(n, B))
  BY <1>3, TextZeroes, TextJoin, Zenon
<1>5. Text(x \o Zeroes(PadZ(n, B)), n + PadZ(n, B))
  BY <1>4, Zenon DEF TextJoined
<1> QED BY <1>2, <1>4, <1>5

(* Padding pads the end.                                                   *)
LEMMA PadBehind ==
  ASSUME NEW B \in Nat \ {0}, NEW x, NEW m, Text(x, m), m % B = 0, NEW y, NEW k, Text(y, k)
  PROVE  PadToBlock(x \o y, B) = x \o PadToBlock(y, B)
<1>1. m \in Nat /\ k \in Nat
  BY TextLen, Zenon
<1>2. PadZ(m + k, B) = PadZ(k, B)
  <2>1. (m + k) % B = k % B
    BY <1>1, WholeDropped
  <2> QED BY <2>1, Zenon DEF PadZ
<1>3. Text(x \o y, m + k)
  BY TextJoin, Zenon DEF TextJoined
<1>4. PadToBlock(x \o y, B) = (x \o y) \o Zeroes(PadZ(m + k, B)) /\ PadToBlock(y, B) = y \o Zeroes(PadZ(k, B))
  BY <1>3, PadIs, Zenon
<1>5. Text(Zeroes(PadZ(k, B)), PadZ(k, B))
  <2>1. PadZ(k, B) \in Nat
    BY <1>1, PadSize
  <2> QED BY <2>1, TextZeroes
<1>6. (x \o y) \o Zeroes(PadZ(k, B)) = x \o (y \o Zeroes(PadZ(k, B)))
  <2> DEFINE z == Zeroes(PadZ(k, B))
  <2>1. Text(z, PadZ(k, B))
    BY <1>5
  <2> HIDE DEF z
  <2>2. Regroups(x, y, z)
    BY <2>1, TextRegroup, Zenon
  <2> QED BY <2>2 DEF z, Regroups
<1> QED BY <1>2, <1>4, <1>6, Zenon

(* What is whole blocks stays as it is.                                    *)
LEMMA PadWhole ==
  ASSUME NEW B \in Nat \ {0}, NEW x, NEW m, Text(x, m), m % B = 0
  PROVE  PadToBlock(x, B) = x
<1>1. m \in Nat
  BY TextLen, Zenon
<1>2. PadZ(m, B) = 0
  BY <1>1, PadSize
<1>3. PadToBlock(x, B) = x \o Zeroes(0)
  BY <1>2, PadIs, Zenon
<1>4. 0 \in Nat
  OBVIOUS
<1>5. Zeroes(0) = <<>>
  BY <1>4, TextZeroes, TextEmpty, Zenon
<1> QED BY <1>3, <1>5, TextAndEmpty, Zenon
-----------------------------------------------------------------------------
(* The pieces of k bytes when u bytes of a block of B are gone: first ends *)
(* that block or the data, whole is a number of blocks, tail is the rest.  *)
FirstOf(u, k, B) == IF u # 0 THEN SmallerOf(k, B - u) ELSE 0
WholeOf(u, k, B) == RoundDown(k - FirstOf(u, k, B), B)
RestOf(u, k, B) == k - FirstOf(u, k, B) - WholeOf(u, k, B)

LEMMA Pieces ==
  ASSUME NEW B \in Nat \ {0}, NEW u \in 0 .. B - 1, NEW k \in Nat
  PROVE  LET a == FirstOf(u, k, B)
             w == WholeOf(u, k, B)
             t == RestOf(u, k, B)
         IN /\ a \in Nat /\ w \in Nat /\ t \in 0 .. B - 1 /\ a + w + t = k /\ u + a \in 0 .. B
            /\ \E d \in Nat : w = d * B
            /\ (u + a # B /\ u # 0) => w = 0 /\ t = 0
            /\ u = 0 => a = 0
<1> DEFINE a == FirstOf(u, k, B)
           r == k - a
           w == WholeOf(u, k, B)
           t == RestOf(u, k, B)
           d == r \div B
<1>1. /\ a \in Nat /\ u + a \in 0 .. B /\ r \in Nat /\ (u = 0 => a = 0)
      /\ (u + a # B /\ u # 0) => r = 0
  BY DEF FirstOf, SmallerOf
<1>2. d \in Nat /\ r % B \in 0 .. B - 1 /\ r = d * B + (r % B)
  <2> HIDE DEF r, a
  <2> QED BY <1>1, Division, Zenon
<1>3. w = r - (r % B) /\ t = r - w
  BY DEF WholeOf, RestOf, RoundDown
<1>4. r = k - a
  OBVIOUS
<1> HIDE DEF a, r, w, t, d
<1>5. w = d * B /\ t = r % B
  BY <1>1, <1>2, <1>3
<1>6. w \in Nat /\ t \in 0 .. B - 1 /\ a + w + t = k
  <2>1. w \in Nat
    BY <1>2, <1>5
  <2>2. t \in 0 .. B - 1
    BY <1>2, <1>5
  <2>3. a + w + t = k
    BY <1>1, <1>3, <1>4, <2>1
  <2> QED BY <2>1, <2>2, <2>3
<1>7. (u + a # B /\ u # 0) => w = 0 /\ t = 0
  BY <1>1, <1>3, <1>6
<1> QED BY <1>1, <1>2, <1>5, <1>6, <1>7 DEF a, w, t

-----------------------------------------------------------------------------
(* A sum modulo S, one summand taken modulo S before.                      *)
LEMMA ModSum ==
  ASSUME NEW S \in Nat \ {0}, NEW c \in Nat, NEW j \in Nat
  PROVE  ((c % S) + j) % S = (c + j) % S /\ c % S \in Nat
<1> DEFINE q == c \div S
           r == c % S
<1>1. q \in Nat /\ r \in 0 .. S - 1 /\ c = q * S + r
  BY Division, Zenon
<1> HIDE DEF q, r
<1>2. c + j = q * S + (r + j) /\ r + j \in Nat /\ r \in Nat
  <2>1. q * S \in Nat
    BY <1>1
  <2> QED BY <1>1, <2>1
<1>3. (q * S + (r + j)) % S = (r + j) % S
  BY <1>1, <1>2, MultipleDropped, Zenon
<1> QED BY <1>2, <1>3 DEF r

(* The key stream of counter mode: byte i behind the counter value start,  *)
(* and k bytes after the first n.                                          *)
StreamByte(start, i, B, S) == Atom("key", (start + ((i - 1) \div B)) % S, 1 + ((i - 1) % B))
Stream(start, n, k, B, S) == [i \in 1 .. k |-> StreamByte(start, n + i, B, S)]

LEMMA StreamText ==
  ASSUME NEW start, NEW n, NEW k \in Nat, NEW B, NEW S
  PROVE  Text(Stream(start, n, k, B, S), k)
  BY DEF Stream, Text

(* Byte n + i of the stream by its block and its place in it.              *)
StreamAt(start, i, B, S, Q, p) == StreamByte(start, i, B, S) = Atom("key", (start + Q) % S, 1 + p)

LEMMA StreamByteAt ==
  ASSUME NEW B \in Nat \ {0}, NEW S, NEW start, NEW Q \in Nat, NEW p \in 0 .. B - 1, NEW i,
         i = Q * B + p + 1
  PROVE  StreamAt(start, i, B, S, Q, p)
<1>1. i - 1 = Q * B + p /\ i - 1 \in Nat
  BY DEF StreamByte
<1>2. (i - 1) \div B = Q /\ (i - 1) % B = p
  BY <1>1, DivisionUnique, Zenon
<1> QED BY <1>2, Zenon DEF StreamByte, StreamAt

(* Key stream from the counter value of a block on.                        *)
LEMMA KeyStreamIs ==
  ASSUME NEW B \in Nat \ {0}, NEW S \in Nat \ {0}, NEW start \in Nat, NEW Q \in Nat, NEW m \in Nat
  PROVE  KeyStream((start + Q) % S, m, B, S) = Stream(start, Q * B, m, B, S)
<1>1. ASSUME NEW i \in 1 .. m
      PROVE  Atom("key", (((start + Q) % S) + ((i - 1) \div B)) % S, 1 + ((i - 1) % B))
               = StreamByte(start, Q * B + i, B, S)
  <2> DEFINE j == (i - 1) \div B
             p == (i - 1) % B
  <2>1. i - 1 \in Nat
    OBVIOUS
  <2>2. j \in Nat /\ p \in 0 .. B - 1 /\ i - 1 = j * B + p
    BY <2>1, Division, Zenon
  <2> HIDE DEF j, p
  <2>3. Q * B + i = (Q + j) * B + p + 1 /\ Q + j \in Nat /\ start + Q \in Nat
    BY <2>2
  <2>4. StreamByte(start, Q * B + i, B, S) = Atom("key", (start + (Q + j)) % S, 1 + p)
    <3>1. StreamAt(start, Q * B + i, B, S, Q + j, p)
      BY <2>2, <2>3, StreamByteAt
    <3> QED BY <3>1, Zenon DEF StreamAt
  <2>5. (((start + Q) % S) + j) % S = ((start + Q) + j) % S
    BY <2>2, <2>3, ModSum, Zenon
  <2>6. (start + Q) + j = start + (Q + j)
    BY <2>2
  <2> QED BY <2>4, <2>5, <2>6 DEF j, p
<1>2. \A i \in 1 .. m : Atom("key", (((start + Q) % S) + ((i - 1) \div B)) % S, 1 + ((i - 1) % B))
                          = StreamByte(start, Q * B + i, B, S)
  BY <1>1
<1> QED BY <1>2, Zenon DEF KeyStream, Stream

(* Key stream from the buffer: a bytes of a block of which u are spent.    *)
InBlock(start, Q, u, a, B, S) ==
  Slice(KeyBlock((start + Q) % S, B), u, a) = Stream(start, Q * B + u, a, B, S)

LEMMA StreamInBlock ==
  ASSUME NEW B \in Nat \ {0}, NEW S \in Nat \ {0}, NEW start \in Nat, NEW Q \in Nat,
         NEW u \in Nat, NEW a \in Nat, u + a <= B
  PROVE  InBlock(start, Q, u, a, B, S)
<1> DEFINE x == KeyBlock((start + Q) % S, B)
           y == Stream(start, Q * B + u, a, B, S)
<1>1. Text(x, B) /\ \A j \in 1 .. B : x[j] = Atom("key", (start + Q) % S, j)
  BY DEF KeyBlock, Text
<1>2. Text(y, a) /\ \A i \in 1 .. a : y[i] = StreamByte(start, Q * B + u + i, B, S)
  BY StreamText DEF Stream
<1> HIDE DEF x, y
<1>3. Text(Slice(x, u, a), a) /\ \A i \in 1 .. a : Slice(x, u, a)[i] = x[u + i]
  <2>1. TextSliced(x, u, a)
    BY <1>1, TextSlice
  <2> QED BY <2>1, Zenon DEF TextSliced
<1>4. ASSUME NEW i \in 1 .. a PROVE Slice(x, u, a)[i] = y[i]
  <2>1. /\ u + i \in 1 .. B /\ u + i - 1 \in 0 .. B - 1 /\ 1 + (u + i - 1) = u + i
        /\ Q * B + u + i = Q * B + (u + i - 1) + 1
    OBVIOUS
  <2>2. StreamByte(start, Q * B + u + i, B, S) = Atom("key", (start + Q) % S, 1 + (u + i - 1))
    <3>1. StreamAt(start, Q * B + u + i, B, S, Q, u + i - 1)
      BY <2>1, StreamByteAt
    <3> QED BY <3>1, Zenon DEF StreamAt
  <2>3. Slice(x, u, a)[i] = Atom("key", (start + Q) % S, u + i)
    BY <1>1, <1>3, <2>1
  <2> QED BY <1>2, <2>1, <2>2, <2>3
<1>5. Slice(x, u, a) = y
  BY <1>2, <1>3, <1>4, TextSame, Zenon
<1> QED BY <1>5 DEF x, y, InBlock

(* The cipher over zeroes gives the block of key stream.                   *)
LEMMA CtrOfZeroes ==
  ASSUME NEW B \in Nat \ {0}, NEW S \in Nat \ {0}, NEW c \in Nat
  PROVE  /\ CtrMsb64(c, Zeroes(B), B, S).dst = KeyBlock(c % S, B)
         /\ CtrMsb64(c, Zeroes(B), B, S).counter = (c + 1) % S
<1> DEFINE z == Zeroes(B)
           ks == KeyStream(c, B, B, S)
<1>1. B \in Nat /\ Text(z, B) /\ Len(z) = B /\ \A i \in 1 .. B : z[i] = ZeroByte
  <2>1. B \in Nat
    OBVIOUS
  <2>2. Text(z, B) /\ \A i \in 1 .. B : z[i] = ZeroByte
    BY <2>1, TextZeroes, Zenon
  <2> QED BY <2>1, <2>2, TextLen, Zenon
<1>2. CtrMsb64(c, z, B, S).dst = XorBytes(z, ks) /\ CtrMsb64(c, z, B, S).counter = (c + 1) % S
  <2>1. B \div B = 1
    OBVIOUS
  <2>2. CtrMsb64(c, z, B, S).dst = XorBytes(z, KeyStream(c, Len(z), B, S))
        /\ CtrMsb64(c, z, B, S).counter = (c + Len(z) \div B) % S
    BY DEF CtrMsb64
  <2> QED BY <1>1, <2>1, <2>2
<1>3. ASSUME NEW i \in 1 .. B PROVE ks[i] = Atom("key", c % S, i)
  <2>1. (i - 1) \div B = 0 /\ (i - 1) % B = i - 1 /\ c + 0 = c /\ 1 + (i - 1) = i
    OBVIOUS
  <2>2. ks[i] = Atom("key", (c + ((i - 1) \div B)) % S, 1 + ((i - 1) % B))
    BY DEF KeyStream
  <2> HIDE DEF ks
  <2> QED BY <2>1, <2>2
<1>4. XorBytes(z, ks) = KeyBlock(c % S, B)
  <2>1. XorBytes(z, ks) = [i \in 1 .. B |-> XorByte(z[i], ks[i])]
    <3>1. TextXored(z, ks, B)
      BY <1>1, TextXor, Zenon
    <3> QED BY <3>1, Zenon DEF TextXored
  <2>2. \A i \in 1 .. B : XorByte(z[i], ks[i]) = Atom("key", c % S, i)
    BY <1>1, <1>3, XorZero, Zenon
  <2> QED BY <2>1, <2>2, Zenon DEF KeyBlock
<1> QED BY <1>2, <1>4

(* Part of a text under the key stream for its place.                      *)
Enc(src, p, a, start, n, B, S) == XorBytes(Slice(src, p, a), Stream(start, n + p, a, B, S))

EncBytes(src, p, a, start, n, B, S) ==
  /\ Text(Enc(src, p, a, start, n, B, S), a)
  /\ \A i \in 1 .. a :
       Enc(src, p, a, start, n, B, S)[i] = XorByte(src[p + i], StreamByte(start, n + p + i, B, S))

LEMMA EncIs ==
  ASSUME NEW src, NEW k, Text(src, k), NEW p \in Nat, NEW a \in Nat, p + a <= k,
         NEW start, NEW n \in Nat, NEW B, NEW S
  PROVE  EncBytes(src, p, a, start, n, B, S)
<1> DEFINE x == Slice(src, p, a)
           y == Stream(start, n + p, a, B, S)
<1>1. Text(x, a) /\ \A i \in 1 .. a : x[i] = src[p + i]
  BY TextSlice, Zenon DEF TextSliced
<1>2. \A i \in 1 .. a : y[i] = StreamByte(start, n + p + i, B, S)
  BY DEF Stream
<1> HIDE DEF x, y
<1>3. Text(XorBytes(x, y), a) /\ \A i \in 1 .. a : XorBytes(x, y)[i] = XorByte(x[i], y[i])
  <2>1. TextXored(x, y, a)
    BY <1>1, TextXor, Zenon
  <2> QED BY <2>1, Zenon DEF TextXored
<1>4. Enc(src, p, a, start, n, B, S) = XorBytes(x, y)
  BY Zenon DEF Enc, x, y
<1> QED BY <1>1, <1>2, <1>3, <1>4 DEF EncBytes

(* Two neighbouring parts.                                                 *)
EncJoined(src, p, a, b, start, n, B, S) ==
  Enc(src, p, a, start, n, B, S) \o Enc(src, p + a, b, start, n, B, S)
    = Enc(src, p, a + b, start, n, B, S)

LEMMA EncJoin ==
  ASSUME NEW src, NEW k, Text(src, k), NEW p \in Nat, NEW a \in Nat, NEW b \in Nat, p + a + b <= k,
         NEW start, NEW n \in Nat, NEW B, NEW S
  PROVE  EncJoined(src, p, a, b, start, n, B, S)
<1> DEFINE x == Enc(src, p, a, start, n, B, S)
           y == Enc(src, p + a, b, start, n, B, S)
           z == Enc(src, p, a + b, start, n, B, S)
           e(j) == XorByte(src[p + j], StreamByte(start, n + p + j, B, S))
<1>1. k \in Nat /\ p + a \in Nat /\ a + b \in Nat /\ p + a <= k /\ (p + a) + b <= k /\ p + (a + b) <= k
  <2>1. k \in Nat
    BY TextLen, Zenon
  <2> QED BY <2>1
<1> HIDE DEF e
<1>a. /\ EncBytes(src, p, a, start, n, B, S) /\ EncBytes(src, p + a, b, start, n, B, S)
      /\ EncBytes(src, p, a + b, start, n, B, S)
  BY <1>1, EncIs
<1>2. Text(x, a) /\ \A i \in 1 .. a : x[i] = e(i)
  BY <1>a, Zenon DEF EncBytes, e
<1>3. Text(y, b) /\ \A i \in 1 .. b : y[i] = XorByte(src[(p + a) + i], StreamByte(start, n + (p + a) + i, B, S))
  BY <1>a, Zenon DEF EncBytes
<1>4. Text(z, a + b) /\ \A i \in 1 .. a + b : z[i] = e(i)
  BY <1>a, Zenon DEF EncBytes, e
<1>5. \A i \in 1 .. b : y[i] = e(a + i)
  <2> TAKE i \in 1 .. b
  <2>1. (p + a) + i = p + (a + i) /\ n + (p + a) + i = n + p + (a + i)
    OBVIOUS
  <2> HIDE DEF y
  <2> QED BY <1>3, <2>1 DEF e
<1> HIDE DEF x, y, z
<1>6. /\ Text(x \o y, a + b) /\ \A i \in 1 .. a : (x \o y)[i] = x[i]
      /\ \A i \in 1 .. b : (x \o y)[a + i] = y[i]
  <2>1. TextJoined(x, y, a, b)
    BY <1>2, <1>3, TextJoin, Zenon
  <2> QED BY <2>1, Zenon DEF TextJoined
<1>7. ASSUME NEW i \in 1 .. a + b PROVE (x \o y)[i] = z[i]
  <2>1. CASE i <= a
    <3>1. i \in 1 .. a
      BY <2>1
    <3> QED BY <1>2, <1>4, <1>6, <3>1
  <2>2. CASE ~(i <= a)
    <3>1. i - a \in 1 .. b /\ a + (i - a) = i
      BY <2>2
    <3>2. (x \o y)[a + (i - a)] = y[i - a] /\ y[i - a] = e(a + (i - a)) /\ z[i] = e(i)
      BY <1>4, <1>5, <1>6, <3>1, Zenon
    <3> QED BY <3>1, <3>2
  <2> QED BY <2>1, <2>2
<1>8. x \o y = z
  BY <1>4, <1>6, <1>7, TextSame, Zenon
<1> QED BY <1>8 DEF x, y, z, EncJoined

(* The blocks begun.                                                       *)
BegunTo(n, B, Q, u) == Begun(n, B) = IF u = 0 THEN Q ELSE Q + 1

LEMMA BegunIs ==
  ASSUME NEW B \in Nat \ {0}, NEW n, NEW Q \in Nat, NEW u \in 0 .. B - 1, n = Q * B + u
  PROVE  BegunTo(n, B, Q, u)
<1>1. Begun(n, B) = (n + B - 1) \div B
  BY DEF Begun
<1>2. CASE u = 0
  <2>1. n + B - 1 = Q * B + (B - 1) /\ B - 1 \in 0 .. B - 1 /\ n + B - 1 \in Nat
    BY <1>2
  <2>2. (n + B - 1) \div B = Q
    BY <2>1, DivisionUnique, Zenon
  <2> QED BY <1>1, <1>2, <2>2 DEF BegunTo
<1>3. CASE u # 0
  <2>1. n + B - 1 = (Q + 1) * B + (u - 1) /\ u - 1 \in 0 .. B - 1 /\ n + B - 1 \in Nat /\ Q + 1 \in Nat
    BY <1>3
  <2>2. (n + B - 1) \div B = Q + 1
    BY <2>1, DivisionUnique, Zenon
  <2> QED BY <1>1, <1>3, <2>2 DEF BegunTo
<1> QED BY <1>2, <1>3

(* XOR of no bytes is no bytes.                                            *)
LEMMA XorNothing ==
  ASSUME NEW src, NEW k, Text(src, k), NEW at \in Nat, at <= k, NEW y
  PROVE  XorBytes(Slice(src, at, 0), y) = <<>>
<1>1. 0 \in Nat /\ at + 0 <= k
  BY TextLen
<1>2. Text(Slice(src, at, 0), 0)
  BY <1>1, TextSlice, Zenon DEF TextSliced
<1>3. TextXored(Slice(src, at, 0), y, 0)
  BY <1>2, TextXor, Zenon
<1> QED BY <1>3, TextEmpty, Zenon DEF TextXored

(* Counter mode over a part: k bytes under the key stream after the first  *)
(* n, and the state as it should be after n + k.                           *)
CtrRight(r, src, start, n, k, B, S) ==
  /\ r.dst = Enc(src, 0, k, start, n, B, S)
  /\ CtrLaw(r.keystream, r.counter, start, n + k, B, S)

LEMMA CtrCrypts ==
  ASSUME NEW B \in Nat \ {0}, NEW S \in Nat \ {0}, NEW start \in Nat, NEW n \in Nat, NEW k,
         NEW src, Text(src, k), NEW ks, NEW counter, CtrLaw(ks, counter, start, n, B, S)
  PROVE  CtrRight(CtrCrypt(ks, n % B, counter, src, B, S), src, start, n, k, B, S)
<1> DEFINE u == n % B
           Q == n \div B
           P == Begun(n, B)
           a == FirstOf(u, k, B)
           w == WholeOf(u, k, B)
           t == RestOf(u, k, B)
           bulk == CtrMsb64(counter, Slice(src, a, w), B, S)
           next == CtrMsb64(bulk.counter, Zeroes(B), B, S)
           last == IF t > 0 THEN next ELSE [dst |-> ks, counter |-> bulk.counter]
           X == XorBytes(Slice(src, 0, a), Slice(ks, u, a))
           Z == XorBytes(Slice(src, a + w, t), Slice(last.dst, 0, t))
           r == CtrCrypt(ks, u, counter, src, B, S)
           E(p, c) == Enc(src, p, c, start, n, B, S)
<1>1. k \in Nat /\ Len(src) = k
  BY TextLen, Zenon
<1>2. r.dst = (X \o bulk.dst) \o Z /\ r.keystream = last.dst /\ r.counter = last.counter
  BY <1>1 DEF CtrCrypt, FirstOf, WholeOf, RestOf
<1>3. Q \in Nat /\ u \in 0 .. B - 1 /\ n = Q * B + u
  BY Division, Zenon
<1>4. P = IF u = 0 THEN Q ELSE Q + 1
  <2>1. BegunTo(n, B, Q, u)
    <3> HIDE DEF u, Q
    <3> QED BY <1>3, BegunIs, Zenon
  <2> QED BY <2>1, Zenon DEF BegunTo
<1>5. /\ a \in Nat /\ w \in Nat /\ t \in 0 .. B - 1 /\ a + w + t = k /\ u + a \in 0 .. B
      /\ \E d \in Nat : w = d * B
      /\ (u + a # B /\ u # 0) => w = 0 /\ t = 0
      /\ u = 0 => a = 0
  <2> HIDE DEF u
  <2> QED BY <1>1, <1>3, Pieces, Zenon
<1>6. /\ Text(ks, B) /\ counter = (start + P) % S
      /\ u # 0 => ks = KeyBlock((start + Q) % S, B)
  BY DEF CtrLaw
<1>7. bulk.dst = XorBytes(Slice(src, a, w), KeyStream(counter, Len(Slice(src, a, w)), B, S))
      /\ bulk.counter = (counter + Len(Slice(src, a, w)) \div B) % S
  BY DEF CtrMsb64
<1> HIDE DEF u, Q, P, a, w, t, bulk, next, last, X, Z, r, E
<1>8. PICK d \in Nat : w = d * B
  BY <1>5
<1>9. P \in Nat /\ P + d \in Nat /\ start + P \in Nat /\ start + (P + d) \in Nat
  BY <1>3, <1>4, <1>8
<1>10. (w # 0 \/ t # 0) => n + a = P * B
  <2>1. CASE u = 0
    BY <1>3, <1>4, <1>5, <2>1
  <2>2. CASE u # 0 /\ u + a = B
    BY <1>3, <1>4, <1>5, <2>2
  <2> QED BY <1>5, <2>1, <2>2
<1>11. 0 + a <= k /\ a + w <= k /\ (a + w) + t <= k /\ a + w \in Nat /\ t \in Nat /\ a <= k /\ 0 \in Nat
       /\ a + w <= k /\ 0 + a + w <= k /\ 0 + a = a
  BY <1>1, <1>5
<1>12. Len(Slice(src, a, w)) = w
  <2>1. Text(Slice(src, a, w), w)
    BY <1>5, <1>11, TextSlice, Zenon DEF TextSliced
  <2> QED BY <2>1, TextLen, Zenon
<1>13. bulk.counter = (start + (P + d)) % S
  <2>1. w \div B = d
    <3>1. w = d * B + 0 /\ 0 \in 0 .. B - 1
      BY <1>8
    <3>2. DividesTo(w, B, d, 0)
      BY <1>5, <1>8, <3>1, DivisionNamed, Zenon
    <3> QED BY <3>2, Zenon DEF DividesTo
  <2>2. bulk.counter = (((start + P) % S) + d) % S
    BY <1>6, <1>7, <1>12, <2>1, Zenon
  <2>3. (((start + P) % S) + d) % S = ((start + P) + d) % S
    BY <1>8, <1>9, ModSum, Zenon
  <2>4. (start + P) + d = start + (P + d)
    BY <1>8, <1>9
  <2> QED BY <2>2, <2>3, <2>4
<1>14. X = E(0, a)
  <2>1. CASE u = 0
    <3>1. a = 0
      BY <1>5, <2>1
    <3>2. X = <<>> /\ E(0, a) = <<>>
      <4>1. 0 <= k
        BY <1>1
      <4> QED BY <3>1, <4>1, <1>11, XorNothing, Zenon DEF X, E, Enc
    <3> QED BY <3>2
  <2>2. CASE u # 0
    <3>1. u \in Nat /\ u + a <= B /\ n + 0 = Q * B + u
      BY <1>3, <1>5
    <3>2. Slice(KeyBlock((start + Q) % S, B), u, a) = Stream(start, Q * B + u, a, B, S)
      <4>1. InBlock(start, Q, u, a, B, S)
        BY <1>3, <1>5, <3>1, StreamInBlock, Zenon
      <4> QED BY <4>1, Zenon DEF InBlock
    <3>3. Slice(ks, u, a) = Stream(start, n + 0, a, B, S)
      BY <1>6, <2>2, <3>1, <3>2
    <3> QED BY <3>3, Zenon DEF X, E, Enc
  <2> QED BY <2>1, <2>2
<1>15. bulk.dst = E(a, w)
  <2>1. CASE w = 0
    <3>1. bulk.dst = <<>> /\ E(a, w) = <<>>
      BY <1>5, <1>7, <1>11, <2>1, XorNothing, Zenon DEF E, Enc
    <3> QED BY <3>1
  <2>2. CASE w # 0
    <3>1. KeyStream((start + P) % S, w, B, S) = Stream(start, P * B, w, B, S)
      BY <1>5, <1>9, KeyStreamIs
    <3>2. n + a = P * B
      BY <1>10, <2>2
    <3>3. KeyStream(counter, Len(Slice(src, a, w)), B, S) = Stream(start, n + a, w, B, S)
      BY <1>6, <1>12, <3>1, <3>2
    <3> QED BY <1>7, <3>3, Zenon DEF E, Enc
  <2> QED BY <2>1, <2>2
<1>16. t > 0 => /\ last.dst = KeyBlock((start + (P + d)) % S, B)
                /\ last.counter = (start + (P + d + 1)) % S
  <2> SUFFICES ASSUME t > 0 PROVE /\ last.dst = KeyBlock((start + (P + d)) % S, B)
                                  /\ last.counter = (start + (P + d + 1)) % S
    OBVIOUS
  <2>1. last = next
    BY DEF last
  <2> DEFINE c == (start + (P + d)) % S
  <2>2. c \in Nat /\ (c + 0) % S = (start + (P + d) + 0) % S /\ (c + 1) % S = (start + (P + d) + 1) % S
    <3>1. 0 \in Nat /\ 1 \in Nat
      OBVIOUS
    <3> QED BY <1>9, <3>1, ModSum, Zenon
  <2>3. start + (P + d) + 0 = start + (P + d) /\ start + (P + d) + 1 = start + (P + d + 1)
    BY <1>8, <1>9
  <2>4. c + 0 = c
    <3> HIDE DEF c
    <3> QED BY <2>2
  <2>5. c % S = c /\ (c + 1) % S = (start + (P + d + 1)) % S
    <3>1. (c + 0) % S = (start + (P + d)) % S /\ (c + 1) % S = (start + (P + d + 1)) % S
      BY <2>2, <2>3
    <3>2. c = (start + (P + d)) % S
      OBVIOUS
    <3> HIDE DEF c
    <3> QED BY <2>4, <3>1, <3>2
  <2>6. next = CtrMsb64(c, Zeroes(B), B, S)
    BY <1>13 DEF next
  <2>7. c = (start + (P + d)) % S
    OBVIOUS
  <2> HIDE DEF c
  <2>8. next.dst = KeyBlock(c % S, B) /\ next.counter = (c + 1) % S
    BY <2>2, <2>6, CtrOfZeroes
  <2> QED BY <2>1, <2>5, <2>7, <2>8
<1>17. t = 0 => last.dst = ks /\ last.counter = (start + (P + d)) % S
  BY <1>13 DEF last
<1>18. Z = E(a + w, t)
  <2>1. CASE t = 0
    <3>1. Z = <<>> /\ E(a + w, t) = <<>>
      BY <1>11, <2>1, XorNothing, Zenon DEF Z, E, Enc
    <3> QED BY <3>1
  <2>2. CASE t # 0
    <3>1. t > 0 /\ 0 + t <= B
      BY <1>5, <2>2
    <3>2. n + (a + w) = (P + d) * B + 0
      <4>1. n + a = P * B
        BY <1>10, <2>2
      <4>2. (P + d) * B = P * B + d * B
        BY <1>8, <1>9
      <4>3. P * B \in Nat /\ d * B \in Nat
        BY <1>8, <1>9
      <4> QED BY <1>5, <1>8, <4>1, <4>2, <4>3
    <3>3. Slice(KeyBlock((start + (P + d)) % S, B), 0, t) = Stream(start, (P + d) * B + 0, t, B, S)
      <4>1. InBlock(start, P + d, 0, t, B, S)
        BY <1>9, <1>11, <3>1, StreamInBlock, Zenon
      <4> QED BY <4>1, Zenon DEF InBlock
    <3>4. Slice(last.dst, 0, t) = Stream(start, n + (a + w), t, B, S)
      BY <1>16, <3>1, <3>2, <3>3
    <3> QED BY <3>4, Zenon DEF Z, E, Enc
  <2> QED BY <2>1, <2>2
<1>19. r.dst = E(0, k)
  <2>1. E(0, a) \o E(0 + a, w) = E(0, a + w)
    <3>1. EncJoined(src, 0, a, w, start, n, B, S)
      BY <1>5, <1>11, EncJoin, Zenon
    <3> QED BY <3>1, Zenon DEF E, EncJoined
  <2>2. E(0, a + w) \o E(0 + (a + w), t) = E(0, (a + w) + t)
    <3>1. 0 + (a + w) + t <= k
      BY <1>11
    <3>2. EncJoined(src, 0, a + w, t, start, n, B, S)
      BY <1>11, <3>1, EncJoin, Zenon
    <3> QED BY <3>2, Zenon DEF E, EncJoined
  <2>3. 0 + a = a /\ 0 + (a + w) = a + w /\ (a + w) + t = k
    BY <1>5, <1>11
  <2> QED BY <1>2, <1>14, <1>15, <1>18, <2>1, <2>2, <2>3
<1>20. CtrLaw(r.keystream, r.counter, start, n + k, B, S)
  <2>1. CASE t > 0
    <3>1. n + k = (P + d) * B + t
      <4>1. n + a = P * B
        BY <1>10, <2>1
      <4>2. (P + d) * B = P * B + d * B
        BY <1>8, <1>9
      <4>3. P * B \in Nat /\ d * B \in Nat
        BY <1>8, <1>9
      <4> QED BY <1>5, <1>8, <4>1, <4>2, <4>3
    <3>2. Begun(n + k, B) = P + d + 1
      <4>1. Begun(n + k, B) = IF t = 0 THEN P + d ELSE P + d + 1
        <5>1. BegunTo(n + k, B, P + d, t)
          BY <1>5, <1>9, <3>1, BegunIs, Zenon
        <5> QED BY <5>1, Zenon DEF BegunTo
      <4> QED BY <2>1, <4>1
    <3>3. (n + k) \div B = P + d
      <4>1. n + k \in Nat
        BY <1>1
      <4> QED BY <1>5, <1>9, <3>1, <4>1, DivisionUnique, Zenon
    <3>4. last.dst = KeyBlock((start + (P + d)) % S, B) /\ last.counter = (start + (P + d + 1)) % S
      BY <1>16, <2>1
    <3>5. Text(last.dst, B)
      BY <3>4 DEF KeyBlock, Text
    <3> QED BY <1>2, <3>2, <3>3, <3>4, <3>5 DEF CtrLaw
  <2>2. CASE t = 0 /\ (u = 0 \/ u + a = B)
    <3>1. n + k = (P + d) * B + 0 /\ n + k \in Nat
      <4>1. n + a = P * B
        <5>1. CASE u = 0
          BY <1>3, <1>4, <1>5, <5>1
        <5>2. CASE u # 0 /\ u + a = B
          BY <1>3, <1>4, <1>5, <5>2
        <5> QED BY <2>2, <5>1, <5>2
      <4>2. (P + d) * B = P * B + d * B /\ P * B \in Nat /\ d * B \in Nat
        BY <1>8, <1>9
      <4>3. n + k = (n + a) + w
        BY <1>1, <1>5, <2>2
      <4>4. w = d * B
        BY <1>8
      <4>5. n + k = (P + d) * B
        BY <4>1, <4>2, <4>3, <4>4
      <4> HIDE DEF P
      <4> QED BY <4>1, <4>2, <4>4, <4>5
    <3>2. 0 \in 0 .. B - 1
      OBVIOUS
    <3>3. Begun(n + k, B) = P + d
      <4>1. Begun(n + k, B) = IF 0 = 0 THEN P + d ELSE P + d + 1
        <5>1. BegunTo(n + k, B, P + d, 0)
          BY <1>9, <3>1, <3>2, BegunIs, Zenon
        <5> QED BY <5>1, Zenon DEF BegunTo
      <4> QED BY <4>1
    <3>4. (n + k) % B = 0
      BY <1>9, <3>1, <3>2, DivisionUnique, Zenon
    <3>5. last.dst = ks /\ last.counter = (start + (P + d)) % S
      BY <1>17, <2>2
    <3> QED BY <1>2, <1>6, <3>3, <3>4, <3>5 DEF CtrLaw
  <2>3. CASE t = 0 /\ u # 0 /\ u + a # B
    <3>1. w = 0 /\ a = k /\ d = 0
      <4>1. w = 0 /\ a = k
        BY <1>5, <2>3
      <4>2. d = 0
        BY <1>8, <4>1
      <4> QED BY <4>1, <4>2
    <3>2. n + k = Q * B + (u + a) /\ u + a \in 0 .. B - 1 /\ u + a # 0 /\ n + k \in Nat
      BY <1>1, <1>3, <1>5, <2>3, <3>1
    <3>3. Begun(n + k, B) = Q + 1
      <4>1. Begun(n + k, B) = IF u + a = 0 THEN Q ELSE Q + 1
        <5>1. BegunTo(n + k, B, Q, u + a)
          BY <1>3, <3>2, BegunIs, Zenon
        <5> QED BY <5>1, Zenon DEF BegunTo
      <4> QED BY <3>2, <4>1
    <3>4. (n + k) \div B = Q
      <4>1. DividesTo(n + k, B, Q, u + a)
        <5> HIDE DEF u, Q
        <5> QED BY <1>3, <3>2, DivisionNamed, Zenon
      <4> QED BY <4>1, Zenon DEF DividesTo
    <3>5. P + d = Q + 1
      BY <1>3, <1>4, <2>3, <3>1
    <3>6. last.dst = ks /\ last.counter = (start + (Q + 1)) % S
      BY <1>17, <2>3, <3>5
    <3> QED BY <1>2, <1>6, <2>3, <3>3, <3>4, <3>6 DEF CtrLaw
  <2> QED BY <1>5, <2>1, <2>2, <2>3
<1> QED BY <1>19, <1>20, Zenon DEF CtrRight, r, E, u

-----------------------------------------------------------------------------
(* A buffer up to the end of what was copied into it.                      *)
CopyHead(buffer, at, data, k) == Slice(CopyTo(buffer, at, data), 0, at + k) = Slice(buffer, 0, at) \o data

LEMMA CopyHeadIs ==
  ASSUME NEW buffer, NEW size, Text(buffer, size), NEW data, NEW k, Text(data, k),
         NEW at \in Nat, at + k <= size
  PROVE  CopyHead(buffer, at, data, k)
<1> DEFINE new == CopyTo(buffer, at, data)
           x == Slice(new, 0, at + k)
           h == Slice(buffer, 0, at)
<1>1. size \in Nat /\ k \in Nat
  BY TextLen, Zenon
<1>2. TextCopied(buffer, at, data, size, k)
  BY TextCopy, Zenon
<1>3. /\ Text(new, size) /\ \A i \in 1 .. k : new[at + i] = data[i]
      /\ \A i \in 1 .. size : i <= at \/ i > at + k => new[i] = buffer[i]
  BY <1>2, Zenon DEF TextCopied
<1>4. 0 \in Nat /\ at + k \in Nat /\ 0 + (at + k) <= size /\ 0 + at <= size
      /\ \A i \in 1 .. at + k : 0 + i = i
  BY <1>1
<1> HIDE DEF new
<1>5. TextSliced(new, 0, at + k) /\ TextSliced(buffer, 0, at)
  BY <1>3, <1>4, TextSlice, Zenon
<1>6. Text(x, at + k) /\ \A i \in 1 .. at + k : x[i] = new[0 + i]
  BY <1>5, Zenon DEF TextSliced
<1>7. Text(h, at) /\ \A i \in 1 .. at : h[i] = buffer[0 + i]
  BY <1>5, Zenon DEF TextSliced
<1> HIDE DEF x, h
<1>8. TextJoined(h, data, at, k)
  BY <1>7, TextJoin, Zenon
<1>9. /\ Text(h \o data, at + k) /\ \A i \in 1 .. at : (h \o data)[i] = h[i]
      /\ \A i \in 1 .. k : (h \o data)[at + i] = data[i]
  BY <1>8, Zenon DEF TextJoined
<1>10. ASSUME NEW i \in 1 .. at + k PROVE x[i] = (h \o data)[i]
  <2>1. x[i] = new[i]
    BY <1>4, <1>6
  <2>2. CASE i <= at
    <3>1. i \in 1 .. at /\ i \in 1 .. size /\ 0 + i = i
      BY <1>1, <2>2
    <3>2. new[i] = buffer[i]
      BY <1>3, <2>2, <3>1
    <3>3. (h \o data)[i] = h[i] /\ h[i] = buffer[0 + i]
      BY <1>7, <1>9, <3>1, Zenon
    <3> QED BY <2>1, <3>1, <3>2, <3>3
  <2>3. CASE ~(i <= at)
    <3>1. i - at \in 1 .. k /\ at + (i - at) = i
      BY <1>1, <2>3
    <3>2. new[at + (i - at)] = data[i - at] /\ (h \o data)[at + (i - at)] = data[i - at]
      BY <1>3, <1>9, <3>1, Zenon
    <3> QED BY <2>1, <3>1, <3>2
  <2> QED BY <2>2, <2>3
<1>11. x = h \o data
  BY <1>6, <1>9, <1>10, TextSame, Zenon
<1> QED BY <1>11 DEF x, h, new, CopyHead

(* Copying nothing changes nothing.                                        *)
LEMMA CopyNothing ==
  ASSUME NEW buffer, NEW size, Text(buffer, size)
  PROVE  CopyTo(buffer, 0, <<>>) = buffer
<1>1. size \in Nat /\ 0 \in Nat /\ 0 + 0 <= size
  <2>1. size \in Nat
    BY TextLen, Zenon
  <2> QED BY <2>1
<1>2. Text(<<>>, 0)
  BY TextEmpty
<1>3. TextCopied(buffer, 0, <<>>, size, 0)
  BY <1>1, <1>2, TextCopy, Zenon
<1>4. /\ Text(CopyTo(buffer, 0, <<>>), size)
      /\ \A i \in 1 .. size : i <= 0 \/ i > 0 + 0 => CopyTo(buffer, 0, <<>>)[i] = buffer[i]
  BY <1>3, Zenon DEF TextCopied
<1>5. \A i \in 1 .. size : i > 0 + 0
  BY <1>1
<1>6. \A i \in 1 .. size : CopyTo(buffer, 0, <<>>)[i] = buffer[i]
  BY <1>4, <1>5, Zenon
<1> QED BY <1>4, <1>6, TextSame, Zenon

(* Data added to a buffered MAC: the blocks that go on and what then waits *)
(* are what waited before and the data.                                    *)
Appended(r, buffer, c, data, B) ==
  /\ Text(r.buffer, B) /\ r.count \in 0 .. B - 1
  /\ \E m \in Nat : Text(r.blocks, m) /\ m % B = 0
  /\ r.blocks \o Slice(r.buffer, 0, r.count) = Slice(buffer, 0, c) \o data

LEMMA AppendIs ==
  ASSUME NEW B \in Nat \ {0}, NEW buffer, Text(buffer, B), NEW c \in 0 .. B - 1,
         NEW data, NEW k, Text(data, k)
  PROVE  Appended(BlockAppend(buffer, c, data, B), buffer, c, data, B)
<1> DEFINE a == FirstOf(c, k, B)
           w == WholeOf(c, k, B)
           t == RestOf(c, k, B)
           D0 == Slice(data, 0, a)
           D1 == Slice(data, a, w)
           D2 == Slice(data, a + w, t)
           H == Slice(buffer, 0, c)
           filled == CopyTo(buffer, c, D0)
           head == IF c + a = B THEN filled ELSE <<>>
           r == BlockAppend(buffer, c, data, B)
<1>1. k \in Nat /\ Len(data) = k
  BY TextLen, Zenon
<1>2. /\ r.blocks = head \o D1 /\ r.buffer = CopyTo(filled, 0, D2)
      /\ r.count = IF t > 0 THEN t ELSE (c + a) % B
  <2>1. (c > 0) <=> (c # 0)
    OBVIOUS
  <2> QED BY <1>1, <2>1 DEF BlockAppend, FirstOf, WholeOf, RestOf
<1>3. /\ a \in Nat /\ w \in Nat /\ t \in 0 .. B - 1 /\ a + w + t = k /\ c + a \in 0 .. B
      /\ \E d \in Nat : w = d * B
      /\ (c + a # B /\ c # 0) => w = 0 /\ t = 0
      /\ c = 0 => a = 0
  BY <1>1, Pieces, Zenon
<1> HIDE DEF a, w, t, r
<1>4. /\ t \in Nat /\ c \in Nat /\ 0 \in Nat /\ a + w \in Nat /\ 0 + a <= k /\ a + w <= k /\ (a + w) + t <= k
      /\ 0 + c <= B /\ c + a <= B /\ 0 + t <= B /\ 0 <= B /\ 0 + 0 <= B
  BY <1>1, <1>3
<1>5. Text(D0, a) /\ Text(D1, w) /\ Text(D2, t) /\ Text(H, c)
  <2>1. TextSliced(data, 0, a) /\ TextSliced(data, a, w) /\ TextSliced(data, a + w, t) /\ TextSliced(buffer, 0, c)
    BY <1>3, <1>4, TextSlice, Zenon
  <2> QED BY <2>1, Zenon DEF TextSliced
<1>6. (D0 \o D1) \o D2 = data
  <2>1. D0 \o D1 = Slice(data, 0, a + w)
    <3>1. 0 + a + w <= k /\ 0 + a = a
      BY <1>3, <1>4
    <3>2. Slice(data, 0, a) \o Slice(data, 0 + a, w) = Slice(data, 0, a + w)
      <4>1. CutAt(data, 0, a, w)
        BY <1>3, <1>4, <3>1, TextCut, Zenon
      <4> QED BY <4>1, Zenon DEF CutAt
    <3> QED BY <3>1, <3>2
  <2>2. Slice(data, 0, a + w) \o D2 = Slice(data, 0, k)
    <3>1. 0 + (a + w) + t <= k /\ 0 + (a + w) = a + w /\ (a + w) + t = k
      BY <1>3, <1>4
    <3>2. Slice(data, 0, a + w) \o Slice(data, 0 + (a + w), t) = Slice(data, 0, (a + w) + t)
      <4>1. CutAt(data, 0, a + w, t)
        BY <1>4, <3>1, TextCut, Zenon
      <4> QED BY <4>1, Zenon DEF CutAt
    <3> QED BY <3>1, <3>2
  <2> QED BY <2>1, <2>2, TextAll
<1> HIDE DEF D0, D1, D2
<1>7. TextCopied(buffer, c, D0, B, a) /\ CopyHead(buffer, c, D0, a)
  BY <1>4, <1>5, TextCopy, CopyHeadIs, Zenon
<1>8. Text(filled, B) /\ Slice(filled, 0, c + a) = H \o D0
  BY <1>7, Zenon DEF TextCopied, CopyHead
<1> HIDE DEF filled, H
<1>9. TextCopied(filled, 0, D2, B, t) /\ CopyHead(filled, 0, D2, t)
  BY <1>4, <1>5, <1>8, TextCopy, CopyHeadIs, Zenon
<1>10. Text(r.buffer, B)
  BY <1>2, <1>9, Zenon DEF TextCopied
<1>11. CASE c # 0 /\ c + a # B
  <2>1. w = 0 /\ t = 0 /\ a = k
    BY <1>3, <1>11
  <2>2. D1 = <<>> /\ D2 = <<>>
    BY <1>5, <2>1, TextEmpty, Zenon
  <2>3. r.blocks = <<>>
    <3>1. r.blocks = <<>> \o <<>>
      BY <1>2, <1>11, <2>2
    <3> QED BY <3>1, TextEmpty, TextAndEmpty
  <2>4. r.buffer = filled
    BY <1>2, <1>8, <2>2, CopyNothing
  <2>5. r.count = c + a /\ c + a \in 0 .. B - 1
    <3>1. c + a \in 0 .. B - 1
      BY <1>3, <1>11
    <3>2. (c + a) % B = c + a
      BY <3>1
    <3> QED BY <1>2, <2>1, <3>1, <3>2
  <2>6. H \o D0 = H \o data
    <3>1. (D0 \o <<>>) \o <<>> = data /\ D0 \o <<>> = D0
      BY <1>5, <1>6, <2>2, TextAndEmpty
    <3> QED BY <3>1
  <2>7. Text(H \o D0, c + a)
    BY <1>5, TextJoin, Zenon DEF TextJoined
  <2>8. <<>> \o Slice(r.buffer, 0, r.count) = H \o data
    BY <1>8, <2>4, <2>5, <2>6, <2>7, TextAndEmpty, Zenon
  <2>9. Text(<<>>, 0) /\ 0 \in Nat /\ 0 % B = 0
    BY TextEmpty
  <2> QED BY <1>10, <2>3, <2>5, <2>8, <2>9, Zenon DEF Appended, r, H
<1>12. CASE c = 0 \/ c + a = B
  <2>1. head = H \o D0 /\ Text(head, c + a)
    <3>1. CASE c + a = B
      <4>1. head = filled /\ Slice(filled, 0, B) = filled
        BY <1>8, <3>1, TextAll
      <4> QED BY <1>8, <3>1, <4>1
    <3>2. CASE c = 0 /\ c + a # B
      <4>1. a = 0 /\ c = 0 /\ c + a = 0
        BY <1>3, <3>2
      <4>2. H = <<>> /\ D0 = <<>> /\ head = <<>>
        BY <1>5, <3>2, <4>1, TextEmpty, Zenon
      <4>3. <<>> \o <<>> = <<>> /\ Text(<<>>, 0)
        BY TextEmpty, TextAndEmpty
      <4> QED BY <4>1, <4>2, <4>3
    <3> QED BY <1>12, <3>1, <3>2
  <2>2. (c + a) % B = 0
    <3>1. c + a = 0 \/ c + a = B
      BY <1>3, <1>12
    <3>2. 0 % B = 0 /\ B % B = 0
      OBVIOUS
    <3> QED BY <3>1, <3>2
  <2>3. r.count = t
    BY <1>2, <1>3, <2>2
  <2>4. Slice(r.buffer, 0, t) = D2
    <3>1. Slice(r.buffer, 0, 0 + t) = Slice(filled, 0, 0) \o D2
      BY <1>2, <1>9, Zenon DEF CopyHead
    <3>2. Slice(filled, 0, 0) = <<>>
      <4>1. TextSliced(filled, 0, 0)
        BY <1>4, <1>8, TextSlice, Zenon
      <4> QED BY <4>1, TextEmpty, Zenon DEF TextSliced
    <3>3. <<>> \o D2 = D2 /\ 0 + t = t
      BY <1>4, <1>5, TextAndEmpty
    <3> QED BY <3>1, <3>2, <3>3
  <2> HIDE DEF head
  <2>5. Text(r.blocks, (c + a) + w)
    <3>1. TextJoined(head, D1, c + a, w)
      BY <1>5, <2>1, TextJoin, Zenon
    <3> QED BY <1>2, <3>1, Zenon DEF TextJoined
  <2>6. ((c + a) + w) % B = 0 /\ (c + a) + w \in Nat
    <3>1. c + a \in Nat
      BY <1>3
    <3>2. ((c + a) + w) % B = w % B
      BY <1>3, <2>2, <3>1, WholeDropped
    <3>3. w % B = 0
      <4>1. PICK d \in Nat : w = d * B
        BY <1>3
      <4>2. w = d * B + 0 /\ 0 \in 0 .. B - 1
        BY <4>1
      <4>3. DividesTo(w, B, d, 0)
        BY <1>3, <4>1, <4>2, DivisionNamed, Zenon
      <4> QED BY <4>3, Zenon DEF DividesTo
    <3> QED BY <1>3, <3>1, <3>2, <3>3
  <2>7. r.blocks \o D2 = H \o data
    <3>1. r.blocks = (H \o D0) \o D1
      BY <1>2, <2>1
    <3>2. Text(H \o D0, c + a) /\ Text(D0 \o D1, a + w)
      <4>1. TextJoined(D0, D1, a, w)
        BY <1>5, TextJoin, Zenon
      <4> QED BY <2>1, <4>1, Zenon DEF TextJoined
    <3>3. ((H \o D0) \o D1) \o D2 = (H \o (D0 \o D1)) \o D2
      <4>1. Regroups(H, D0, D1)
        BY <1>5, TextRegroup, Zenon
      <4> QED BY <4>1, Zenon DEF Regroups
    <3>4. (H \o (D0 \o D1)) \o D2 = H \o ((D0 \o D1) \o D2)
      <4> DEFINE y == D0 \o D1
      <4>1. Text(y, a + w)
        BY <3>2
      <4> HIDE DEF y
      <4>2. Regroups(H, y, D2)
        BY <1>5, <4>1, TextRegroup, Zenon
      <4> QED BY <4>2, Zenon DEF y, Regroups
    <3> QED BY <1>6, <3>1, <3>3, <3>4
  <2>8. r.blocks \o Slice(r.buffer, 0, r.count) = H \o data
    BY <2>3, <2>4, <2>7
  <2>9. r.count \in 0 .. B - 1
    BY <1>3, <2>3
  <2> QED BY <1>10, <2>5, <2>6, <2>8, <2>9, Zenon DEF Appended, r, H
<1> QED BY <1>11, <1>12

(* The parts of MacLaw.                                                    *)
LEMMA MacParts ==
  ASSUME NEW chain, NEW buffer, NEW c, NEW text, NEW B \in Nat \ {0}, MacLaw(chain, buffer, c, text, B)
  PROVE  /\ Text(chain, Len(chain)) /\ Len(chain) \in Nat /\ Len(chain) % B = 0
         /\ c \in 0 .. B - 1 /\ c \in Nat /\ Text(buffer, B) /\ Text(Slice(buffer, 0, c), c)
         /\ chain \o Slice(buffer, 0, c) = text /\ Text(text, Len(chain) + c)
<1>1. /\ Text(buffer, B) /\ c \in 0 .. B - 1 /\ Text(chain, Len(chain)) /\ Len(chain) % B = 0
      /\ chain \o Slice(buffer, 0, c) = text
  BY Zenon DEF MacLaw
<1>2. Len(chain) \in Nat
  BY <1>1, TextLen, Zenon
<1>3. 0 \in Nat /\ c \in Nat /\ 0 + c <= B
  BY <1>1
<1>4. TextSliced(buffer, 0, c)
  BY <1>1, <1>3, TextSlice, Zenon
<1>5. Text(Slice(buffer, 0, c), c)
  BY <1>4, Zenon DEF TextSliced
<1>6. TextJoined(chain, Slice(buffer, 0, c), Len(chain), c)
  BY <1>1, <1>5, TextJoin, Zenon
<1>7. Text(text, Len(chain) + c)
  BY <1>1, <1>6, Zenon DEF TextJoined
<1> QED BY <1>1, <1>2, <1>3, <1>5, <1>7, Zenon

(* The blocks go to the MAC.                                               *)
LEMMA MacAppends ==
  ASSUME NEW chain, NEW buffer, NEW c, NEW text, NEW B \in Nat \ {0}, MacLaw(chain, buffer, c, text, B),
         NEW data, NEW k, Text(data, k), NEW r, Appended(r, buffer, c, data, B)
  PROVE  MacLaw(chain \o r.blocks, r.buffer, r.count, text \o data, B)
<1> DEFINE H == Slice(buffer, 0, c)
           T == Slice(r.buffer, 0, r.count)
           C == Len(chain)
           b == r.blocks
<1>1. /\ Text(chain, C) /\ C \in Nat /\ C % B = 0 /\ Text(H, c) /\ chain \o H = text /\ Text(text, C + c)
  BY MacParts, Zenon
<1>2. /\ Text(r.buffer, B) /\ r.count \in 0 .. B - 1 /\ b \o T = H \o data
      /\ \E m \in Nat : Text(b, m) /\ m % B = 0
  BY Zenon DEF Appended
<1>3. PICK m \in Nat : Text(b, m) /\ m % B = 0
  BY <1>2
<1>4. Text(T, r.count)
  <2>1. 0 \in Nat /\ r.count \in Nat /\ 0 + r.count <= B
    BY <1>2
  <2> QED BY <1>2, <2>1, TextSlice, Zenon DEF TextSliced
<1> HIDE DEF H, T, C, b
<1>5. Text(chain \o b, C + m)
  BY <1>1, <1>3, TextJoin, Zenon DEF TextJoined
<1>6. Len(chain \o b) = C + m
  BY <1>5, TextLen, Zenon
<1>7. (C + m) % B = 0
  BY <1>1, <1>3, WholeDropped
<1>8. Regroups(chain, b, T) /\ Regroups(chain, H, data)
  BY <1>1, <1>3, <1>4, TextRegroup, Zenon
<1>9. (chain \o b) \o T = text \o data
  BY <1>1, <1>2, <1>8 DEF Regroups
<1>10. Text(text \o data, (C + c) + k)
  BY <1>1, TextJoin, Zenon DEF TextJoined
<1>11. Text(text \o data, Len(text \o data))
  BY <1>10, TextLen
<1> QED BY <1>2, <1>5, <1>6, <1>7, <1>9, <1>11 DEF MacLaw, T, b

(* The MAC of a text whose end is padded.                                  *)
MacEnds(chain, buffer, c, text, B) == chain \o PadToBlock(Slice(buffer, 0, c), B) = PadToBlock(text, B)

LEMMA MacPadded ==
  ASSUME NEW chain, NEW buffer, NEW c, NEW text, NEW B \in Nat \ {0}, MacLaw(chain, buffer, c, text, B)
  PROVE  MacEnds(chain, buffer, c, text, B)
<1> DEFINE H == Slice(buffer, 0, c)
<1>1. /\ Text(chain, Len(chain)) /\ Len(chain) % B = 0 /\ Text(H, c) /\ chain \o H = text
  BY MacParts, Zenon
<1> HIDE DEF H
<1>2. PadToBlock(chain \o H, B) = chain \o PadToBlock(H, B)
  BY <1>1, PadBehind, Zenon
<1> QED BY <1>1, <1>2 DEF H, MacEnds

(* How much of a text waits.                                               *)
MacWaits(c, n, B) == c = n % B

LEMMA MacCount ==
  ASSUME NEW chain, NEW buffer, NEW c, NEW text, NEW B \in Nat \ {0}, MacLaw(chain, buffer, c, text, B),
         NEW n, Text(text, n)
  PROVE  MacWaits(c, n, B)
<1> DEFINE C == Len(chain)
<1>1. C \in Nat /\ C % B = 0 /\ c \in 0 .. B - 1 /\ c \in Nat /\ Text(text, C + c)
  BY MacParts, Zenon
<1> HIDE DEF C
<1>2. n = C + c
  <2>1. Len(text) = n
    BY TextLen, Zenon
  <2>2. Len(text) = C + c
    BY <1>1, TextLen, Zenon
  <2> QED BY <2>1, <2>2
<1>3. (C + c) % B = c % B
  BY <1>1, WholeDropped
<1>4. c % B = c
  BY <1>1
<1> QED BY <1>2, <1>3, <1>4 DEF MacWaits

(* A MAC with nothing in its buffer.                                       *)
LEMMA MacNothing ==
  ASSUME NEW chain, NEW m, Text(chain, m), NEW B \in Nat \ {0}, m % B = 0, NEW buffer, Text(buffer, B)
  PROVE  MacLaw(chain, buffer, 0, chain, B)
<1>1. Len(chain) = m /\ 0 \in Nat
  BY TextLen, Zenon
<1>2. 0 \in 0 .. B - 1 /\ 0 + 0 <= B
  OBVIOUS
<1>3. Slice(buffer, 0, 0) = <<>>
  <2>1. TextSliced(buffer, 0, 0)
    BY <1>1, <1>2, TextSlice, Zenon
  <2> QED BY <2>1, TextEmpty, Zenon DEF TextSliced
<1>4. chain \o <<>> = chain
  BY TextAndEmpty
<1> QED BY <1>1, <1>2, <1>3, <1>4 DEF MacLaw
-----------------------------------------------------------------------------
(* XOR onto zeroes is a copy.                                              *)
LEMMA XorOntoZeroes ==
  ASSUME NEW buffer, NEW size, Text(buffer, size), NEW data, NEW k, Text(data, k),
         NEW at \in Nat, at + k <= size, \A i \in at + 1 .. at + k : buffer[i] = ZeroByte
  PROVE  XorOnto(buffer, at, data) = CopyTo(buffer, at, data)
<1>1. size \in Nat /\ Len(buffer) = size /\ k \in Nat /\ Len(data) = k
  BY TextLen, Zenon
<1> DEFINE e(i) == IF i > at /\ i <= at + k THEN XorByte(buffer[i], data[i - at]) ELSE buffer[i]
           f(i) == IF i > at /\ i <= at + k THEN data[i - at] ELSE buffer[i]
<1>2. XorOnto(buffer, at, data) = [i \in 1 .. size |-> e(i)]
  BY <1>1 DEF XorOnto
<1>3. CopyTo(buffer, at, data) = [i \in 1 .. size |-> f(i)]
  BY <1>1 DEF CopyTo
<1>4. ASSUME NEW i \in 1 .. size PROVE e(i) = f(i)
  <2>1. CASE i > at /\ i <= at + k
    <3>1. i \in at + 1 .. at + k
      BY <1>1, <2>1
    <3>2. buffer[i] = ZeroByte
      BY <3>1
    <3>3. XorByte(ZeroByte, data[i - at]) = data[i - at]
      BY XorZero
    <3> QED BY <2>1, <3>2, <3>3
  <2>2. CASE ~(i > at /\ i <= at + k)
    BY <2>2
  <2> QED BY <2>1, <2>2
<1> HIDE DEF e, f
<1>5. [i \in 1 .. size |-> e(i)] = [i \in 1 .. size |-> f(i)]
  BY <1>4
<1> QED BY <1>2, <1>3, <1>5

(* XOR of zeroes changes nothing.                                          *)
LEMMA XorOfZeroes ==
  ASSUME NEW buffer, NEW size, Text(buffer, size), NEW data, NEW k, Text(data, k),
         \A i \in 1 .. k : data[i] = ZeroByte
  PROVE  XorOnto(buffer, 0, data) = buffer
<1>1. size \in Nat /\ Len(buffer) = size /\ k \in Nat /\ Len(data) = k /\ buffer = [i \in 1 .. size |-> buffer[i]]
  BY TextLen, Zenon DEF Text
<1> DEFINE e(i) == IF i > 0 /\ i <= 0 + k THEN XorByte(buffer[i], data[i - 0]) ELSE buffer[i]
<1>2. XorOnto(buffer, 0, data) = [i \in 1 .. size |-> e(i)]
  BY <1>1 DEF XorOnto
<1>3. ASSUME NEW i \in 1 .. size PROVE e(i) = buffer[i]
  <2>1. CASE i > 0 /\ i <= 0 + k
    <3>1. i - 0 \in 1 .. k
      BY <1>1, <2>1
    <3>2. data[i - 0] = ZeroByte
      BY <3>1
    <3>3. XorByte(buffer[i], ZeroByte) = buffer[i]
      BY XorZero
    <3> QED BY <2>1, <3>2, <3>3
  <2>2. CASE ~(i > 0 /\ i <= 0 + k)
    BY <2>2
  <2> QED BY <2>1, <2>2
<1> HIDE DEF e
<1>4. [i \in 1 .. size |-> e(i)] = [i \in 1 .. size |-> buffer[i]]
  BY <1>3
<1> QED BY <1>1, <1>2, <1>4, Zenon

(* Behind the bytes that wait in CCM's macBlock are zeroes.                *)
ZeroBehind(buffer, c, B) == \A i \in c + 1 .. B : buffer[i] = ZeroByte

(* SymCryptCcmAddMacData: the same blocks as a buffer that is copied to.   *)
LEMMA CcmAdds ==
  ASSUME NEW s, DOMAIN s = DOMAIN CcmWiped, NEW text,
         MacLaw(s.chain, s.macBlock, s.bytesInMacBlock, text, BlockSize),
         ZeroBehind(s.macBlock, s.bytesInMacBlock, BlockSize),
         NEW data, NEW k, Text(data, k)
  PROVE  LET new == CcmAddMacData(s, data)
         IN /\ MacLaw(new.chain, new.macBlock, new.bytesInMacBlock, text \o data, BlockSize)
            /\ ZeroBehind(new.macBlock, new.bytesInMacBlock, BlockSize)
<1> DEFINE B == BlockSize
           c == s.bytesInMacBlock
           old == s.macBlock
           a == FirstOf(c, k, B)
           w == WholeOf(c, k, B)
           t == RestOf(c, k, B)
           D0 == Slice(data, 0, a)
           D1 == Slice(data, a, w)
           D2 == Slice(data, a + w, t)
           filled == XorOnto(old, c, D0)
           full == c + a = B
           start == IF full THEN Zeroes(B) ELSE filled
           rest == IF w > 0 THEN Zeroes(B) ELSE start
           new == CcmAddMacData(s, data)
           r == BlockAppend(old, c, data, B)
           q == [blocks |-> r.blocks, buffer |-> new.macBlock, count |-> new.bytesInMacBlock]
<1>1. k \in Nat /\ Len(data) = k
  BY TextLen, Zenon
<1>2. B \in Nat \ {0} /\ B \in Nat
  BY GcmAssumption
<1>3. /\ Text(s.chain, Len(s.chain)) /\ c \in 0 .. B - 1 /\ c \in Nat /\ Text(old, B)
  <2>1. MacLaw(s.chain, old, c, text, B)
    OBVIOUS
  <2> HIDE DEF B, old, c
  <2> QED BY <1>2, <2>1, MacParts, Zenon
<1>4. /\ a \in Nat /\ w \in Nat /\ t \in 0 .. B - 1 /\ a + w + t = k /\ c + a \in 0 .. B
      /\ \E d \in Nat : w = d * B
      /\ (c + a # B /\ c # 0) => w = 0 /\ t = 0
      /\ c = 0 => a = 0
  <2> HIDE DEF B, c
  <2> QED BY <1>1, <1>2, <1>3, Pieces, Zenon
<1>5. /\ new.chain = (s.chain \o (IF full THEN filled ELSE <<>>)) \o XorOnto(D1, 0, start)
      /\ new.macBlock = XorOnto(rest, 0, D2)
      /\ new.bytesInMacBlock = IF t > 0 THEN t ELSE (c + a) % B
  <2>1. /\ "chain" \in DOMAIN s /\ "macBlock" \in DOMAIN s /\ "bytesInMacBlock" \in DOMAIN s
    BY DEF CcmWiped
  <2>2. (c > 0) <=> (c # 0)
    BY <1>3
  <2> QED BY <1>1, <2>1, <2>2 DEF CcmAddMacData, FirstOf, WholeOf, RestOf
<1>6. /\ r.blocks = (IF full THEN CopyTo(old, c, D0) ELSE <<>>) \o D1
      /\ r.buffer = CopyTo(CopyTo(old, c, D0), 0, D2)
      /\ r.count = IF t > 0 THEN t ELSE (c + a) % B
  <2>1. (c > 0) <=> (c # 0)
    BY <1>3
  <2> QED BY <1>1, <2>1 DEF BlockAppend, FirstOf, WholeOf, RestOf
<1>7. Appended(r, old, c, data, B)
  <2> HIDE DEF B, c, old
  <2>1. Appended(BlockAppend(old, c, data, B), old, c, data, B)
    BY <1>2, <1>3, AppendIs, Zenon
  <2> QED BY <2>1
<1>8. \A i \in c + 1 .. B : old[i] = ZeroByte
  BY DEF ZeroBehind
<1>9. MacLaw(s.chain, old, c, text, B)
  OBVIOUS
<1> HIDE DEF a, w, t, new, r, B, c, old
<1>10. /\ 0 \in Nat /\ a + w \in Nat /\ t \in Nat /\ 0 + a <= k /\ a + w <= k /\ (a + w) + t <= k
       /\ c + a <= B /\ 0 + t <= B /\ c + 1 \in Nat
  BY <1>1, <1>2, <1>3, <1>4
<1>11. Text(D0, a) /\ Text(D1, w) /\ Text(D2, t)
  <2>1. TextSliced(data, 0, a) /\ TextSliced(data, a, w) /\ TextSliced(data, a + w, t)
    BY <1>4, <1>10, TextSlice, Zenon
  <2> QED BY <2>1, Zenon DEF TextSliced
<1> HIDE DEF D0, D1, D2
<1>12. filled = CopyTo(old, c, D0)
  <2>1. \A i \in c + 1 .. c + a : old[i] = ZeroByte
    <3>1. \A i \in c + 1 .. c + a : i \in c + 1 .. B
      BY <1>2, <1>3, <1>4
    <3> QED BY <1>8, <3>1
  <2> QED BY <1>3, <1>10, <1>11, <2>1, XorOntoZeroes, Zenon
<1>13. /\ Text(filled, B)
       /\ \A i \in 1 .. B : i <= c \/ i > c + a => filled[i] = old[i]
  <2>1. TextCopied(old, c, D0, B, a)
    BY <1>3, <1>10, <1>11, TextCopy, Zenon
  <2> QED BY <1>12, <2>1, Zenon DEF TextCopied
<1>14. Text(Zeroes(B), B) /\ \A i \in 1 .. B : Zeroes(B)[i] = ZeroByte
  BY <1>2, TextZeroes, Zenon
<1> HIDE DEF filled
<1>15. Text(start, B) /\ Text(rest, B)
  BY <1>13, <1>14
(* Where bytes go to a new block, that block is zero.                      *)
<1>16. (c = 0 \/ full) => \A i \in 1 .. B : start[i] = ZeroByte
  <2> SUFFICES ASSUME c = 0 \/ full, NEW i \in 1 .. B PROVE start[i] = ZeroByte
    OBVIOUS
  <2>1. CASE full
    BY <1>14, <2>1
  <2>2. CASE ~full /\ c = 0
    <3>1. a = 0 /\ i \in c + 1 .. B /\ i > c + a
      BY <1>2, <1>4, <2>2
    <3> QED BY <1>8, <1>13, <2>2, <3>1
  <2> QED BY <2>1, <2>2
<1>17. XorOnto(D1, 0, start) = D1
  <2>1. CASE w = 0
    <3>1. D1 = <<>> /\ Text(<<>>, 0) /\ Len(<<>>) = 0
      BY <1>11, <2>1, TextEmpty, Zenon
    <3>2. XorOnto(<<>>, 0, start) = [i \in 1 .. 0 |->
              IF i > 0 /\ i <= 0 + Len(start) THEN XorByte(<<>>[i], start[i - 0]) ELSE <<>>[i]]
      BY <3>1, Zenon DEF XorOnto
    <3>3. Text(XorOnto(<<>>, 0, start), 0)
      BY <3>2 DEF Text
    <3> QED BY <3>1, <3>3, TextEmpty, Zenon
  <2>2. CASE w # 0
    <3>1. c = 0 \/ full
      BY <1>4, <2>2
    <3> QED BY <1>11, <1>15, <1>16, <3>1, XorOfZeroes, Zenon
  <2> QED BY <2>1, <2>2
<1>18. XorOnto(rest, 0, D2) = CopyTo(rest, 0, D2)
  <2>1. \A i \in 0 + 1 .. 0 + t : rest[i] = ZeroByte
    <3> SUFFICES ASSUME NEW i \in 0 + 1 .. 0 + t PROVE rest[i] = ZeroByte
      OBVIOUS
    <3>1. i \in 1 .. B /\ t # 0
      BY <1>2, <1>4
    <3>2. c = 0 \/ full
      BY <1>4, <3>1
    <3> QED BY <1>14, <1>16, <3>1, <3>2
  <2> QED BY <1>10, <1>11, <1>15, <2>1, XorOntoZeroes, Zenon
<1>19. new.macBlock = CopyTo(rest, 0, D2)
  BY <1>5, <1>18
<1>20. TextCopied(rest, 0, D2, B, t) /\ CopyHead(rest, 0, D2, t)
  BY <1>10, <1>11, <1>15, TextCopy, CopyHeadIs, Zenon
<1>21. new.bytesInMacBlock = r.count /\ new.chain = s.chain \o r.blocks
  <2>1. new.bytesInMacBlock = r.count
    BY <1>5, <1>6
  <2> DEFINE head == IF full THEN filled ELSE <<>>
  <2>2. new.chain = (s.chain \o head) \o D1 /\ r.blocks = head \o D1
    BY <1>5, <1>6, <1>12, <1>17
  <2>3. Text(head, IF full THEN B ELSE 0)
    BY <1>13, TextEmpty
  <2> HIDE DEF head
  <2>4. Regroups(s.chain, head, D1)
    BY <1>3, <1>11, <2>3, TextRegroup, Zenon
  <2> QED BY <2>1, <2>2, <2>4 DEF Regroups
<1>22. CASE c # 0 /\ ~full
  <2>1. w = 0 /\ t = 0
    BY <1>4, <1>22
  <2>2. D2 = <<>> /\ rest = filled
    <3>1. D2 = <<>>
      BY <1>11, <2>1, TextEmpty, Zenon
    <3>2. ~(w > 0)
      BY <2>1
    <3> QED BY <1>22, <3>1, <3>2
  <2>3. new.macBlock = filled /\ r.buffer = filled
    BY <1>6, <1>12, <1>13, <1>19, <2>2, CopyNothing
  <2>4. r.count = c + a
    <3>1. c + a \in 0 .. B - 1
      <4>1. c + a # B
        BY <1>22, Zenon
      <4>2. c + a \in 0 .. B
        BY <1>4, Zenon
      <4> HIDE DEF B, c, a
      <4> QED BY <1>2, <4>1, <4>2
    <3>2. (c + a) % B = c + a
      BY <1>2, <3>1
    <3> QED BY <1>6, <2>1, <3>2
  <2>5. ZeroBehind(new.macBlock, new.bytesInMacBlock, B)
    <3> SUFFICES ASSUME NEW i \in c + a + 1 .. B PROVE filled[i] = ZeroByte
      BY <1>21, <2>3, <2>4 DEF ZeroBehind
    <3>1. i \in 1 .. B /\ i > c + a /\ i \in c + 1 .. B
      BY <1>2, <1>3, <1>4
    <3> QED BY <1>8, <1>13, <3>1
  <2>6. MacLaw(s.chain \o r.blocks, r.buffer, r.count, text \o data, B)
    BY <1>2, <1>7, <1>9, MacAppends, Zenon
  <2> QED BY <1>21, <2>3, <2>5, <2>6 DEF new, B
<1>23. CASE c = 0 \/ full
  <2>1. r.count = t
    <3>1. c + a = 0 \/ c + a = B
      BY <1>4, <1>23
    <3>2. 0 % B = 0 /\ B % B = 0
      BY <1>2
    <3> QED BY <1>4, <1>6, <3>1, <3>2
  <2>2. Slice(new.macBlock, 0, t) = Slice(r.buffer, 0, t)
    <3>1. /\ 0 + t = t /\ 0 + 0 <= B
      BY <1>2, <1>10
    <3>2. Slice(new.macBlock, 0, t) = Slice(rest, 0, 0) \o D2
      BY <1>19, <1>20, <3>1 DEF CopyHead
    <3>3. CopyHead(filled, 0, D2, t)
      BY <1>10, <1>11, <1>13, CopyHeadIs, Zenon
    <3>4. Slice(r.buffer, 0, t) = Slice(filled, 0, 0) \o D2
      BY <1>6, <1>12, <3>1, <3>3 DEF CopyHead
    <3>5. TextSliced(rest, 0, 0) /\ TextSliced(filled, 0, 0)
      BY <1>10, <1>13, <1>15, <3>1, TextSlice, Zenon
    <3>6. Slice(rest, 0, 0) = <<>> /\ Slice(filled, 0, 0) = <<>>
      BY <3>5, TextEmpty, Zenon DEF TextSliced
    <3> QED BY <3>2, <3>4, <3>6
  <2>3. ZeroBehind(new.macBlock, new.bytesInMacBlock, B)
    <3> SUFFICES ASSUME NEW i \in t + 1 .. B PROVE new.macBlock[i] = ZeroByte
      BY <1>21, <2>1 DEF ZeroBehind
    <3>1. i \in 1 .. B /\ i > 0 + t
      BY <1>2, <1>10
    <3>2. new.macBlock[i] = rest[i]
      BY <1>19, <1>20, <3>1 DEF TextCopied
    <3>3. rest[i] = ZeroByte
      BY <1>14, <1>16, <1>23, <3>1
    <3> QED BY <3>2, <3>3
  <2>4. Text(new.macBlock, B)
    BY <1>19, <1>20, Zenon DEF TextCopied
  <2>5. q.blocks = r.blocks /\ q.buffer = new.macBlock /\ q.count = r.count
    BY <1>21
  <2> HIDE DEF q
  <2>6. Appended(q, old, c, data, B)
    <3>1. Slice(q.buffer, 0, q.count) = Slice(r.buffer, 0, r.count)
      BY <2>1, <2>2, <2>5
    <3>2. Text(q.buffer, B)
      BY <2>4, <2>5
    <3> QED BY <1>7, <2>5, <3>1, <3>2 DEF Appended
  <2>7. MacLaw(s.chain \o q.blocks, q.buffer, q.count, text \o data, B)
    BY <1>2, <1>9, <2>6, MacAppends, Zenon
  <2> QED BY <1>21, <2>3, <2>5, <2>7 DEF new, B
<1> QED BY <1>22, <1>23

(* SymCryptCcmPadMacData ends the text with zeroes to a whole block.       *)
LEMMA CcmPads ==
  ASSUME NEW s, DOMAIN s = DOMAIN CcmWiped, NEW text,
         MacLaw(s.chain, s.macBlock, s.bytesInMacBlock, text, BlockSize),
         ZeroBehind(s.macBlock, s.bytesInMacBlock, BlockSize)
  PROVE  LET new == CcmPadMacData(s)
         IN /\ new.chain = PadToBlock(text, BlockSize) /\ new.bytesInMacBlock = 0
            /\ Text(new.macBlock, BlockSize) /\ ZeroBehind(new.macBlock, 0, BlockSize)
<1> DEFINE B == BlockSize
           c == s.bytesInMacBlock
           old == s.macBlock
           H == Slice(old, 0, c)
           C == Len(s.chain)
<1>2. B \in Nat \ {0} /\ B \in Nat
  BY GcmAssumption
<1> HIDE DEF B
<1>3. /\ Text(s.chain, C) /\ C % B = 0 /\ c \in 0 .. B - 1 /\ c \in Nat /\ Text(old, B)
      /\ Text(H, c) /\ s.chain \o H = text /\ Text(text, C + c)
  BY <1>2, MacParts, Zenon DEF B
<1>4. s.chain \o PadToBlock(H, B) = PadToBlock(text, B)
  <2>1. MacLaw(s.chain, old, c, text, B)
    BY DEF B
  <2>2. MacEnds(s.chain, old, c, text, B)
    BY <1>2, <2>1, MacPadded, Zenon
  <2> QED BY <2>2, Zenon DEF MacEnds
<1>5. CASE c = 0
  <2>1. CcmPadMacData(s) = s
    BY <1>5, Zenon DEF CcmPadMacData
  <2>2. H = <<>> /\ Text(<<>>, 0) /\ 0 % B = 0
    BY <1>2, <1>3, <1>5, TextEmpty
  <2>3. PadToBlock(<<>>, B) = <<>>
    BY <1>2, <2>2, PadWhole, Zenon
  <2>4. s.chain \o <<>> = s.chain
    BY <1>3, TextAndEmpty
  <2>5. s.chain = PadToBlock(text, B)
    BY <1>4, <2>2, <2>3, <2>4
  <2> QED BY <1>3, <1>5, <2>1, <2>5 DEF B
<1>6. CASE c # 0
  <2>1. /\ CcmPadMacData(s).chain = s.chain \o old /\ CcmPadMacData(s).macBlock = Zeroes(B)
        /\ CcmPadMacData(s).bytesInMacBlock = 0
    <3>1. /\ "chain" \in DOMAIN s /\ "macBlock" \in DOMAIN s /\ "bytesInMacBlock" \in DOMAIN s
      BY DEF CcmWiped
    <3> QED BY <1>6, <3>1 DEF CcmPadMacData, B
  <2>2. Text(Zeroes(B), B) /\ \A i \in 1 .. B : Zeroes(B)[i] = ZeroByte
    BY <1>2, TextZeroes, Zenon
  <2>3. PadToBlock(H, B) = old
    <3> DEFINE z == PadZ(c, B)
               Z == Zeroes(z)
    <3>1. z = B - c /\ z \in Nat
      <4>1. c % B = c
        BY <1>2, <1>3
      <4>2. c % B # 0 => z = B - (c % B)
        BY <1>2, <1>3, PadSize, Zenon
      <4> QED BY <1>2, <1>3, <1>6, <4>1, <4>2
    <3> HIDE DEF z
    <3>2. PadToBlock(H, B) = H \o Z /\ TextJoined(H, Z, c, z)
      BY <1>2, <1>3, PadIs, Zenon DEF z
    <3>3. /\ Text(H \o Z, c + z) /\ \A i \in 1 .. c : (H \o Z)[i] = H[i]
          /\ \A i \in 1 .. z : (H \o Z)[c + i] = Z[i]
      BY <3>2, Zenon DEF TextJoined
    <3>4. \A i \in 1 .. z : Z[i] = ZeroByte
      BY <3>1, TextZeroes, Zenon
    <3>5. \A i \in 1 .. c : H[i] = old[0 + i]
      <4>1. 0 \in Nat /\ 0 + c <= B
        BY <1>2, <1>3
      <4>2. TextSliced(old, 0, c)
        <5> HIDE DEF B, old, c
        <5> QED BY <1>3, <4>1, TextSlice, Zenon
      <4> QED BY <4>2, Zenon DEF TextSliced
    <3> HIDE DEF Z, H
    <3>6. ASSUME NEW i \in 1 .. B PROVE (H \o Z)[i] = old[i]
      <4>1. CASE i <= c
        <5>1. i \in 1 .. c /\ 0 + i = i
          BY <1>2, <1>3, <4>1
        <5> QED BY <3>3, <3>5, <5>1
      <4>2. CASE ~(i <= c)
        <5>1. i - c \in 1 .. z /\ c + (i - c) = i /\ i \in c + 1 .. B
          BY <1>2, <1>3, <3>1, <4>2
        <5>2. (H \o Z)[c + (i - c)] = Z[i - c] /\ Z[i - c] = ZeroByte
          BY <3>3, <3>4, <5>1, Zenon
        <5>3. old[i] = ZeroByte
          BY <5>1 DEF ZeroBehind, B
        <5> QED BY <5>1, <5>2, <5>3
      <4> QED BY <4>1, <4>2
    <3>7. c + z = B
      BY <1>2, <1>3, <3>1
    <3>8. H \o Z = old
      BY <1>3, <3>3, <3>6, <3>7, TextSame
    <3> QED BY <3>2, <3>8
  <2>4. CcmPadMacData(s).chain = PadToBlock(text, B)
    BY <1>4, <2>1, <2>3
  <2>5. ZeroBehind(Zeroes(B), 0, B)
    <3>1. 0 + 1 = 1
      OBVIOUS
    <3> QED BY <2>2, <3>1 DEF ZeroBehind
  <2> QED BY <2>1, <2>2, <2>4, <2>5 DEF B
<1> QED BY <1>5, <1>6

(* A CCM state whose MAC has taken a text, and the rest of two states.     *)
CcmHas(s, text) ==
  /\ DOMAIN s = DOMAIN CcmWiped
  /\ MacLaw(s.chain, s.macBlock, s.bytesInMacBlock, text, BlockSize)
  /\ ZeroBehind(s.macBlock, s.bytesInMacBlock, BlockSize)

CcmSame(s, t) ==
  /\ t.cbData = s.cbData /\ t.bytesProcessed = s.bytesProcessed
  /\ t.counter = s.counter /\ t.keystreamBlock = s.keystreamBlock

(* Data for the MAC is data behind its text, and nothing else.             *)
LEMMA CcmAddsHas ==
  ASSUME NEW s, NEW text, CcmHas(s, text), NEW data, NEW k, Text(data, k)
  PROVE  CcmHas(CcmAddMacData(s, data), text \o data) /\ CcmSame(s, CcmAddMacData(s, data))
<1> DEFINE new == CcmAddMacData(s, data)
<1>1. /\ DOMAIN s = DOMAIN CcmWiped /\ MacLaw(s.chain, s.macBlock, s.bytesInMacBlock, text, BlockSize)
      /\ ZeroBehind(s.macBlock, s.bytesInMacBlock, BlockSize)
  BY Zenon DEF CcmHas
<1>2. /\ MacLaw(new.chain, new.macBlock, new.bytesInMacBlock, text \o data, BlockSize)
      /\ ZeroBehind(new.macBlock, new.bytesInMacBlock, BlockSize)
  BY <1>1, CcmAdds, Zenon
<1>3. DOMAIN CcmWiped = {"cbData", "bytesProcessed", "bytesInMacBlock", "counter", "chain", "macBlock", "keystreamBlock"}
  BY DEF CcmWiped
<1>4. DOMAIN new = DOMAIN s /\ CcmSame(s, new)
  BY <1>1, <1>3 DEF CcmAddMacData, CcmSame
<1> HIDE DEF new
<1>5. CcmHas(new, text \o data)
  BY <1>1, <1>2, <1>4, Zenon DEF CcmHas
<1> QED BY <1>4, <1>5 DEF new

(* Padding the MAC pads its text.                                          *)
LEMMA CcmPadsHas ==
  ASSUME NEW s, NEW text, CcmHas(s, text)
  PROVE  /\ CcmHas(CcmPadMacData(s), PadToBlock(text, BlockSize)) /\ CcmSame(s, CcmPadMacData(s))
         /\ CcmPadMacData(s).chain = PadToBlock(text, BlockSize) /\ CcmPadMacData(s).bytesInMacBlock = 0
<1> DEFINE new == CcmPadMacData(s)
           B == BlockSize
<1>1. /\ DOMAIN s = DOMAIN CcmWiped /\ MacLaw(s.chain, s.macBlock, s.bytesInMacBlock, text, B)
      /\ ZeroBehind(s.macBlock, s.bytesInMacBlock, B)
  BY Zenon DEF CcmHas
<1>2. /\ new.chain = PadToBlock(text, B) /\ new.bytesInMacBlock = 0
      /\ Text(new.macBlock, B) /\ ZeroBehind(new.macBlock, 0, B)
  BY <1>1, CcmPads, Zenon
<1>3. DOMAIN CcmWiped = {"cbData", "bytesProcessed", "bytesInMacBlock", "counter", "chain", "macBlock", "keystreamBlock"}
  BY DEF CcmWiped
<1>4. DOMAIN new = DOMAIN s /\ CcmSame(s, new)
  BY <1>1, <1>3 DEF CcmPadMacData, CcmSame
<1>5. B \in Nat \ {0}
  BY GcmAssumption
<1> HIDE DEF new, B
<1>6. \E n \in Nat : Text(PadToBlock(text, B), n) /\ n % B = 0
  <2> DEFINE n == Len(s.chain) + s.bytesInMacBlock
  <2>1. Len(s.chain) \in Nat /\ s.bytesInMacBlock \in Nat /\ Text(text, n)
    BY <1>1, <1>5, MacParts, Zenon
  <2>2. n \in Nat
    BY <2>1
  <2> HIDE DEF n
  <2>3. n + PadZ(n, B) \in Nat /\ (n + PadZ(n, B)) % B = 0
    BY <1>5, <2>2, PadSize, Zenon
  <2>4. Text(PadToBlock(text, B), n + PadZ(n, B))
    BY <1>5, <2>1, PadIs, Zenon
  <2> QED BY <2>3, <2>4
<1>7. MacLaw(PadToBlock(text, B), new.macBlock, 0, PadToBlock(text, B), B)
  BY <1>2, <1>5, <1>6, MacNothing, Zenon
<1>8. CcmHas(new, PadToBlock(text, B))
  BY <1>1, <1>2, <1>4, <1>7 DEF CcmHas, B
<1> QED BY <1>2, <1>4, <1>8 DEF new, B

-----------------------------------------------------------------------------
(* A GCM state whose GHASH has taken a text, and the rest of two states.   *)
GcmHas(s, text) ==
  /\ DOMAIN s = DOMAIN GcmWiped
  /\ MacLaw(s.ghash, s.macBlock, s.bytesInMacBlock, text, BlockSize)

GcmSame(s, t) ==
  /\ t.cbData = s.cbData /\ t.cbAuthData = s.cbAuthData
  /\ t.counter = s.counter /\ t.keystreamBlock = s.keystreamBlock

(* The fields of the state.                                                *)
GcmFields == {"cbData", "cbAuthData", "bytesInMacBlock", "ghash", "counter", "macBlock", "keystreamBlock"}

LEMMA GcmFieldsAre == DOMAIN GcmWiped = GcmFields /\ DOMAIN GcmUninitialised = GcmFields
  BY DEF GcmWiped, GcmUninitialised, GcmFields

(* SymCryptGcmAddMacData: data behind the text, and nothing else.          *)
LEMMA GcmAddsHas ==
  ASSUME NEW s, NEW text, GcmHas(s, text), NEW data, NEW k, Text(data, k)
  PROVE  GcmHas(GcmAddMacData(s, data), text \o data) /\ GcmSame(s, GcmAddMacData(s, data))
<1> DEFINE new == GcmAddMacData(s, data)
           B == BlockSize
           r == BlockAppend(s.macBlock, s.bytesInMacBlock, data, B)
<1>1. DOMAIN s = GcmFields /\ MacLaw(s.ghash, s.macBlock, s.bytesInMacBlock, text, B)
  BY GcmFieldsAre, Zenon DEF GcmHas
<1>2. B \in Nat \ {0}
  BY GcmAssumption
<1>3. /\ new.ghash = s.ghash \o r.blocks /\ new.macBlock = r.buffer /\ new.bytesInMacBlock = r.count
      /\ DOMAIN new = GcmFields /\ GcmSame(s, new)
  BY <1>1 DEF GcmAddMacData, GcmFields, GcmSame
<1> HIDE DEF new, B
<1>4. Text(s.macBlock, B) /\ s.bytesInMacBlock \in 0 .. B - 1
  BY <1>1, <1>2, MacParts, Zenon
<1>5. Appended(r, s.macBlock, s.bytesInMacBlock, data, B)
  BY <1>2, <1>4, AppendIs, Zenon
<1> HIDE DEF r
<1>6. MacLaw(s.ghash \o r.blocks, r.buffer, r.count, text \o data, B)
  BY <1>1, <1>2, <1>5, MacAppends, Zenon
<1>7. GcmHas(new, text \o data)
  BY <1>3, <1>6, GcmFieldsAre DEF GcmHas, B
<1> QED BY <1>3, <1>7 DEF new

(* SymCryptGcmPadMacData pads the text.                                    *)
LEMMA GcmPadsHas ==
  ASSUME NEW s, NEW text, GcmHas(s, text)
  PROVE  /\ GcmHas(GcmPadMacData(s), PadToBlock(text, BlockSize)) /\ GcmSame(s, GcmPadMacData(s))
         /\ GcmPadMacData(s).bytesInMacBlock = 0
<1> DEFINE new == GcmPadMacData(s)
           B == BlockSize
           c == s.bytesInMacBlock
           H == Slice(s.macBlock, 0, c)
           C == Len(s.ghash)
           p == PadToBlock(H, B)
<1>1. DOMAIN s = GcmFields /\ MacLaw(s.ghash, s.macBlock, c, text, B)
  BY GcmFieldsAre, Zenon DEF GcmHas
<1>2. B \in Nat \ {0}
  BY GcmAssumption
<1>3. c = 0 => new = s
  BY Zenon DEF GcmPadMacData
<1>4. c # 0 => /\ new.ghash = s.ghash \o p /\ new.macBlock = p /\ new.bytesInMacBlock = 0
               /\ DOMAIN new = GcmFields /\ GcmSame(s, new)
  BY <1>1 DEF GcmPadMacData, GcmFields, GcmSame
<1> HIDE DEF new, B
<1>5. /\ C \in Nat /\ C % B = 0 /\ Text(s.ghash, C) /\ Text(s.macBlock, B) /\ c \in 0 .. B - 1 /\ c \in Nat
      /\ Text(H, c) /\ s.ghash \o H = text /\ Text(text, C + c)
  BY <1>1, <1>2, MacParts, Zenon
<1>6. MacEnds(s.ghash, s.macBlock, c, text, B)
  BY <1>1, <1>2, MacPadded, Zenon
<1>7. s.ghash \o p = PadToBlock(text, B)
  BY <1>6, Zenon DEF MacEnds
<1>8. CASE c = 0
  <2>1. H = <<>>
    BY <1>5, <1>8, TextEmpty, Zenon
  <2>2. s.ghash \o <<>> = s.ghash
    BY <1>5, TextAndEmpty
  <2>3. text = s.ghash
    BY <1>5, <2>1, <2>2
  <2>4. PadToBlock(s.ghash, B) = s.ghash
    BY <1>2, <1>5, PadWhole, Zenon
  <2>5. GcmHas(new, PadToBlock(text, B))
    BY <1>3, <1>8, <2>3, <2>4
  <2>6. GcmSame(s, new)
    BY <1>3, <1>8 DEF GcmSame
  <2> QED BY <1>3, <1>8, <2>5, <2>6 DEF new, B
<1>9. CASE c # 0
  <2>1. c % B = c
    <3>1. c \in 0 .. B - 1
      BY <1>5
    <3> HIDE DEF c
    <3> QED BY <1>2, <3>1
  <2>2. c % B # 0 => PadZ(c, B) = B - (c % B)
    BY <1>2, <1>5, PadSize, Zenon
  <2>3. c + PadZ(c, B) = B
    BY <1>2, <1>5, <1>9, <2>1, <2>2
  <2>4. Text(p, B)
    <3>1. Text(p, c + PadZ(c, B))
      BY <1>2, <1>5, PadIs, Zenon
    <3> QED BY <2>3, <3>1
  <2> HIDE DEF p
  <2>5. Text(s.ghash \o p, C + B)
    BY <1>5, <2>4, TextJoin, Zenon DEF TextJoined
  <2>6. (C + B) % B = 0
    <3>1. B \in Nat /\ B % B = 0
      BY <1>2
    <3>2. (C + B) % B = B % B
      BY <1>2, <1>5, <3>1, WholeDropped, Zenon
    <3> QED BY <3>1, <3>2
  <2>7. MacLaw(PadToBlock(text, B), p, 0, PadToBlock(text, B), B)
    <3>1. Text(PadToBlock(text, B), C + B)
      BY <1>7, <2>5
    <3> QED BY <1>2, <2>4, <2>6, <3>1, MacNothing, Zenon
  <2>8. GcmHas(new, PadToBlock(text, B))
    BY <1>4, <1>7, <1>9, <2>7, GcmFieldsAre DEF GcmHas, B
  <2> QED BY <1>4, <1>9, <2>8 DEF new, B
<1> QED BY <1>8, <1>9

(* A part, whichever code a call gets: the output, the text of GHASH, the  *)
(* place in the key stream and the counts.                                 *)
MacInput(dst, src, d) == IF d = "encrypt" THEN dst ELSE src

GcmPartRight(r, cbAuth, src, start, n, k, text, d) ==
  /\ r.dst = Enc(src, 0, k, start, n, BlockSize, GcmSpace)
  /\ GcmHas(r.st, text \o MacInput(r.dst, src, d))
  /\ CtrLaw(r.st.keystreamBlock, r.st.counter, start, n + k, BlockSize, GcmSpace)
  /\ r.st.cbData = n + k /\ r.st.cbAuthData = cbAuth

LEMMA GcmPartCodeRight ==
  ASSUME NEW s, NEW text, GcmHas(s, text), NEW start \in Nat, NEW n \in Nat, s.cbData = n,
         CtrLaw(s.keystreamBlock, s.counter, start, n, BlockSize, GcmSpace),
         s.bytesInMacBlock = n % BlockSize, NEW src, NEW k, Text(src, k), NEW d, NEW onePass \in BOOLEAN
  PROVE  GcmPartRight(GcmPartCode(s, src, d, onePass), s.cbAuthData, src, start, n, k, text, d)
<1> DEFINE B == BlockSize
           S == GcmSpace
           ctr == CtrCrypt(s.keystreamBlock, n % B, s.counter, src, B, S)
           r == GcmPartCode(s, src, d, onePass)
           dst == Enc(src, 0, k, start, n, B, S)
           m == MacInput(dst, src, d)
           G == GcmAddMacData(s, m)
           with == [s EXCEPT !.cbData = n + k, !.counter = ctr.counter, !.keystreamBlock = ctr.keystream]
<1>1. B \in Nat \ {0} /\ S \in Nat \ {0}
  BY GcmAssumption DEF GcmSpace
<1>2. Len(src) = k /\ k \in Nat
  BY TextLen, Zenon
<1>3. DOMAIN s = GcmFields /\ MacLaw(s.ghash, s.macBlock, s.bytesInMacBlock, text, B)
  BY GcmFieldsAre, Zenon DEF GcmHas
<1>4. CtrLaw(s.keystreamBlock, s.counter, start, n, B, S)
  OBVIOUS
<1>5. ctr.dst = dst /\ CtrLaw(ctr.keystream, ctr.counter, start, n + k, B, S)
  <2> HIDE DEF B, S
  <2>1. CtrRight(ctr, src, start, n, k, B, S)
    BY <1>1, <1>4, CtrCrypts, Zenon
  <2> HIDE DEF ctr, dst
  <2>2. ctr.dst = Enc(src, 0, k, start, n, B, S) /\ CtrLaw(ctr.keystream, ctr.counter, start, n + k, B, S)
    BY <2>1, Zenon DEF CtrRight
  <2> QED BY <2>2 DEF dst
<1>6. Text(dst, k)
  <2>1. 0 \in Nat /\ 0 + k <= k
    BY <1>2
  <2>2. EncBytes(src, 0, k, start, n, B, S)
    BY <1>2, <2>1, EncIs, Zenon
  <2> QED BY <2>2, Zenon DEF EncBytes
<1> HIDE DEF ctr, dst
<1>7. Len(dst) = k
  BY <1>6, TextLen, Zenon
<1>8. Text(m, k)
  BY <1>6 DEF MacInput
<1>9. /\ s.cbData % BlockSize = n % B /\ s.bytesInMacBlock = n % B
      /\ CtrCrypt(s.keystreamBlock, n % B, s.counter, src, BlockSize, GcmSpace) = ctr
  BY DEF ctr
<1>10. GcmHas(G, text \o m) /\ GcmSame(s, G)
  <2> HIDE DEF m
  <2> QED BY <1>8, GcmAddsHas, Zenon
<1>11. GcmHas(with, text) /\ with.cbAuthData = s.cbAuthData
  <2>1. /\ DOMAIN with = DOMAIN s /\ with.ghash = s.ghash /\ with.macBlock = s.macBlock
        /\ with.bytesInMacBlock = s.bytesInMacBlock /\ with.cbAuthData = s.cbAuthData
    BY <1>3 DEF GcmFields
  <2> HIDE DEF with
  <2> QED BY <1>3, <2>1, GcmFieldsAre DEF GcmHas
<1>12. GcmHas(GcmAddMacData(with, m), text \o m) /\ GcmSame(with, GcmAddMacData(with, m))
  <2> HIDE DEF m, with
  <2> QED BY <1>8, <1>11, GcmAddsHas, Zenon
<1>13. with.cbData = n + k /\ with.counter = ctr.counter /\ with.keystreamBlock = ctr.keystream
  BY <1>3 DEF GcmFields
<1>14. CASE d = "encrypt" /\ ~onePass
  <2>1. m = dst
    BY <1>14 DEF MacInput
  <2>2. GcmEncryptDecryptPart(s, src).st = with /\ GcmEncryptDecryptPart(s, src).dst = dst
    BY <1>2, <1>5, <1>9 DEF GcmEncryptDecryptPart
  <2>3. r.st = GcmAddMacData(with, m) /\ r.dst = dst
    BY <1>14, <2>1, <2>2 DEF GcmPartCode, GcmEncryptPartTwoPass
  <2> HIDE DEF r, with
  <2>4. m = MacInput(r.dst, src, d)
    BY <2>3
  <2> HIDE DEF m
  <2>5. /\ r.st.cbData = n + k /\ r.st.cbAuthData = s.cbAuthData
        /\ r.st.counter = ctr.counter /\ r.st.keystreamBlock = ctr.keystream
    BY <1>11, <1>12, <1>13, <2>3 DEF GcmSame
  <2>6. GcmHas(r.st, text \o MacInput(r.dst, src, d))
    BY <1>12, <2>3, <2>4
  <2>11. CtrLaw(r.st.keystreamBlock, r.st.counter, start, n + k, B, S) /\ r.dst = dst
    BY <1>5, <2>3, <2>5, <2>6
  <2>12. GcmPartRight(r, s.cbAuthData, src, start, n, k, text, d)
    BY <1>5, <2>3, <2>5, <2>6, <2>11, Zenon DEF GcmPartRight, dst
  <2> QED BY <2>12 DEF r
<1>15. CASE d # "encrypt" /\ ~onePass
  <2>1. m = src
    BY <1>15 DEF MacInput
  <2>2. G.cbData = n /\ G.keystreamBlock = s.keystreamBlock /\ G.counter = s.counter /\ G.cbAuthData = s.cbAuthData
    <3> HIDE DEF G
    <3> QED BY <1>10 DEF GcmSame
  <2>3. r = GcmEncryptDecryptPart(G, src)
    BY <1>15, <2>1 DEF GcmPartCode, GcmDecryptPartTwoPass
  <2>4. DOMAIN G = GcmFields
    BY <1>10, GcmFieldsAre, Zenon DEF GcmHas
  <2> HIDE DEF G, m
  <2>5. r.dst = dst /\ r.st = [G EXCEPT !.cbData = @ + Len(src), !.counter = ctr.counter, !.keystreamBlock = ctr.keystream]
    <3>1. CtrCrypt(G.keystreamBlock, G.cbData % BlockSize, G.counter, src, BlockSize, GcmSpace) = ctr
      BY <1>9, <2>2
    <3> HIDE DEF r
    <3> QED BY <1>5, <2>3, <3>1 DEF GcmEncryptDecryptPart
  <2>6. /\ r.st.cbData = n + k /\ r.st.counter = ctr.counter /\ r.st.keystreamBlock = ctr.keystream
        /\ DOMAIN r.st = DOMAIN G /\ r.st.ghash = G.ghash /\ r.st.macBlock = G.macBlock
        /\ r.st.bytesInMacBlock = G.bytesInMacBlock /\ r.st.cbAuthData = G.cbAuthData
    BY <1>2, <2>2, <2>4, <2>5 DEF GcmFields
  <2> HIDE DEF r
  <2>7. GcmHas(r.st, text \o m)
    BY <1>10, <2>6 DEF GcmHas
  <2>8. m = MacInput(r.dst, src, d)
    BY <1>15, <2>1 DEF MacInput
  <2>9. GcmHas(r.st, text \o MacInput(r.dst, src, d))
    BY <2>7, <2>8
  <2>10. r.st.cbAuthData = s.cbAuthData
    BY <2>2, <2>6
  <2>11. CtrLaw(r.st.keystreamBlock, r.st.counter, start, n + k, B, S) /\ r.dst = dst
    BY <1>5, <2>5, <2>6, <2>9, <2>10
  <2>12. GcmPartRight(r, s.cbAuthData, src, start, n, k, text, d)
    BY <1>5, <2>5, <2>6, <2>9, <2>10, <2>11, Zenon DEF GcmPartRight, dst
  <2> QED BY <2>12 DEF r
<1>16. CASE onePass
  <2>1. r = OnePassResult(s, ctr, m)
    <3>1. OnePassCtr(s, src) = ctr
      BY <1>9 DEF OnePassCtr
    <3>2. r = IF d = "encrypt" THEN AesGcmEncryptPartOnePass(s, src) ELSE AesGcmDecryptPartOnePass(s, src)
      BY <1>16 DEF GcmPartCode
    <3>3. AesGcmEncryptPartOnePass(s, src) = OnePassResult(s, ctr, ctr.dst)
      BY <3>1 DEF AesGcmEncryptPartOnePass
    <3>4. AesGcmDecryptPartOnePass(s, src) = OnePassResult(s, ctr, src)
      BY <3>1 DEF AesGcmDecryptPartOnePass
    <3> HIDE DEF r
    <3> QED BY <1>5, <3>2, <3>3, <3>4 DEF MacInput
  <2>2. Len(m) = k
    <3> HIDE DEF m
    <3> QED BY <1>8, TextLen, Zenon
  <2>3. G.cbData = n /\ G.cbAuthData = s.cbAuthData /\ DOMAIN G = GcmFields
    <3> HIDE DEF G
    <3> QED BY <1>10, GcmFieldsAre DEF GcmSame, GcmHas
  <2>4. /\ r.dst = ctr.dst
        /\ r.st = [G EXCEPT !.cbData = @ + Len(m), !.counter = ctr.counter, !.keystreamBlock = ctr.keystream]
    BY <2>1 DEF OnePassResult
  <2> HIDE DEF r, G, m
  <2>5. /\ r.st.cbData = n + k /\ r.st.counter = ctr.counter /\ r.st.keystreamBlock = ctr.keystream
        /\ DOMAIN r.st = DOMAIN G /\ r.st.ghash = G.ghash /\ r.st.macBlock = G.macBlock
        /\ r.st.bytesInMacBlock = G.bytesInMacBlock /\ r.st.cbAuthData = G.cbAuthData
    BY <2>2, <2>3, <2>4 DEF GcmFields
  <2>6. GcmHas(r.st, text \o m)
    BY <1>10, <2>5 DEF GcmHas
  <2>7. m = MacInput(r.dst, src, d)
    BY <1>5, <2>4 DEF m
  <2>8. GcmHas(r.st, text \o MacInput(r.dst, src, d))
    BY <2>6, <2>7
  <2>9. r.st.cbAuthData = s.cbAuthData
    BY <2>3, <2>5
  <2>11. CtrLaw(r.st.keystreamBlock, r.st.counter, start, n + k, B, S) /\ r.dst = dst
    BY <1>5, <2>4, <2>5, <2>8, <2>9
  <2>12. GcmPartRight(r, s.cbAuthData, src, start, n, k, text, d)
    BY <1>5, <2>4, <2>5, <2>8, <2>9, <2>11, Zenon DEF GcmPartRight, dst
  <2> QED BY <2>12 DEF r
<1> QED BY <1>14, <1>15, <1>16

(* The texts a message is made of.                                         *)
LEMMA MessageTexts ==
  ASSUME NEW a \in Nat, NEW b \in Nat, a <= b
  PROVE  /\ Text(AuthBytes(a, b), b - a) /\ \A i \in 1 .. b - a : AuthBytes(a, b)[i] = Atom("auth", a + i, 0)
         /\ Text(DataBytes(a, b), b - a) /\ \A i \in 1 .. b - a : DataBytes(a, b)[i] = Atom("data", a + i, 0)
<1>1. b - a \in Nat
  OBVIOUS
<1> QED BY <1>1 DEF AuthBytes, DataBytes, Text

(* One part of the caller's bytes behind another.                          *)
LEMMA MessageJoins ==
  ASSUME NEW a \in Nat, NEW b \in Nat, NEW c \in Nat, a <= b, b <= c
  PROVE  /\ AuthBytes(a, b) \o AuthBytes(b, c) = AuthBytes(a, c)
         /\ DataBytes(a, b) \o DataBytes(b, c) = DataBytes(a, c)
<1>1. b - a \in Nat /\ c - b \in Nat /\ c - a = (b - a) + (c - b) /\ a <= c
  OBVIOUS
<1>2. ASSUME NEW x, NEW y, NEW z, NEW kind,
             Text(x, b - a), Text(y, c - b), Text(z, c - a),
             \A i \in 1 .. b - a : x[i] = Atom(kind, a + i, 0),
             \A i \in 1 .. c - b : y[i] = Atom(kind, b + i, 0),
             \A i \in 1 .. c - a : z[i] = Atom(kind, a + i, 0)
      PROVE  x \o y = z
  <2> DEFINE m == b - a
             k == c - b
  <2>1. TextJoined(x, y, m, k)
    BY <1>2, TextJoin, Zenon
  <2>2. /\ Text(x \o y, m + k) /\ \A i \in 1 .. m : (x \o y)[i] = x[i]
        /\ \A i \in 1 .. k : (x \o y)[m + i] = y[i]
    BY <2>1, Zenon DEF TextJoined
  <2>3. ASSUME NEW i \in 1 .. c - a PROVE (x \o y)[i] = z[i]
    <3>1. CASE i <= m
      <4>1. i \in 1 .. m
        BY <3>1
      <4> QED BY <1>2, <2>2, <4>1
    <3>2. CASE ~(i <= m)
      <4>1. i - m \in 1 .. k /\ m + (i - m) = i /\ b + (i - m) = a + i
        BY <3>2
      <4>2. (x \o y)[m + (i - m)] = y[i - m] /\ y[i - m] = Atom(kind, b + (i - m), 0) /\ z[i] = Atom(kind, a + i, 0)
        BY <1>2, <2>2, <4>1, Zenon
      <4> QED BY <4>1, <4>2
    <3> QED BY <3>1, <3>2
  <2>4. Text(x \o y, c - a)
    BY <1>1, <2>2
  <2> QED BY <1>2, <2>3, <2>4, TextSame, Zenon
<1>3. AuthBytes(a, b) \o AuthBytes(b, c) = AuthBytes(a, c)
  <2> DEFINE x == AuthBytes(a, b)
             y == AuthBytes(b, c)
             z == AuthBytes(a, c)
  <2>1. /\ Text(x, b - a) /\ Text(y, c - b) /\ Text(z, c - a)
        /\ \A i \in 1 .. b - a : x[i] = Atom("auth", a + i, 0)
        /\ \A i \in 1 .. c - b : y[i] = Atom("auth", b + i, 0)
        /\ \A i \in 1 .. c - a : z[i] = Atom("auth", a + i, 0)
    BY <1>1, MessageTexts, Zenon
  <2> HIDE DEF x, y, z
  <2>2. x \o y = z
    BY <1>2, <2>1, Zenon
  <2> QED BY <2>2 DEF x, y, z
<1>4. DataBytes(a, b) \o DataBytes(b, c) = DataBytes(a, c)
  <2> DEFINE x == DataBytes(a, b)
             y == DataBytes(b, c)
             z == DataBytes(a, c)
  <2>1. /\ Text(x, b - a) /\ Text(y, c - b) /\ Text(z, c - a)
        /\ \A i \in 1 .. b - a : x[i] = Atom("data", a + i, 0)
        /\ \A i \in 1 .. c - b : y[i] = Atom("data", b + i, 0)
        /\ \A i \in 1 .. c - a : z[i] = Atom("data", a + i, 0)
    BY <1>1, MessageTexts, Zenon
  <2> HIDE DEF x, y, z
  <2>2. x \o y = z
    BY <1>2, <2>1, Zenon
  <2> QED BY <2>2 DEF x, y, z
<1> QED BY <1>3, <1>4

(* The output so far and what a part adds to it, when the key bytes of the *)
(* standard are those of a counter mode stream from byte at on.            *)
Calls == [nonce : Nonces, from : Nat, auth : Nat, data : Nat]

StreamIsKey(a, c, n, start, at, B, S) ==
  \A i \in 1 .. n : KeyByte(a, c, i) = StreamByte(start, at + i, B, S)

OutGrown(a, c, k, dst) == ReferenceOut(a, c) \o dst = ReferenceOut(a, [c EXCEPT !.data = @ + k])

LEMMA OutGrows ==
  ASSUME NEW a, NEW c \in Calls, NEW k \in Nat, NEW start, NEW at \in Nat, NEW B, NEW S,
         StreamIsKey(a, c, c.data + k, start, at, B, S)
  PROVE  OutGrown(a, c, k, Enc(DataBytes(c.data, c.data + k), 0, k, start, at + c.data, B, S))
<1> DEFINE n == c.data
           c2 == [c EXCEPT !.data = @ + k]
           src == DataBytes(n, n + k)
           dst == Enc(src, 0, k, start, at + n, B, S)
           x == ReferenceOut(a, c)
           z == ReferenceOut(a, c2)
<1>1. n \in Nat /\ n + k \in Nat /\ n <= n + k /\ (n + k) - n = k /\ 0 \in Nat /\ 0 + k <= k /\ at + n \in Nat
  BY DEF Calls
<1>2. c2.data = n + k /\ c2.nonce = c.nonce /\ c2.from = c.from
  BY DEF Calls
<1>3. \A i : KeyByte(a, c2, i) = KeyByte(a, c, i)
  <2> HIDE DEF c2
  <2> QED BY <1>2, Zenon DEF KeyByte
<1>4. Text(x, n) /\ \A i \in 1 .. n : x[i] = XorByte(Atom("data", i, 0), KeyByte(a, c, i))
  BY <1>1 DEF ReferenceOut, Text
<1>5. Text(z, n + k) /\ \A i \in 1 .. n + k : z[i] = XorByte(Atom("data", i, 0), KeyByte(a, c, i))
  <2>1. z = [i \in 1 .. n + k |-> XorByte(Atom("data", i, 0), KeyByte(a, c2, i))]
    BY <1>2, Zenon DEF ReferenceOut
  <2> HIDE DEF z, c2
  <2> QED BY <1>1, <1>3, <2>1 DEF Text
<1>6. Text(src, k) /\ \A i \in 1 .. k : src[i] = Atom("data", n + i, 0)
  <2> HIDE DEF n
  <2>1. Text(src, (n + k) - n) /\ \A i \in 1 .. (n + k) - n : src[i] = Atom("data", n + i, 0)
    BY <1>1, MessageTexts, Zenon
  <2> HIDE DEF src
  <2> QED BY <1>1, <2>1
<1> HIDE DEF src
<1>7. EncBytes(src, 0, k, start, at + n, B, S)
  BY <1>1, <1>6, EncIs, Zenon
<1>8. /\ Text(dst, k)
      /\ \A i \in 1 .. k : dst[i] = XorByte(src[0 + i], StreamByte(start, (at + n) + 0 + i, B, S))
  BY <1>7, Zenon DEF EncBytes
<1> HIDE DEF n, dst, x, z, c2
<1>9. /\ Text(x \o dst, n + k) /\ \A i \in 1 .. n : (x \o dst)[i] = x[i]
      /\ \A i \in 1 .. k : (x \o dst)[n + i] = dst[i]
  <2>1. TextJoined(x, dst, n, k)
    BY <1>4, <1>8, TextJoin, Zenon
  <2> QED BY <2>1, Zenon DEF TextJoined
<1>10. ASSUME NEW i \in 1 .. n + k PROVE (x \o dst)[i] = z[i]
  <2>1. CASE i <= n
    <3>1. i \in 1 .. n
      BY <1>1, <2>1
    <3> QED BY <1>4, <1>5, <1>9, <3>1
  <2>2. CASE ~(i <= n)
    <3> DEFINE j == i - n
    <3>1. j \in 1 .. k /\ n + j = i /\ 0 + j = j /\ (at + n) + 0 + j = at + i
      BY <1>1, <2>2
    <3> HIDE DEF j
    <3>2. (x \o dst)[n + j] = dst[j] /\ src[j] = Atom("data", n + j, 0)
      BY <1>6, <1>9, <3>1, Zenon
    <3>3. dst[j] = XorByte(src[0 + j], StreamByte(start, (at + n) + 0 + j, B, S))
      BY <1>8, <3>1, Zenon
    <3>4. KeyByte(a, c, i) = StreamByte(start, at + i, B, S)
      BY DEF StreamIsKey, n
    <3>5. z[i] = XorByte(Atom("data", i, 0), KeyByte(a, c, i))
      BY <1>5
    <3> QED BY <3>1, <3>2, <3>3, <3>4, <3>5
  <2> QED BY <2>1, <2>2
<1>11. x \o dst = z
  BY <1>5, <1>9, <1>10, TextSame, Zenon
<1> QED BY <1>11 DEF x, dst, z, c2, n, src, OutGrown

(* A counter below the top of its nonce's range.                           *)
LEMMA InRange ==
  ASSUME NEW C \in Nat, NEW N \in Nat, NEW x \in 0 .. N - 1, NEW y \in 0 .. C
  PROVE  x * C + y \in Nat /\ x * C + y <= C * N /\ (y < C => x * C + y < C * N) /\ x * C \in Nat
<1>1. x + 1 <= N /\ x \in Nat /\ N - (x + 1) \in Nat /\ y \in Nat
  OBVIOUS
<1>2. C * (N - (x + 1)) \in Nat
  BY <1>1
<1>3. C * N = C * (N - (x + 1)) + x * C + C
  BY <1>1
<1>4. x * C \in Nat /\ C * N \in Nat
  BY <1>1
<1> QED BY <1>1, <1>2, <1>3, <1>4

(* The blocks of a GCM message of legal size leave the counter in the      *)
(* range of its nonce, or on its end.                                      *)
LEMMA GcmBlocks ==
  ASSUME NEW n \in Nat, n <= GcmMaxDataSize
  PROVE  /\ Begun(n, BlockSize) \in 0 .. CounterRange - 2
         /\ \A i \in 1 .. n : (i - 1) \div BlockSize \in 0 .. CounterRange - 3
<1> DEFINE B == BlockSize
           C == CounterRange
           Q == n \div B
           u == n % B
<1>1. B \in Nat \ {0} /\ C \in Nat /\ C >= 3 /\ n <= B * (C - 2) /\ C - 2 \in Nat
  BY GcmAssumption DEF GcmMaxDataSize
<1> HIDE DEF B, C
<1>2. Q \in Nat /\ u \in 0 .. B - 1 /\ n = Q * B + u
  BY <1>1, Division, Zenon
<1>3. BegunTo(n, B, Q, u)
  BY <1>1, <1>2, BegunIs, Zenon
<1>4. Begun(n, B) = IF u = 0 THEN Q ELSE Q + 1
  BY <1>3, Zenon DEF BegunTo
<1> HIDE DEF Q, u
<1>5. \A p \in Nat, r \in Nat : p * B + r <= B * (C - 2) => p <= C - 2 /\ (r # 0 => p < C - 2)
  <2> SUFFICES ASSUME NEW p \in Nat, NEW r \in Nat, p * B + r <= B * (C - 2), ~(p <= C - 2 /\ (r # 0 => p < C - 2))
               PROVE  FALSE
    OBVIOUS
  <2>1. CASE p > C - 2
    <3> DEFINE e == p - (C - 2) - 1
    <3>1. e \in Nat /\ p = (C - 2) + 1 + e
      BY <1>1, <2>1
    <3> HIDE DEF e
    <3>2. p * B = B * (C - 2) + B + e * B
      BY <1>1, <3>1
    <3>3. e * B \in Nat /\ B * (C - 2) \in Nat /\ p * B \in Nat
      BY <1>1, <3>1
    <3> QED BY <1>1, <3>2, <3>3
  <2>2. CASE p = C - 2 /\ r # 0
    <3>1. p * B = B * (C - 2) /\ p * B \in Nat
      BY <1>1, <2>2
    <3> QED BY <2>2, <3>1
  <2> QED BY <1>1, <2>1, <2>2
<1>6. Begun(n, B) \in 0 .. C - 2
  <2>1. Q <= C - 2 /\ (u # 0 => Q < C - 2)
    BY <1>1, <1>2, <1>5
  <2> QED BY <1>1, <1>2, <1>4, <2>1
<1>7. ASSUME NEW i \in 1 .. n PROVE (i - 1) \div B \in 0 .. C - 3
  <2> DEFINE p == (i - 1) \div B
             r == (i - 1) % B
  <2>1. i - 1 \in Nat
    OBVIOUS
  <2>2. p \in Nat /\ r \in 0 .. B - 1 /\ i - 1 = p * B + r
    BY <1>1, <2>1, Division, Zenon
  <2> HIDE DEF p, r
  <2>3. p * B + (r + 1) <= B * (C - 2) /\ r + 1 \in Nat /\ r + 1 # 0
    <3>1. p * B \in Nat /\ B * (C - 2) \in Nat
      BY <1>1, <2>2
    <3> QED BY <1>1, <2>2, <3>1
  <2>4. p < C - 2
    BY <1>5, <2>2, <2>3
  <2>5. p \in 0 .. C - 3
    BY <1>1, <2>2, <2>4
  <2> QED BY <2>5 DEF p
<1> QED BY <1>6, <1>7 DEF B, C

(* The key bytes of GCM are those of its counter mode.                     *)
LEMMA GcmStreamIsKey ==
  ASSUME NEW c \in Calls, NEW n \in Nat, n <= GcmMaxDataSize
  PROVE  StreamIsKey("gcm", c, n, FirstCounter(c.nonce), 0, BlockSize, GcmSpace)
<1> DEFINE B == BlockSize
           C == CounterRange
           x == c.nonce
<1>1. B \in Nat \ {0} /\ C \in Nat /\ C >= 3 /\ NonceRange \in Nat \ {0} /\ x \in 0 .. NonceRange - 1
  BY GcmAssumption DEF Calls, Nonces
<1>2. ASSUME NEW i \in 1 .. n PROVE KeyByte("gcm", c, i) = StreamByte(FirstCounter(x), 0 + i, B, GcmSpace)
  <2> DEFINE q == (i - 1) \div B
  <2>1. q \in 0 .. C - 3
    BY GcmBlocks, Zenon
  <2>2. KeyByte("gcm", c, i) = Atom("key", x * C + ((2 + q) % C), 1 + ((i - 1) % B))
    BY DEF KeyByte, GcmKeyByte
  <2>3. 0 + i = i
    OBVIOUS
  <2>4. StreamByte(FirstCounter(x), 0 + i, B, GcmSpace)
          = Atom("key", (x * C + 2 + q) % (C * NonceRange), 1 + ((i - 1) % B))
    BY <2>3 DEF StreamByte, FirstCounter, GcmSpace
  <2> HIDE DEF q, B, C, x
  <2>5. (2 + q) % C = 2 + q /\ 2 + q \in 0 .. C /\ 2 + q < C /\ q \in Nat
    BY <1>1, <2>1
  <2>6. /\ x * C + (2 + q) \in Nat /\ (2 + q < C => x * C + (2 + q) < C * NonceRange) /\ x * C \in Nat
    BY <1>1, <2>5, InRange
  <2>7. x * C + 2 + q = x * C + (2 + q)
    BY <2>5, <2>6
  <2>8. C * NonceRange \in Nat
    BY <1>1
  <2>9. (x * C + (2 + q)) % (C * NonceRange) = x * C + (2 + q)
    <3> DEFINE v == x * C + (2 + q)
               M == C * NonceRange
    <3>1. v \in Nat /\ M \in Nat /\ v < M
      BY <2>5, <2>6, <2>8
    <3> HIDE DEF v, M
    <3>2. v % M = v
      BY <3>1
    <3> QED BY <3>2 DEF v, M
  <2> QED BY <2>2, <2>4, <2>5, <2>7, <2>9
<1> QED BY <1>2 DEF StreamIsKey

(* Subtracting 1 undoes the carry of the longest message.                  *)
LEMMA TagCounterRight ==
  ASSUME NEW x \in Nonces, NEW n \in Nat, n <= GcmMaxDataSize
  PROVE  TagCounter((FirstCounter(x) + Begun(n, BlockSize)) % GcmSpace) = x * CounterRange + 1
<1> DEFINE C == CounterRange
           b == Begun(n, BlockSize)
           M == GcmSpace
           v == x * C + (b + 2)
           w == x * C + (b + 1)
<1>1. C \in Nat \ {0} /\ C >= 3 /\ NonceRange \in Nat \ {0} /\ x \in 0 .. NonceRange - 1 /\ x \in Nat
  BY GcmAssumption DEF Nonces
<1>2. b \in 0 .. C - 2
  BY GcmBlocks, Zenon
<1>3. M = C * NonceRange /\ M \in Nat \ {0}
  BY <1>1 DEF GcmSpace
<1>4. FirstCounter(x) + b = v
  <2>1. x * C \in Nat
    BY <1>1
  <2> HIDE DEF b
  <2> QED BY <1>2, <2>1 DEF FirstCounter
<1>5. TagCounter(v % M) = ((((v % M) - 1) % M) \div C) * C + 1
  BY DEF TagCounter
<1> HIDE DEF C, b, M
<1>6. b + 1 \in 0 .. C - 1 /\ b + 2 \in 0 .. C /\ b + 1 \in 0 .. C /\ b + 1 < C
  BY <1>1, <1>2
<1>7. v \in Nat /\ v <= C * NonceRange /\ x * C \in Nat
  BY <1>1, <1>6, InRange
<1>8. w \in Nat /\ w < C * NonceRange
  BY <1>1, <1>6, InRange
<1>9. v - 1 = w /\ w + 1 = v
  BY <1>2, <1>7
<1>10. w \div C = x
  <2>1. DividesTo(w, C, x, b + 1)
    BY <1>1, <1>6, <1>8, DivisionNamed, Zenon
  <2> QED BY <2>1, Zenon DEF DividesTo
<1> HIDE DEF v, w
<1>11. ((v % M) - 1) % M = w
  <2>1. CASE v < M
    <3>1. v % M = v
      BY <1>3, <1>7, <2>1
    <3>2. w % M = w
      BY <1>3, <1>8
    <3> QED BY <1>9, <3>1, <3>2
  <2>2. CASE v = M
    <3>1. v % M = 0
      BY <1>3, <2>2
    <3>2. (0 - 1) % M = M - 1
      BY <1>3
    <3> QED BY <1>9, <2>2, <3>1, <3>2
  <2> QED BY <1>3, <1>7, <2>1, <2>2
<1> QED BY <1>4, <1>5, <1>10, <1>11 DEF C, b, M

(* The text GHASH has taken: all of the associated data, padded, and the   *)
(* ciphertext; or associated data only, before the first data.             *)
GcmTaken(text, au, ci, n) ==
  \/ text = PadToBlock(au, BlockSize) \o ci
  \/ text = au /\ n = 0

(* The tag of a state that has taken all of a message.                     *)
GcmTagged(s, x, au, ci) == GcmTagUnder(s, x * CounterRange + 1) = GcmReferenceTag(x, au, ci)

LEMMA GcmTagRight ==
  ASSUME NEW s, NEW text, GcmHas(s, text), NEW x \in Nonces,
         NEW au, NEW ci, Text(au, s.cbAuthData), Text(ci, s.cbData),
         GcmTaken(text, au, ci, s.cbData)
  PROVE  GcmTagged(s, x, au, ci)
<1> DEFINE B == BlockSize
           m == x * CounterRange + 1
           p == PadToBlock(au, B)
           L == LengthBlock(s.cbAuthData, s.cbData)
<1>1. B \in Nat \ {0} /\ GcmSpace \in Nat \ {0} /\ CounterRange >= 3 /\ CounterRange \in Nat
      /\ x \in 0 .. NonceRange - 1 /\ NonceRange \in Nat /\ 1 \in 0 .. CounterRange /\ 1 < CounterRange
  BY GcmAssumption DEF GcmSpace, Nonces
<1>2. m \in Nat /\ m % GcmSpace = m
  <2>1. m \in Nat /\ m < CounterRange * NonceRange
    BY <1>1, InRange
  <2> HIDE DEF m
  <2> QED BY <1>1, <2>1 DEF GcmSpace
<1>3. CtrMsb64(m, Zeroes(B), B, GcmSpace).dst = KeyBlock(m, B)
  <2> HIDE DEF m, B
  <2>1. CtrMsb64(m, Zeroes(B), B, GcmSpace).dst = KeyBlock(m % GcmSpace, B)
    BY <1>1, <1>2, CtrOfZeroes, Zenon
  <2> QED BY <1>2, <2>1
<1>4. MacLaw(s.ghash, s.macBlock, s.bytesInMacBlock, text, B)
  BY DEF GcmHas
<1>5. s.ghash \o PadToBlock(Slice(s.macBlock, 0, s.bytesInMacBlock), B) = PadToBlock(text, B)
  <2>1. MacEnds(s.ghash, s.macBlock, s.bytesInMacBlock, text, B)
    BY <1>1, <1>4, MacPadded, Zenon
  <2> QED BY <2>1, Zenon DEF MacEnds
<1>6. Len(au) = s.cbAuthData /\ Len(ci) = s.cbData /\ s.cbAuthData \in Nat
  BY TextLen, Zenon
<1>7. GcmTagUnder(s, m) = Tag(PadToBlock(text, B) \o L, KeyBlock(m, B))
  BY <1>3, <1>5 DEF GcmTagUnder
<1>8. GcmReferenceTag(x, au, ci) = Tag((p \o PadToBlock(ci, B)) \o L, KeyBlock(m, B))
  BY <1>6 DEF GcmReferenceTag
<1> HIDE DEF B
<1>9. PadToBlock(text, B) = p \o PadToBlock(ci, B)
  <2> DEFINE z == s.cbAuthData + PadZ(s.cbAuthData, B)
  <2>1. Text(p, z)
    BY <1>1, PadIs, Zenon
  <2>2. z % B = 0
    BY <1>1, <1>6, PadSize, Zenon
  <2> HIDE DEF z, p
  <2>3. CASE text = p \o ci
    BY <1>1, <2>1, <2>2, <2>3, PadBehind, Zenon
  <2>4. CASE text = au /\ s.cbData = 0
    <3>1. ci = <<>>
      BY <2>4, TextEmpty, Zenon
    <3>2. Text(<<>>, 0) /\ 0 % B = 0
      BY <1>1, TextEmpty
    <3>3. PadToBlock(<<>>, B) = <<>>
      BY <1>1, <3>2, PadWhole, Zenon
    <3>4. p \o <<>> = p
      BY <2>1, TextAndEmpty, Zenon
    <3> QED BY <2>4, <3>1, <3>3, <3>4 DEF p
  <2> QED BY <2>3, <2>4 DEF p, B, GcmTaken
<1> QED BY <1>7, <1>8, <1>9 DEF GcmTagged

(* Counter mode at its start.                                              *)
LEMMA CtrStarts ==
  ASSUME NEW B \in Nat \ {0}, NEW S \in Nat, NEW start \in Nat, start < S, NEW ks, Text(ks, B)
  PROVE  CtrLaw(ks, start, start, 0, B, S)
<1>1. 0 \in Nat /\ 0 \in 0 .. B - 1 /\ 0 = 0 * B + 0
  OBVIOUS
<1>2. BegunTo(0, B, 0, 0) /\ DividesTo(0, B, 0, 0)
  BY <1>1, BegunIs, DivisionNamed, Zenon
<1>3. Begun(0, B) = 0 /\ 0 % B = 0
  BY <1>2, Zenon DEF BegunTo, DividesTo
<1>4. (start + 0) % S = start
  <2>1. start + 0 = start
    OBVIOUS
  <2>2. start % S = start
    OBVIOUS
  <2> QED BY <2>1, <2>2
<1> QED BY <1>3, <1>4 DEF CtrLaw

(* SymCryptGcmEncryptPart, SymCryptGcmDecryptPart.                         *)
LEMMA GcmPartStateRight ==
  ASSUME NEW s, NEW text, GcmHas(s, text), NEW start \in Nat, NEW n \in Nat, s.cbData = n,
         CtrLaw(s.keystreamBlock, s.counter, start, n, BlockSize, GcmSpace),
         NEW au, NEW A, Text(au, A), NEW ci, Text(ci, n), GcmTaken(text, au, ci, n),
         NEW src, NEW k, Text(src, k), NEW d, NEW onePass \in BOOLEAN
  PROVE  GcmPartRight(GcmPartState(s, src, d, onePass), s.cbAuthData, src, start, n, k,
                      PadToBlock(au, BlockSize) \o ci, d)
<1> DEFINE B == BlockSize
           p == PadToBlock(au, B)
           z == A + PadZ(A, B)
           t == GcmPadMacData(s)
<1>1. B \in Nat \ {0}
  BY GcmAssumption
<1>2. Text(p, z) /\ z \in Nat /\ z % B = 0
  <2> HIDE DEF B
  <2>1. A \in Nat
    BY TextLen, Zenon
  <2>2. Text(p, z)
    BY <1>1, PadIs, Zenon
  <2>3. z \in Nat /\ z % B = 0
    BY <1>1, <2>1, PadSize, Zenon
  <2> QED BY <2>2, <2>3
<1>3. text = p \o ci \/ (text = au /\ n = 0)
  BY DEF GcmTaken
<1>4. CASE n = 0
  <2>1. GcmHas(t, PadToBlock(text, B)) /\ GcmSame(s, t) /\ t.bytesInMacBlock = 0
    BY GcmPadsHas, Zenon
  <2>2. ci = <<>>
    BY <1>4, TextEmpty, Zenon
  <2> HIDE DEF p, t, z
  <2>3. p \o <<>> = p
    BY <1>2, TextAndEmpty, Zenon
  <2>4. PadToBlock(text, B) = p \o ci
    <3>1. CASE text = au
      BY <2>2, <2>3, <3>1 DEF p
    <3>2. CASE text = p \o ci
      <4>1. text = p
        BY <2>2, <2>3, <3>2
      <4>2. PadToBlock(p, B) = p
        BY <1>1, <1>2, PadWhole, Zenon
      <4> QED BY <2>2, <2>3, <4>1, <4>2
    <3> QED BY <1>3, <3>1, <3>2
  <2>5. /\ t.cbData = n /\ t.cbAuthData = s.cbAuthData
        /\ CtrLaw(t.keystreamBlock, t.counter, start, n, BlockSize, GcmSpace)
    BY <2>1 DEF GcmSame
  <2>6. t.bytesInMacBlock = n % BlockSize
    BY <1>1, <1>4, <2>1
  <2>7. GcmHas(t, p \o ci)
    BY <2>1, <2>4
  <2>8. GcmPartRight(GcmPartCode(t, src, d, onePass), t.cbAuthData, src, start, n, k, p \o ci, d)
    BY <2>5, <2>6, <2>7, GcmPartCodeRight, Zenon
  <2>9. GcmPartState(s, src, d, onePass) = GcmPartCode(t, src, d, onePass)
    BY <1>4, Zenon DEF GcmPartState, t
  <2> QED BY <2>5, <2>8, <2>9 DEF p, B
<1>5. CASE n # 0
  <2>1. text = p \o ci
    BY <1>3, <1>5
  <2> HIDE DEF p, z
  <2>2. Text(text, z + n)
    BY <1>2, <2>1, TextJoin, Zenon DEF TextJoined
  <2>3. s.bytesInMacBlock = (z + n) % B
    <3>1. MacLaw(s.ghash, s.macBlock, s.bytesInMacBlock, text, B)
      BY DEF GcmHas
    <3>2. MacWaits(s.bytesInMacBlock, z + n, B)
      BY <1>1, <2>2, <3>1, MacCount, Zenon
    <3> QED BY <3>2, Zenon DEF MacWaits
  <2>4. (z + n) % B = n % B
    BY <1>1, <1>2, WholeDropped, Zenon
  <2>5. s.bytesInMacBlock = n % BlockSize
    BY <2>3, <2>4
  <2>6. GcmPartRight(GcmPartCode(s, src, d, onePass), s.cbAuthData, src, start, n, k, text, d)
    BY <2>5, GcmPartCodeRight, Zenon
  <2>7. GcmPartState(s, src, d, onePass) = GcmPartCode(s, src, d, onePass)
    BY <1>5, Zenon DEF GcmPartState
  <2> QED BY <2>1, <2>6, <2>7 DEF p
<1> QED BY <1>4, <1>5

(* SymCryptGcmInit: nothing taken, the counter at 2.                       *)
LEMMA FirstCounterIs ==
  ASSUME NEW x \in Nonces
  PROVE  FirstCounter(x) \in Nat /\ FirstCounter(x) < GcmSpace /\ GcmSpace \in Nat
<1>1. CounterRange \in Nat /\ NonceRange \in Nat /\ x \in 0 .. NonceRange - 1
      /\ 2 \in 0 .. CounterRange /\ 2 < CounterRange
  BY GcmAssumption DEF Nonces
<1>2. x * CounterRange + 2 \in Nat /\ x * CounterRange + 2 < CounterRange * NonceRange
  BY <1>1, InRange
<1> QED BY <1>1, <1>2 DEF FirstCounter, GcmSpace

(* SymCryptGcmInit leaves nothing taken, and the counter behind the one    *)
(* kept for the tag.                                                       *)
LEMMA GcmInitRight ==
  ASSUME NEW s, DOMAIN s = DOMAIN GcmWiped, Text(s.macBlock, BlockSize), Text(s.keystreamBlock, BlockSize),
         NEW x \in Nonces
  PROVE  LET t == GcmInitState(s, x)
         IN /\ GcmHas(t, <<>>) /\ t.bytesInMacBlock = 0
            /\ CtrLaw(t.keystreamBlock, t.counter, FirstCounter(x), 0, BlockSize, GcmSpace)
            /\ t.cbData = 0 /\ t.cbAuthData = 0 /\ t.macBlock = s.macBlock
            /\ t.keystreamBlock = s.keystreamBlock /\ DOMAIN t = DOMAIN GcmWiped
<1> DEFINE t == GcmInitState(s, x)
<1>1. BlockSize \in Nat \ {0} /\ 0 % BlockSize = 0
  BY GcmAssumption
<1>2. DOMAIN s = GcmFields
  BY GcmFieldsAre, Zenon
<1>3. /\ t.cbData = 0 /\ t.cbAuthData = 0 /\ t.bytesInMacBlock = 0 /\ t.ghash = <<>>
      /\ t.counter = FirstCounter(x) /\ t.macBlock = s.macBlock /\ t.keystreamBlock = s.keystreamBlock
      /\ DOMAIN t = GcmFields
  BY <1>2 DEF GcmInitState, GcmFields
<1> HIDE DEF t
<1>4. MacLaw(<<>>, s.macBlock, 0, <<>>, BlockSize)
  BY <1>1, TextEmpty, MacNothing, Zenon
<1>5. GcmHas(t, <<>>)
  BY <1>3, <1>4, GcmFieldsAre DEF GcmHas
<1>6. CtrLaw(s.keystreamBlock, FirstCounter(x), FirstCounter(x), 0, BlockSize, GcmSpace)
  BY <1>1, FirstCounterIs, CtrStarts, Zenon
<1> QED BY <1>3, <1>5, <1>6, GcmFieldsAre DEF t

(* Fresh memory is a text.                                                 *)
LEMMA StaleText == ASSUME NEW n \in Nat PROVE Text(StaleBlock(n), n)
  BY DEF StaleBlock, Text

(* The associated data of the one-call functions.                          *)
LEMMA GcmAuthRight ==
  ASSUME NEW x \in Nonces, NEW au, NEW A, Text(au, A)
  PROVE  LET t == GcmAuthOneShot(GcmInitState(GcmUninitialised, x), au)
         IN /\ GcmHas(t, PadToBlock(au, BlockSize)) /\ t.bytesInMacBlock = 0
            /\ CtrLaw(t.keystreamBlock, t.counter, FirstCounter(x), 0, BlockSize, GcmSpace)
            /\ t.cbData = 0 /\ t.cbAuthData = A
<1> DEFINE B == BlockSize
           s == GcmInitState(GcmUninitialised, x)
           t == GcmAuthOneShot(s, au)
           r == A % B
           R == PadToBlock(Slice(au, A - r, r), B)
           u == GcmUninitialised
<1>1. B \in Nat \ {0} /\ B \in Nat
  BY GcmAssumption
<1>2. A \in Nat /\ Len(au) = A
  BY TextLen, Zenon
<1>3. DOMAIN u = DOMAIN GcmWiped /\ Text(u.macBlock, BlockSize) /\ Text(u.keystreamBlock, BlockSize)
  <2>1. u.macBlock = StaleBlock(BlockSize) /\ u.keystreamBlock = StaleBlock(BlockSize)
    BY DEF GcmUninitialised
  <2> QED BY <1>1, <2>1, GcmFieldsAre, StaleText
<1> HIDE DEF u
<1>4. /\ s.bytesInMacBlock = 0
      /\ CtrLaw(s.keystreamBlock, s.counter, FirstCounter(x), 0, BlockSize, GcmSpace)
      /\ s.cbData = 0 /\ s.macBlock = u.macBlock /\ DOMAIN s = DOMAIN GcmWiped
  <2>1. s = GcmInitState(u, x)
    BY DEF u
  <2> QED BY <1>3, <2>1, GcmInitRight
<1> HIDE DEF s
<1>5. /\ t.cbAuthData = A /\ t.ghash = PadToBlock(au, B) /\ t.macBlock = (IF r = 0 THEN s.macBlock ELSE R)
      /\ t.bytesInMacBlock = s.bytesInMacBlock /\ t.keystreamBlock = s.keystreamBlock
      /\ t.counter = s.counter /\ t.cbData = s.cbData /\ DOMAIN t = GcmFields
  <2>1. DOMAIN s = GcmFields
    BY <1>4, GcmFieldsAre
  <2> QED BY <1>2, <2>1 DEF GcmAuthOneShot, GcmFields
<1> HIDE DEF t
<1>6. Text(t.macBlock, B)
  <2>1. CASE r = 0
    BY <1>3, <1>4, <1>5, <2>1
  <2>2. CASE r # 0
    <3>1. r \in 0 .. B - 1
      BY <1>1, <1>2, Division, Zenon
    <3>2. r <= A
      <4>1. A = (A \div B) * B + r /\ A \div B \in Nat
        BY <1>1, <1>2, Division, Zenon
      <4> DEFINE q == A \div B
      <4> HIDE DEF q, r, B
      <4>2. A = q * B + r /\ q \in Nat
        BY <4>1 DEF q
      <4>3. q * B \in Nat
        BY <1>1, <4>2
      <4> QED BY <1>2, <3>1, <4>2, <4>3
    <3>3. A - r \in Nat /\ r \in Nat /\ (A - r) + r <= A
      <4> HIDE DEF r
      <4> QED BY <1>2, <3>1, <3>2
    <3>4. Text(Slice(au, A - r, r), r)
      BY <3>3, TextSlice, Zenon DEF TextSliced
    <3>5. Text(R, r + PadZ(r, B))
      BY <1>1, <3>4, PadIs, Zenon
    <3>6. r + PadZ(r, B) = B
      <4> HIDE DEF r
      <4>1. r % B = r
        BY <1>1, <3>1
      <4>2. r % B # 0 => PadZ(r, B) = B - (r % B)
        BY <1>1, <3>3, PadSize, Zenon
      <4> QED BY <1>1, <2>2, <3>1, <4>1, <4>2
    <3> QED BY <1>5, <2>2, <3>5, <3>6
  <2> QED BY <2>1, <2>2
<1>7. MacLaw(PadToBlock(au, B), t.macBlock, 0, PadToBlock(au, B), B)
  <2> HIDE DEF B
  <2> DEFINE z == A + PadZ(A, B)
  <2>1. Text(PadToBlock(au, B), z)
    BY <1>1, PadIs, Zenon
  <2>2. z % B = 0
    BY <1>1, <1>2, PadSize, Zenon
  <2> HIDE DEF z
  <2> QED BY <1>1, <1>6, <2>1, <2>2, MacNothing, Zenon
<1>8. GcmHas(t, PadToBlock(au, B))
  BY <1>4, <1>5, <1>7, GcmFieldsAre DEF GcmHas
<1> QED BY <1>4, <1>5, <1>8 DEF t, s

(* SymCryptGcmEncrypt and SymCryptGcmDecrypt.                              *)
GcmOneShotIs(r, x, au, src, k, d) ==
  /\ r.dst = Enc(src, 0, k, FirstCounter(x), 0, BlockSize, GcmSpace)
  /\ r.tag = GcmReferenceTag(x, au, MacInput(r.dst, src, d))

LEMMA GcmOneShotRight ==
  ASSUME NEW x \in Nonces, NEW au, NEW A, Text(au, A), NEW src, NEW k, Text(src, k), NEW d,
         NEW onePass \in BOOLEAN
  PROVE  GcmOneShotIs(GcmOneShot(x, au, src, d, onePass), x, au, src, k, d)
<1> DEFINE B == BlockSize
           t == GcmAuthOneShot(GcmInitState(GcmUninitialised, x), au)
           w == GcmPartCode(t, src, d, onePass)
           r == GcmOneShot(x, au, src, d, onePass)
           F == FirstCounter(x)
           m == MacInput(w.dst, src, d)
<1>1. B \in Nat \ {0} /\ 0 % B = 0
  BY GcmAssumption
<1>2. /\ GcmHas(t, PadToBlock(au, B)) /\ t.bytesInMacBlock = 0
      /\ CtrLaw(t.keystreamBlock, t.counter, F, 0, BlockSize, GcmSpace)
      /\ t.cbData = 0 /\ t.cbAuthData = A
  BY GcmAuthRight, Zenon
<1>3. r.dst = w.dst /\ r.tag = GcmTagUnder(w.st, x * CounterRange + 1)
  BY DEF GcmOneShot
<1> HIDE DEF t, r
<1>4. F \in Nat /\ 0 \in Nat /\ t.bytesInMacBlock = 0 % BlockSize
  BY <1>1, <1>2, FirstCounterIs
<1>5. GcmPartRight(w, t.cbAuthData, src, F, 0, k, PadToBlock(au, B), d)
  BY <1>2, <1>4, GcmPartCodeRight, Zenon
<1> HIDE DEF w, F
<1>6. /\ w.dst = Enc(src, 0, k, F, 0, BlockSize, GcmSpace) /\ GcmHas(w.st, PadToBlock(au, B) \o m)
      /\ w.st.cbData = 0 + k /\ w.st.cbAuthData = t.cbAuthData
  BY <1>5, Zenon DEF GcmPartRight
<1>7. k \in Nat /\ 0 + k = k /\ 0 + k <= k
  <2>1. k \in Nat
    BY TextLen, Zenon
  <2> QED BY <2>1
<1>8. Text(m, k)
  <2>1. EncBytes(src, 0, k, F, 0, BlockSize, GcmSpace)
    BY <1>4, <1>7, EncIs, Zenon
  <2>2. Text(w.dst, k)
    BY <1>6, <2>1 DEF EncBytes
  <2> QED BY <2>2 DEF MacInput
<1> HIDE DEF m
<1>9. GcmTagUnder(w.st, x * CounterRange + 1) = GcmReferenceTag(x, au, m)
  <2>1. Text(au, w.st.cbAuthData) /\ Text(m, w.st.cbData)
    BY <1>2, <1>6, <1>7, <1>8
  <2>2. GcmTaken(PadToBlock(au, B) \o m, au, m, w.st.cbData)
    BY DEF GcmTaken
  <2>3. GcmTagged(w.st, x, au, m)
    BY <1>6, <2>1, <2>2, GcmTagRight, Zenon
  <2> QED BY <2>3 DEF GcmTagged
<1>10. GcmOneShotIs(r, x, au, src, k, d)
  BY <1>3, <1>6, <1>9 DEF GcmOneShotIs, m, F
<1> QED BY <1>10 DEF r

-----------------------------------------------------------------------------
(* SymCryptCcmEncryptDecryptPart: counter mode, and the MAC is left alone. *)
CcmFields == {"cbData", "bytesProcessed", "bytesInMacBlock", "counter", "chain", "macBlock", "keystreamBlock"}

LEMMA CcmFieldsAre == DOMAIN CcmWiped = CcmFields
  BY DEF CcmWiped, CcmFields

CcmCrypted(r, s, src, start, n, k, text) ==
  /\ r.dst = Enc(src, 0, k, start, n, BlockSize, CcmSpace)
  /\ CtrLaw(r.st.keystreamBlock, r.st.counter, start, n + k, BlockSize, CcmSpace)
  /\ r.st.bytesProcessed = n + k /\ r.st.cbData = s.cbData
  /\ CcmHas(r.st, text)

(* Whatever the MAC has, encryption does what counter mode does.           *)
LEMMA CcmCrypts ==
  ASSUME NEW s, NEW text, CcmHas(s, text), NEW start \in Nat, NEW n \in Nat, s.bytesProcessed = n,
         CtrLaw(s.keystreamBlock, s.counter, start, n, BlockSize, CcmSpace), NEW src, NEW k, Text(src, k)
  PROVE  CcmCrypted(CcmEncryptDecryptPart(s, src), s, src, start, n, k, text)
<1> DEFINE B == BlockSize
           S == CcmSpace
           ctr == CtrCrypt(s.keystreamBlock, n % B, s.counter, src, B, S)
           r == CcmEncryptDecryptPart(s, src)
<1>1. B \in Nat \ {0} /\ S \in Nat \ {0}
  BY GcmAssumption, CcmAssumption DEF CcmSpace
<1>2. Len(src) = k /\ k \in Nat
  BY TextLen, Zenon
<1>3. DOMAIN s = CcmFields
  BY CcmFieldsAre, Zenon DEF CcmHas
<1>4. CtrLaw(s.keystreamBlock, s.counter, start, n, B, S)
  OBVIOUS
<1>5. ctr.dst = Enc(src, 0, k, start, n, B, S) /\ CtrLaw(ctr.keystream, ctr.counter, start, n + k, B, S)
  <2> HIDE DEF B, S
  <2>1. CtrRight(ctr, src, start, n, k, B, S)
    BY <1>1, <1>4, CtrCrypts, Zenon
  <2> HIDE DEF ctr
  <2> QED BY <2>1, Zenon DEF CtrRight
<1>6. CtrCrypt(s.keystreamBlock, s.bytesProcessed % BlockSize, s.counter, src, BlockSize, CcmSpace) = ctr
  OBVIOUS
<1> HIDE DEF ctr
<1>7. r.dst = ctr.dst
      /\ r.st = [s EXCEPT !.bytesProcessed = @ + k, !.counter = ctr.counter, !.keystreamBlock = ctr.keystream]
  BY <1>2, <1>6 DEF CcmEncryptDecryptPart
<1> HIDE DEF r
<1>8. /\ r.st.bytesProcessed = n + k /\ r.st.counter = ctr.counter /\ r.st.keystreamBlock = ctr.keystream
      /\ DOMAIN r.st = DOMAIN s /\ r.st.chain = s.chain /\ r.st.macBlock = s.macBlock
      /\ r.st.bytesInMacBlock = s.bytesInMacBlock /\ r.st.cbData = s.cbData
  BY <1>3, <1>7 DEF CcmFields
<1>9. CcmHas(r.st, text)
  BY <1>8 DEF CcmHas
<1>10. CcmCrypted(r, s, src, start, n, k, text)
  BY <1>5, <1>7, <1>8, <1>9 DEF CcmCrypted
<1> QED BY <1>10 DEF r

(* SymCryptCcmEncryptPart, SymCryptCcmDecryptPart: the MAC takes the       *)
(* plaintext, whichever of the two buffers it is in.                       *)
CcmPartRight(r, cb, src, start, n, k, text, d) ==
  /\ r.dst = Enc(src, 0, k, start, n, BlockSize, CcmSpace)
  /\ CcmHas(r.st, text \o MacInput(src, r.dst, d))
  /\ CtrLaw(r.st.keystreamBlock, r.st.counter, start, n + k, BlockSize, CcmSpace)
  /\ r.st.bytesProcessed = n + k /\ r.st.cbData = cb

LEMMA CcmPartStateRight ==
  ASSUME NEW s, NEW text, CcmHas(s, text), NEW start \in Nat, NEW n \in Nat, s.bytesProcessed = n,
         CtrLaw(s.keystreamBlock, s.counter, start, n, BlockSize, CcmSpace),
         NEW src, NEW k, Text(src, k), NEW d
  PROVE  CcmPartRight(CcmPartState(s, src, d), s.cbData, src, start, n, k, text, d)
<1> DEFINE r == CcmPartState(s, src, d)
<1>1. CASE d = "encrypt"
  <2> DEFINE t == CcmAddMacData(s, src)
  <2>1. CcmHas(t, text \o src) /\ CcmSame(s, t)
    BY CcmAddsHas, Zenon
  <2>2. r = CcmEncryptDecryptPart(t, src)
    BY <1>1 DEF CcmPartState
  <2> HIDE DEF t, r
  <2>3. /\ t.bytesProcessed = n /\ t.cbData = s.cbData
        /\ CtrLaw(t.keystreamBlock, t.counter, start, n, BlockSize, CcmSpace)
    BY <2>1 DEF CcmSame
  <2>4. CcmCrypted(CcmEncryptDecryptPart(t, src), t, src, start, n, k, text \o src)
    BY <2>1, <2>3, CcmCrypts, Zenon
  <2>5. MacInput(src, r.dst, d) = src
    BY <1>1 DEF MacInput
  <2>6. CcmPartRight(r, s.cbData, src, start, n, k, text, d)
    BY <2>2, <2>3, <2>4, <2>5 DEF CcmCrypted, CcmPartRight
  <2> QED BY <2>6 DEF r
<1>2. CASE d # "encrypt"
  <2> DEFINE w == CcmEncryptDecryptPart(s, src)
             t == CcmAddMacData(w.st, w.dst)
  <2>1. CcmCrypted(w, s, src, start, n, k, text)
    BY CcmCrypts, Zenon
  <2>2. r.st = t /\ r.dst = w.dst
    BY <1>2 DEF CcmPartState
  <2> HIDE DEF r, w
  <2>3. /\ w.dst = Enc(src, 0, k, start, n, BlockSize, CcmSpace) /\ CcmHas(w.st, text)
        /\ CtrLaw(w.st.keystreamBlock, w.st.counter, start, n + k, BlockSize, CcmSpace)
        /\ w.st.bytesProcessed = n + k /\ w.st.cbData = s.cbData
    BY <2>1, Zenon DEF CcmCrypted
  <2>4. Text(w.dst, k)
    <3>1. k \in Nat
      BY TextLen, Zenon
    <3>2. 0 \in Nat /\ 0 + k <= k
      BY <3>1
    <3>3. EncBytes(src, 0, k, start, n, BlockSize, CcmSpace)
      BY <3>1, <3>2, EncIs, Zenon
    <3> QED BY <2>3, <3>3, Zenon DEF EncBytes
  <2>5. CcmHas(t, text \o w.dst) /\ CcmSame(w.st, t)
    BY <2>3, <2>4, CcmAddsHas, Zenon
  <2> HIDE DEF t
  <2>6. MacInput(src, r.dst, d) = w.dst
    BY <1>2, <2>2 DEF MacInput
  <2>7. /\ t.bytesProcessed = n + k /\ t.cbData = s.cbData
        /\ t.keystreamBlock = w.st.keystreamBlock /\ t.counter = w.st.counter
    BY <2>3, <2>5 DEF CcmSame
  <2>8. CcmPartRight(r, s.cbData, src, start, n, k, text, d)
    BY <2>2, <2>3, <2>5, <2>6, <2>7 DEF CcmPartRight
  <2> QED BY <2>8 DEF r
<1> QED BY <1>1, <1>2

(* The texts in front of the associated data: the first block, and the     *)
(* length in the encoding its size asks for.                               *)
LEMMA CcmStartText ==
  ASSUME NEW x, NEW a, NEW cb
  PROVE  Text(CcmStartBlock(x, a, cb), BlockSize)
<1> DEFINE h == <<Atom("flags", IF a > 0 THEN 1 ELSE 0, 0), Atom("nonce", x, 0), Atom("length", cb, 0)>>
           Z == Zeroes(BlockSize - 3)
<1>1. BlockSize - 3 \in Nat /\ BlockSize \in Nat
  BY GcmAssumption
<1>2. Text(h, 3)
  BY DEF Text
<1>3. Text(Z, BlockSize - 3)
  BY <1>1, TextZeroes, Zenon
<1> HIDE DEF h, Z
<1>4. TextJoined(h, Z, 3, BlockSize - 3)
  BY <1>2, <1>3, TextJoin, Zenon
<1>5. Text(h \o Z, 3 + (BlockSize - 3))
  BY <1>4, Zenon DEF TextJoined
<1>6. 3 + (BlockSize - 3) = BlockSize
  BY <1>1
<1> QED BY <1>5, <1>6 DEF h, Z, CcmStartBlock

(* The encoding of the length of the associated data, in each of its       *)
(* forms, is some bytes.                                                   *)
LEMMA CcmLengthText ==
  ASSUME NEW a
  PROVE  \E n : Text(CcmAuthLength(a), n)
<1>1. ASSUME NEW w \in Nat, NEW p \in Nat PROVE \E n : Text(EncodedLength(a, w, p), n)
  <2> DEFINE u == [j \in 1 .. p |-> Atom("magic", w, j)]
             v == [j \in 1 .. w |-> Atom("length", a, j)]
  <2>1. Text(u, p) /\ Text(v, w)
    BY DEF Text
  <2> HIDE DEF u, v
  <2>2. TextJoined(u, v, p, w)
    BY <2>1, TextJoin, Zenon
  <2>3. Text(u \o v, p + w)
    BY <2>2, Zenon DEF TextJoined
  <2> QED BY <2>3 DEF EncodedLength, u, v
<1>2. /\ \E n : Text(EncodedLength(a, 2, 0), n)
      /\ \E n : Text(EncodedLength(a, 4, 2), n)
      /\ \E n : Text(EncodedLength(a, 8, 2), n)
  BY <1>1
<1>3. \E n : Text(<<>>, n)
  BY TextEmpty, Zenon
<1> HIDE DEF EncodedLength
<1> QED BY <1>2, <1>3, Zenon DEF CcmAuthLength

(* SymCryptCcmInit: the MAC has the first block and the associated data    *)
(* behind its length, padded; the counter is at 1.                         *)
CcmHead(x, au, cb) ==
  CcmStartBlock(x, Len(au), cb) \o PadToBlock(CcmAuthLength(Len(au)) \o au, BlockSize)

CcmStarted(t, x, au, cb) ==
  /\ CcmHas(t, CcmHead(x, au, cb)) /\ t.cbData = cb /\ t.bytesProcessed = 0
  /\ CtrLaw(t.keystreamBlock, t.counter, x * CcmCounterRange + 1, 0, BlockSize, CcmSpace)

LEMMA CcmFirstCounterIs ==
  ASSUME NEW x \in Nonces
  PROVE  /\ x * CcmCounterRange \in Nat /\ x * CcmCounterRange + 1 \in Nat
         /\ x * CcmCounterRange < CcmSpace /\ x * CcmCounterRange + 1 < CcmSpace /\ CcmSpace \in Nat
<1>1. CcmCounterRange \in Nat /\ NonceRange \in Nat /\ x \in 0 .. NonceRange - 1
      /\ 1 \in 0 .. CcmCounterRange /\ 1 < CcmCounterRange
  BY GcmAssumption, CcmAssumption DEF Nonces
<1> DEFINE M == CcmCounterRange * NonceRange
           v == x * CcmCounterRange
<1>2. v + 1 \in Nat /\ v + 1 < M /\ v \in Nat
  BY <1>1, InRange
<1>3. M \in Nat
  BY <1>1
<1> HIDE DEF M, v
<1>4. v < M
  BY <1>2, <1>3
<1> QED BY <1>2, <1>3, <1>4 DEF CcmSpace, M, v

(* SymCryptCcmInit: the first block, the encoded length and the associated *)
(* data have gone into the CBC-MAC, padded.                                *)
LEMMA CcmInitRight ==
  ASSUME NEW x \in Nonces, NEW au, NEW A, Text(au, A), NEW cb
  PROVE  CcmStarted(CcmInitState(x, au, cb), x, au, cb)
<1> DEFINE B == BlockSize
           SB == CcmStartBlock(x, Len(au), cb)
           AL == CcmAuthLength(Len(au))
           s0 == [cbData |-> cb, bytesProcessed |-> 0, bytesInMacBlock |-> 0,
                  counter |-> x * CcmCounterRange + 1, chain |-> SB,
                  macBlock |-> Zeroes(B), keystreamBlock |-> StaleBlock(B)]
           s1 == CcmAddMacData(s0, AL)
           s2 == CcmAddMacData(s1, au)
           t == CcmPadMacData(s2)
<1>1. B \in Nat \ {0} /\ B \in Nat /\ B % B = 0
  BY GcmAssumption
<1>2. Text(SB, B)
  BY CcmStartText, Zenon
<1>3. PICK l : Text(AL, l)
  BY CcmLengthText, Zenon
<1>4. CcmInitState(x, au, cb) = t
  BY DEF CcmInitState
<1>5. /\ DOMAIN s0 = CcmFields /\ s0.cbData = cb /\ s0.bytesProcessed = 0 /\ s0.bytesInMacBlock = 0
      /\ s0.counter = x * CcmCounterRange + 1 /\ s0.chain = SB /\ s0.macBlock = Zeroes(B)
      /\ s0.keystreamBlock = StaleBlock(B)
  BY DEF CcmFields
<1> HIDE DEF s0, SB, AL
<1>6. CcmHas(s0, SB)
  <2>1. Text(Zeroes(B), B) /\ \A i \in 1 .. B : Zeroes(B)[i] = ZeroByte
    BY <1>1, TextZeroes, Zenon
  <2>2. MacLaw(SB, Zeroes(B), 0, SB, B)
    <3> HIDE DEF B
    <3> QED BY <1>1, <1>2, <2>1, MacNothing, Zenon
  <2>3. ZeroBehind(Zeroes(B), 0, B)
    BY <2>1 DEF ZeroBehind
  <2> QED BY <1>5, <2>2, <2>3, CcmFieldsAre DEF CcmHas
<1>7. CcmHas(s1, SB \o AL) /\ CcmSame(s0, s1)
  BY <1>3, <1>6, CcmAddsHas, Zenon
<1> HIDE DEF s1
<1>8. CcmHas(s2, (SB \o AL) \o au) /\ CcmSame(s1, s2)
  BY <1>7, CcmAddsHas, Zenon
<1> HIDE DEF s2
<1>9. CcmHas(t, PadToBlock((SB \o AL) \o au, B)) /\ CcmSame(s2, t)
  BY <1>8, CcmPadsHas, Zenon
<1> HIDE DEF t
<1>10. PadToBlock((SB \o AL) \o au, B) = CcmHead(x, au, cb)
  <2>1. Regroups(SB, AL, au)
    BY <1>2, <1>3, TextRegroup, Zenon
  <2>2. (SB \o AL) \o au = SB \o (AL \o au)
    BY <2>1, Zenon DEF Regroups
  <2>3. Text(AL \o au, l + A)
    BY <1>3, TextJoin, Zenon DEF TextJoined
  <2>4. PadToBlock(SB \o (AL \o au), B) = SB \o PadToBlock(AL \o au, B)
    <3> HIDE DEF B
    <3> QED BY <1>1, <1>2, <2>3, PadBehind, Zenon
  <2> QED BY <2>2, <2>4 DEF CcmHead, SB, AL
<1>11. /\ t.cbData = cb /\ t.bytesProcessed = 0
       /\ t.counter = x * CcmCounterRange + 1 /\ t.keystreamBlock = StaleBlock(B)
  BY <1>5, <1>7, <1>8, <1>9 DEF CcmSame
<1>12. CtrLaw(StaleBlock(B), x * CcmCounterRange + 1, x * CcmCounterRange + 1, 0, B, CcmSpace)
  <2> DEFINE F == x * CcmCounterRange + 1
  <2>1. F \in Nat /\ F < CcmSpace /\ CcmSpace \in Nat
    BY CcmFirstCounterIs, Zenon
  <2>2. Text(StaleBlock(B), B)
    BY <1>1, StaleText, Zenon
  <2> HIDE DEF F, B
  <2>3. CtrLaw(StaleBlock(B), F, F, 0, B, CcmSpace)
    BY <1>1, <2>1, <2>2, CtrStarts, Zenon
  <2> QED BY <2>3 DEF F
<1>13. CcmStarted(t, x, au, cb)
  BY <1>9, <1>10, <1>11, <1>12 DEF CcmStarted
<1> QED BY <1>4, <1>13

(* The head is whole blocks.                                               *)
LEMMA CcmHeadWhole ==
  ASSUME NEW x, NEW au, NEW A, Text(au, A), NEW cb
  PROVE  \E m \in Nat : Text(CcmHead(x, au, cb), m) /\ m % BlockSize = 0
<1> DEFINE B == BlockSize
           SB == CcmStartBlock(x, Len(au), cb)
           AL == CcmAuthLength(Len(au))
<1>1. B \in Nat \ {0} /\ B \in Nat /\ B % B = 0
  BY GcmAssumption
<1>2. Text(SB, B)
  BY CcmStartText, Zenon
<1>3. PICK l : Text(AL, l)
  BY CcmLengthText, Zenon
<1>4. CcmHead(x, au, cb) = SB \o PadToBlock(AL \o au, B)
  BY DEF CcmHead
<1> DEFINE y == AL \o au
           p == PadToBlock(y, B)
           e == l + A
           z == e + PadZ(e, B)
<1> HIDE DEF SB, AL, B
<1>5. Text(y, e)
  BY <1>3, TextJoin, Zenon DEF TextJoined
<1> HIDE DEF y, e
<1>6. e \in Nat
  BY <1>5, TextLen, Zenon
<1>7. Text(p, z)
  BY <1>1, <1>5, PadIs, Zenon
<1>8. z \in Nat /\ z % B = 0
  BY <1>1, <1>6, PadSize, Zenon
<1> HIDE DEF p, z
<1>9. Text(SB \o p, B + z)
  BY <1>2, <1>7, TextJoin, Zenon DEF TextJoined
<1>10. (B + z) % B = z % B /\ B + z \in Nat
  <2>1. (B + z) % B = z % B
    BY <1>1, <1>8, WholeDropped, Zenon
  <2> QED BY <1>1, <1>8, <2>1
<1>11. (B + z) % B = 0
  BY <1>8, <1>10
<1> QED BY <1>4, <1>9, <1>10, <1>11 DEF p, y, B

(* A message that is shorter than the counter's range begins fewer blocks  *)
(* than the counter counts: it never carries into the nonce.               *)
LEMMA CcmBlocks ==
  ASSUME NEW n \in Nat, n < CcmCounterRange
  PROVE  /\ 1 + Begun(n, BlockSize) \in 1 .. CcmCounterRange - 1
         /\ \A i \in 1 .. n : (i - 1) \div BlockSize \in 0 .. CcmCounterRange - 2
<1> DEFINE B == BlockSize
           R == CcmCounterRange
           Q == n \div B
           u == n % B
<1>1. B \in Nat \ {0} /\ B >= 3 /\ R \in Nat /\ R >= 3 /\ n < R
  BY GcmAssumption, CcmAssumption
<1> HIDE DEF B, R
<1>2. Q \in Nat /\ u \in 0 .. B - 1 /\ n = Q * B + u
  BY <1>1, Division, Zenon
<1>3. BegunTo(n, B, Q, u)
  BY <1>1, <1>2, BegunIs, Zenon
<1>4. Begun(n, B) = IF u = 0 THEN Q ELSE Q + 1
  BY <1>3, Zenon DEF BegunTo
<1> HIDE DEF Q, u
<1>5. ASSUME NEW q \in Nat PROVE q * B \in Nat /\ q * B >= 3 * q
  <2>1. B - 3 \in Nat
    BY <1>1
  <2> DEFINE e == B - 3
  <2>2. B = e + 3 /\ e \in Nat
    BY <1>1, <2>1
  <2> HIDE DEF e
  <2>3. q * B = q * e + 3 * q
    BY <2>2
  <2>4. q * e \in Nat
    BY <2>2
  <2> QED BY <2>3, <2>4
<1>6. 1 + Begun(n, B) \in 1 .. R - 1
  <2>1. Q * B \in Nat /\ Q * B >= 3 * Q
    BY <1>2, <1>5
  <2> QED BY <1>1, <1>2, <1>4, <2>1
<1>7. ASSUME NEW i \in 1 .. n PROVE (i - 1) \div B \in 0 .. R - 2
  <2> DEFINE p == (i - 1) \div B
             r == (i - 1) % B
  <2>1. i - 1 \in Nat
    OBVIOUS
  <2>2. p \in Nat /\ r \in 0 .. B - 1 /\ i - 1 = p * B + r
    BY <1>1, <2>1, Division, Zenon
  <2> HIDE DEF p, r
  <2>3. p * B \in Nat /\ p * B >= 3 * p
    BY <1>5, <2>2
  <2>4. p \in 0 .. R - 2
    BY <1>1, <2>2, <2>3
  <2> QED BY <2>4 DEF p
<1> QED BY <1>6, <1>7 DEF B, R

(* The key bytes of CCM are those of its counter mode.                     *)
LEMMA CcmStreamIsKey ==
  ASSUME NEW c \in Calls, NEW n \in Nat, n < CcmCounterRange
  PROVE  StreamIsKey("ccm", c, n, c.nonce * CcmCounterRange + 1, 0, BlockSize, CcmSpace)
<1> DEFINE B == BlockSize
           C == CcmCounterRange
           x == c.nonce
<1>1. B \in Nat \ {0} /\ C \in Nat /\ C >= 3 /\ NonceRange \in Nat \ {0} /\ x \in 0 .. NonceRange - 1
  BY GcmAssumption, CcmAssumption DEF Calls, Nonces
<1>2. ASSUME NEW i \in 1 .. n PROVE KeyByte("ccm", c, i) = StreamByte(x * C + 1, 0 + i, B, CcmSpace)
  <2> DEFINE q == (i - 1) \div B
  <2>1. q \in 0 .. C - 2
    BY CcmBlocks, Zenon
  <2>2. KeyByte("ccm", c, i) = Atom("key", x * C + 1 + q, 1 + ((i - 1) % B))
    BY DEF KeyByte, CcmKeyByte
  <2>3. 0 + i = i
    OBVIOUS
  <2>4. StreamByte(x * C + 1, 0 + i, B, CcmSpace)
          = Atom("key", (x * C + 1 + q) % (C * NonceRange), 1 + ((i - 1) % B))
    BY <2>3 DEF StreamByte, CcmSpace
  <2> HIDE DEF q, B, C, x
  <2>5. 1 + q \in 0 .. C /\ 1 + q < C /\ q \in Nat
    BY <1>1, <2>1
  <2>6. x * C + (1 + q) \in Nat /\ (1 + q < C => x * C + (1 + q) < C * NonceRange) /\ x * C \in Nat
    BY <1>1, <2>5, InRange
  <2>7. x * C + 1 + q = x * C + (1 + q)
    BY <2>5, <2>6
  <2>8. C * NonceRange \in Nat
    BY <1>1
  <2>9. (x * C + (1 + q)) % (C * NonceRange) = x * C + (1 + q)
    <3> DEFINE v == x * C + (1 + q)
               M == C * NonceRange
    <3>1. v \in Nat /\ M \in Nat /\ v < M
      BY <2>5, <2>6, <2>8
    <3> HIDE DEF v, M
    <3>2. v % M = v
      BY <3>1
    <3> QED BY <3>2 DEF v, M
  <2> QED BY <2>2, <2>4, <2>7, <2>9
<1> QED BY <1>2 DEF StreamIsKey

(* Setting the counter field to zero leads back to the nonce's first       *)
(* counter value.                                                          *)
LEMMA CcmTagCounter ==
  ASSUME NEW x \in Nonces, NEW n \in Nat, n < CcmCounterRange
  PROVE  LET v == (x * CcmCounterRange + 1 + Begun(n, BlockSize)) % CcmSpace
         IN (v \div CcmCounterRange) * CcmCounterRange = x * CcmCounterRange
<1> DEFINE C == CcmCounterRange
           b == 1 + Begun(n, BlockSize)
           w == x * C + b
           M == C * NonceRange
<1>1. C \in Nat \ {0} /\ NonceRange \in Nat /\ x \in 0 .. NonceRange - 1 /\ x \in Nat
  BY GcmAssumption, CcmAssumption DEF Nonces
<1>2. b \in 1 .. C - 1
  BY CcmBlocks, Zenon
<1>3. Begun(n, BlockSize) \in Int
  BY GcmAssumption DEF Begun
<1>4. x * C + 1 + Begun(n, BlockSize) = w
  <2>1. x * C \in Nat
    BY <1>1
  <2> HIDE DEF C
  <2> QED BY <1>3, <2>1
<1> HIDE DEF b, C
<1>5. b \in 0 .. C /\ b < C /\ b \in 0 .. C - 1
  BY <1>1, <1>2
<1>6. w \in Nat /\ w < M
  BY <1>1, <1>5, InRange
<1>7. M \in Nat
  BY <1>1
<1>8. w % M = w
  <2> HIDE DEF w, M
  <2> QED BY <1>6, <1>7
<1>9. DividesTo(w, C, x, b)
  <2>1. w = x * C + b
    OBVIOUS
  <2> HIDE DEF w
  <2> QED BY <1>1, <1>5, <1>6, <2>1, DivisionNamed, Zenon
<1>10. w \div C = x
  BY <1>9, Zenon DEF DividesTo
<1> QED BY <1>4, <1>8, <1>10 DEF C, M, CcmSpace

(* Counter mode over a block of zeroes gives the key stream block.         *)
LEMMA EncOfZeroes ==
  ASSUME NEW B \in Nat \ {0}, NEW S \in Nat, NEW c \in Nat, c < S
  PROVE  Enc(Zeroes(B), 0, B, c, 0, B, S) = KeyBlock(c, B)
<1> DEFINE e == Enc(Zeroes(B), 0, B, c, 0, B, S)
           z == Zeroes(B)
<1>1. Text(z, B) /\ \A i \in 1 .. B : z[i] = ZeroByte
  BY TextZeroes, Zenon
<1> HIDE DEF z
<1>2. EncBytes(z, 0, B, c, 0, B, S)
  <2>1. 0 \in Nat /\ B \in Nat /\ 0 + B <= B
    OBVIOUS
  <2> QED BY <1>1, <2>1, EncIs, Zenon
<1>3. Text(e, B) /\ \A i \in 1 .. B : e[i] = XorByte(z[0 + i], StreamByte(c, 0 + 0 + i, B, S))
  BY <1>2 DEF EncBytes, z
<1> HIDE DEF e
<1>4. Text(KeyBlock(c, B), B) /\ \A i \in 1 .. B : KeyBlock(c, B)[i] = Atom("key", c, i)
  BY DEF KeyBlock, Text
<1>5. ASSUME NEW i \in 1 .. B PROVE e[i] = KeyBlock(c, B)[i]
  <2>1. 0 + i = i /\ 0 + 0 + i = i /\ i - 1 \in 0 .. B - 1 /\ i = 0 * B + (i - 1) + 1 /\ 1 + (i - 1) = i
    OBVIOUS
  <2>2. StreamAt(c, i, B, S, 0, i - 1)
    <3>1. 0 \in Nat
      OBVIOUS
    <3> QED BY <2>1, <3>1, StreamByteAt, Zenon
  <2>3. c + 0 = c /\ c % S = c
    OBVIOUS
  <2>4. StreamByte(c, i, B, S) = Atom("key", c, i)
    BY <2>1, <2>2, <2>3 DEF StreamAt
  <2>5. e[i] = XorByte(z[0 + i], StreamByte(c, 0 + 0 + i, B, S))
    BY <1>3
  <2>6. e[i] = XorByte(ZeroByte, Atom("key", c, i))
    BY <1>1, <2>1, <2>4, <2>5
  <2> QED BY <1>4, <2>6, XorZero
<1>6. e = KeyBlock(c, B)
  BY <1>3, <1>4, <1>5, TextSame, Zenon
<1> QED BY <1>6 DEF e, z

(* The tag of a CCM state that has taken all of a message.                 *)
CcmTagged(s, x, au, pt) == CcmComputeTag(s) = CcmReferenceTag(x, au, pt)

LEMMA CcmTagRight ==
  ASSUME NEW s, NEW x \in Nonces, NEW au, NEW A, Text(au, A), NEW pt, NEW n, Text(pt, n),
         n < CcmCounterRange, CcmHas(s, CcmHead(x, au, n) \o pt),
         CtrLaw(s.keystreamBlock, s.counter, x * CcmCounterRange + 1, n, BlockSize, CcmSpace)
  PROVE  CcmTagged(s, x, au, pt)
<1> DEFINE B == BlockSize
           head == CcmHead(x, au, n)
           t == CcmPadMacData(s)
           f == CcmTagState(s)
           c == x * CcmCounterRange
           w == CcmEncryptDecryptPart(f, Zeroes(B))
           Z == Zeroes(B)
<1>1. B \in Nat \ {0} /\ B \in Nat
  BY GcmAssumption
<1>2. n \in Nat /\ Len(pt) = n
  BY TextLen, Zenon
<1>3. CcmHas(t, PadToBlock(head \o pt, B)) /\ CcmSame(s, t) /\ t.chain = PadToBlock(head \o pt, B)
  BY CcmPadsHas, Zenon
<1>4. PadToBlock(head \o pt, B) = head \o PadToBlock(pt, B)
  <2>1. PICK m \in Nat : Text(head, m) /\ m % B = 0
    BY CcmHeadWhole, Zenon
  <2> HIDE DEF head, B
  <2> QED BY <1>1, <2>1, PadBehind, Zenon
<1> HIDE DEF t
<1>5. s.counter = (c + 1 + Begun(n, B)) % CcmSpace /\ Text(s.keystreamBlock, B)
  BY DEF CtrLaw
<1>6. (s.counter \div CcmCounterRange) * CcmCounterRange = c
  BY <1>2, <1>5, CcmTagCounter
<1>7. DOMAIN t = CcmFields
  BY <1>3, CcmFieldsAre DEF CcmHas
<1>8. f = [t EXCEPT !.counter = (@ \div CcmCounterRange) * CcmCounterRange, !.bytesProcessed = 0]
  BY DEF CcmTagState, t
<1> HIDE DEF f, c
<1>9. t.counter = s.counter /\ t.keystreamBlock = s.keystreamBlock
  BY <1>3 DEF CcmSame
<1>10. /\ f.counter = c /\ f.bytesProcessed = 0 /\ f.keystreamBlock = s.keystreamBlock /\ f.chain = t.chain
       /\ f.macBlock = t.macBlock /\ f.bytesInMacBlock = t.bytesInMacBlock /\ DOMAIN f = DOMAIN t
  BY <1>6, <1>7, <1>8, <1>9 DEF CcmFields
<1>11. CcmHas(f, PadToBlock(head \o pt, B))
  BY <1>3, <1>10 DEF CcmHas
<1>12. c \in Nat /\ c < CcmSpace /\ CcmSpace \in Nat
  BY CcmFirstCounterIs DEF c
<1>13. CtrLaw(f.keystreamBlock, f.counter, c, 0, B, CcmSpace)
  <2>1. CtrLaw(s.keystreamBlock, c, c, 0, B, CcmSpace)
    BY <1>1, <1>5, <1>12, CtrStarts, Zenon
  <2> QED BY <1>10, <2>1
<1>14. Text(Z, B)
  BY <1>1, TextZeroes, Zenon
<1> HIDE DEF Z, head
<1>15. CcmCrypted(CcmEncryptDecryptPart(f, Z), f, Z, c, 0, B, PadToBlock(head \o pt, B))
  <2>1. 0 \in Nat
    OBVIOUS
  <2> QED BY <1>10, <1>11, <1>12, <1>13, <1>14, <2>1, CcmCrypts, Zenon
<1>16. w.dst = Enc(Z, 0, B, c, 0, B, CcmSpace)
  BY <1>15 DEF CcmCrypted, Z
<1>17. Enc(Z, 0, B, c, 0, B, CcmSpace) = KeyBlock(c, B)
  <2> HIDE DEF B
  <2> QED BY <1>1, <1>12, EncOfZeroes DEF Z
<1>18. CcmComputeTag(s) = Tag(f.chain, w.dst)
  BY DEF CcmComputeTag, f
<1>19. CcmReferenceTag(x, au, pt) = Tag(head \o PadToBlock(pt, B), KeyBlock(c, B))
  BY <1>2 DEF CcmReferenceTag, head, CcmHead, c
<1> HIDE DEF w
<1> QED BY <1>3, <1>4, <1>10, <1>16, <1>17, <1>18, <1>19 DEF CcmTagged

(* SymCryptCcmEncrypt and SymCryptCcmDecrypt: Init, Part and Final.        *)
CcmOneShotIs(r, x, au, src, k, d) ==
  /\ r.dst = Enc(src, 0, k, x * CcmCounterRange + 1, 0, BlockSize, CcmSpace)
  /\ CcmTagged(r.st, x, au, MacInput(src, r.dst, d))

LEMMA CcmOneShotRight ==
  ASSUME NEW x \in Nonces, NEW au, NEW A, Text(au, A), NEW src, NEW k, Text(src, k), NEW d,
         k < CcmCounterRange
  PROVE  CcmOneShotIs(CcmPartState(CcmInitState(x, au, k), src, d), x, au, src, k, d)
<1> DEFINE t == CcmInitState(x, au, k)
           r == CcmPartState(t, src, d)
           F == x * CcmCounterRange + 1
           m == MacInput(src, r.dst, d)
<1>1. CcmStarted(t, x, au, k)
  BY CcmInitRight, Zenon
<1> HIDE DEF t
<1>2. /\ CcmHas(t, CcmHead(x, au, k)) /\ t.cbData = k /\ t.bytesProcessed = 0
      /\ CtrLaw(t.keystreamBlock, t.counter, F, 0, BlockSize, CcmSpace)
  BY <1>1 DEF CcmStarted
<1>3. F \in Nat /\ 0 \in Nat
  BY CcmFirstCounterIs
<1>4. k \in Nat
  BY TextLen, Zenon
<1> HIDE DEF F
<1>5. CcmPartRight(r, t.cbData, src, F, 0, k, CcmHead(x, au, k), d)
  BY <1>2, <1>3, CcmPartStateRight, Zenon
<1> HIDE DEF r
<1>6. 0 + k = k /\ 0 + k <= k
  BY <1>4
<1>7. /\ r.dst = Enc(src, 0, k, F, 0, BlockSize, CcmSpace)
      /\ CcmHas(r.st, CcmHead(x, au, k) \o m)
      /\ CtrLaw(r.st.keystreamBlock, r.st.counter, F, k, BlockSize, CcmSpace)
  BY <1>5, <1>6 DEF CcmPartRight
<1>8. Text(m, k)
  <2>1. EncBytes(src, 0, k, F, 0, BlockSize, CcmSpace)
    BY <1>3, <1>4, <1>6, EncIs, Zenon
  <2>2. Text(r.dst, k)
    BY <1>7, <2>1 DEF EncBytes
  <2> QED BY <2>2 DEF MacInput
<1> HIDE DEF m
<1>9. CtrLaw(r.st.keystreamBlock, r.st.counter, x * CcmCounterRange + 1, k, BlockSize, CcmSpace)
  BY <1>7 DEF F
<1>10. CcmTagged(r.st, x, au, m)
  BY <1>7, <1>8, <1>9, CcmTagRight, Zenon
<1>11. CcmOneShotIs(r, x, au, src, k, d)
  BY <1>7, <1>10 DEF CcmOneShotIs, m, F
<1> QED BY <1>11 DEF r, t

-----------------------------------------------------------------------------
(* SymCryptChaCha20Crypt as counter mode.  The blocks begun before offset  *)
(* o end where the first piece does, unless that piece is all there is.    *)
LEMMA BegunEnds ==
  ASSUME NEW B \in Nat \ {0}, NEW o \in Nat, NEW a \in Nat,
         (o % B = 0 /\ a = 0) \/ (o % B # 0 /\ (o % B) + a = B)
  PROVE  Begun(o, B) \in Nat /\ o + a = Begun(o, B) * B
<1> DEFINE Q == o \div B
           u == o % B
<1>1. Q \in Nat /\ u \in 0 .. B - 1 /\ o = Q * B + u
  BY Division, Zenon
<1>2. BegunTo(o, B, Q, u)
  BY <1>1, BegunIs, Zenon
<1>3. Begun(o, B) = IF u = 0 THEN Q ELSE Q + 1
  BY <1>2, Zenon DEF BegunTo
<1>4. (u = 0 /\ a = 0) \/ (u # 0 /\ u + a = B)
  OBVIOUS
<1> HIDE DEF Q, u
<1>5. CASE u = 0 /\ a = 0
  BY <1>1, <1>3, <1>5
<1>6. CASE u # 0 /\ u + a = B
  <2>1. Begun(o, B) = Q + 1
    BY <1>3, <1>6
  <2>2. (Q + 1) * B = Q * B + B /\ Q * B \in Nat
    BY <1>1
  <2> QED BY <1>1, <1>6, <2>1, <2>2
<1> QED BY <1>4, <1>5, <1>6

(* The key stream buffer SymCryptChaCha20Crypt works with.                 *)
ChaChaBuffer(s) ==
  IF s.offset % ChaChaBlock # 0 /\ ~s.keystreamBufferValid
  THEN ChaCha20CryptBlocks(s.offset, Zeroes(ChaChaBlock)) ELSE s.keystream

ChaChaHolds(s) ==
  /\ s.offset \in Nat /\ Text(s.keystream, ChaChaBlock)
  /\ (s.keystreamBufferValid /\ s.offset % ChaChaBlock # 0) =>
       s.keystream = KeyBlock((s.offset \div ChaChaBlock) % ChaChaRange, ChaChaBlock)

(* It obeys the law of counter mode, whether it was valid or is made anew. *)
LEMMA ChaChaBufferRight ==
  ASSUME NEW s, ChaChaHolds(s)
  PROVE  CtrLaw(ChaChaBuffer(s), Begun(s.offset, ChaChaBlock) % ChaChaRange, 0, s.offset, ChaChaBlock, ChaChaRange)
<1> DEFINE B == ChaChaBlock
           S == ChaChaRange
           o == s.offset
           q == (o \div B) % S
           b == ChaChaBuffer(s)
<1>1. B \in Nat \ {0} /\ S \in Nat \ {0} /\ o \in Nat /\ Text(s.keystream, B)
      /\ ((s.keystreamBufferValid /\ o % B # 0) => s.keystream = KeyBlock(q, B))
  BY ChaChaAssumption DEF ChaChaHolds
<1>2. o \div B \in Nat
  BY <1>1, Division, Zenon
<1>3. Begun(o, B) \in Nat
  <2>1. o \div B \in Nat /\ o % B \in 0 .. B - 1 /\ o = (o \div B) * B + (o % B)
    BY <1>1, Division, Zenon
  <2>2. BegunTo(o, B, o \div B, o % B)
    BY <1>1, <2>1, BegunIs, Zenon
  <2> QED BY <1>2, <2>2 DEF BegunTo
<1>4. q \in Nat /\ q % S = q
  BY <1>1, <1>2
<1>5. CtrMsb64(q, Zeroes(B), B, S).dst = KeyBlock(q, B)
  <2> HIDE DEF q, B, S
  <2>1. CtrMsb64(q, Zeroes(B), B, S).dst = KeyBlock(q % S, B)
    BY <1>1, <1>4, CtrOfZeroes, Zenon
  <2> QED BY <1>4, <2>1
<1>6. ChaCha20CryptBlocks(o, Zeroes(B)) = KeyBlock(q, B)
  BY <1>5 DEF ChaCha20CryptBlocks
<1>7. o % B # 0 => b = KeyBlock(q, B)
  BY <1>1, <1>6 DEF ChaChaBuffer
<1>8. Text(KeyBlock(q, B), B)
  BY <1>1 DEF KeyBlock, Text
<1>9. Text(b, B)
  BY <1>1, <1>6, <1>8 DEF ChaChaBuffer
<1>10. 0 + Begun(o, B) = Begun(o, B) /\ 0 + o \div B = o \div B
  BY <1>2, <1>3
<1> HIDE DEF b, q
<1>11. o % B # 0 => b = KeyBlock((0 + o \div B) % S, B)
  BY <1>7, <1>10 DEF q
<1> QED BY <1>9, <1>10, <1>11 DEF CtrLaw, b

(* The pieces SymCryptChaCha20Crypt makes are those of counter mode.       *)
ChaChaAsCtr(r, w, o, k) == r.dst = w.dst /\ r.st.keystream = w.keystream /\ r.st.offset = o + k

LEMMA ChaChaIsCtr ==
  ASSUME NEW s, s.offset \in Nat, NEW src, NEW k, Text(src, k)
  PROVE  ChaChaAsCtr(ChaCha20CryptState(s, src),
           CtrCrypt(ChaChaBuffer(s), s.offset % ChaChaBlock, Begun(s.offset, ChaChaBlock) % ChaChaRange, src,
                    ChaChaBlock, ChaChaRange), s.offset, k)
<1> DEFINE B == ChaChaBlock
           S == ChaChaRange
           o == s.offset
           u == o % B
           b == ChaChaBuffer(s)
           P == Begun(o, B)
           a == FirstOf(u, k, B)
           w == WholeOf(u, k, B)
           t == RestOf(u, k, B)
           bulk == CtrMsb64(P % S, Slice(src, a, w), B, S)
           last == IF t > 0 THEN CtrMsb64(bulk.counter, Zeroes(B), B, S) ELSE [dst |-> b, counter |-> bulk.counter]
           X == XorBytes(Slice(src, 0, a), Slice(b, u, a))
           v == CtrCrypt(b, u, P % S, src, B, S)
           r == ChaCha20CryptState(s, src)
           bulk2 == ChaCha20CryptBlocks(o + a, Slice(src, a, w))
           last2 == IF t > 0 THEN ChaCha20CryptBlocks(o + a + w, Zeroes(B)) ELSE b
<1>1. B \in Nat \ {0} /\ S \in Nat \ {0} /\ o \in Nat
  BY ChaChaAssumption
<1>2. Len(src) = k /\ k \in Nat
  BY TextLen, Zenon
<1>3. /\ v.dst = X \o bulk.dst \o XorBytes(Slice(src, a + w, t), Slice(last.dst, 0, t))
      /\ v.keystream = last.dst
  BY <1>2 DEF CtrCrypt, FirstOf, WholeOf, RestOf
<1>4. /\ r.dst = X \o bulk2 \o XorBytes(Slice(src, a + w, t), Slice(last2, 0, t))
      /\ r.st.keystream = last2 /\ r.st.offset = o + k
  BY <1>2 DEF ChaCha20CryptState, ChaChaBuffer, FirstOf, WholeOf, RestOf
<1>5. u \in 0 .. B - 1
  BY <1>1, Division, Zenon
<1>6. /\ a \in Nat /\ w \in Nat /\ t \in 0 .. B - 1 /\ a + w + t = k /\ u + a \in 0 .. B
      /\ (\E d \in Nat : w = d * B) /\ ((u + a # B /\ u # 0) => w = 0 /\ t = 0) /\ (u = 0 => a = 0)
  <2>1. B \in Nat \ {0} /\ k \in Nat
    BY <1>1, <1>2
  <2> HIDE DEF B, u
  <2> QED BY <1>5, <2>1, Pieces, ZenonT(30)
<1>7. PICK d \in Nat : w = d * B
  BY <1>6
<1> HIDE DEF a, w, t, v, r, b
<1>8. CASE w = 0 /\ t = 0
  <2>1. a <= k /\ a \in Nat
    BY <1>2, <1>6
  <2>2. \A y : XorBytes(Slice(src, a, 0), y) = <<>>
    BY <2>1, XorNothing, Zenon
  <2>3. bulk.dst = <<>> /\ bulk2 = <<>>
    BY <1>8, <2>2 DEF CtrMsb64, ChaCha20CryptBlocks
  <2>4. last.dst = b /\ last2 = b
    BY <1>8
  <2> HIDE DEF bulk, bulk2, last, last2
  <2> QED BY <1>3, <1>4, <2>3, <2>4 DEF ChaChaAsCtr, v, r, b
<1>9. CASE ~(w = 0 /\ t = 0)
  <2>1. (u = 0 /\ a = 0) \/ (u # 0 /\ u + a = B)
    BY <1>6, <1>9
  <2>2. P \in Nat /\ o + a = P * B
    BY <1>1, <1>6, <2>1, BegunEnds
  <2> HIDE DEF B, S, P, u, o
  <2>3. (o + a) \div B = P
    <3>1. 0 \in 0 .. B - 1 /\ o + a = P * B + 0 /\ o + a \in Nat
      BY <1>1, <1>6, <2>2
    <3>2. DividesTo(o + a, B, P, 0)
      BY <1>1, <2>2, <3>1, DivisionNamed, Zenon
    <3> QED BY <3>2, Zenon DEF DividesTo
  <2>4. bulk2 = bulk.dst
    BY <2>3 DEF ChaCha20CryptBlocks, B, S
  <2>5. (o + a + w) \div B = P + d
    <3>1. (P + d) * B = P * B + d * B /\ P * B \in Nat /\ d * B \in Nat
      BY <1>1, <2>2
    <3>2. 0 \in 0 .. B - 1 /\ o + a + w = (P + d) * B + 0 /\ o + a + w \in Nat /\ P + d \in Nat
      BY <1>1, <1>6, <1>7, <2>2, <3>1
    <3>3. DividesTo(o + a + w, B, P + d, 0)
      BY <1>1, <3>2, DivisionNamed, Zenon
    <3> QED BY <3>3, Zenon DEF DividesTo
  <2>6. Len(Slice(src, a, w)) = w
    <3>1. a + w <= k
      BY <1>2, <1>6
    <3>2. TextSliced(src, a, w)
      BY <1>6, <3>1, TextSlice, Zenon
    <3> QED BY <3>2, TextLen, Zenon DEF TextSliced
  <2>7. w \div B = d
    <3>1. 0 \in 0 .. B - 1 /\ w = d * B + 0
      BY <1>1, <1>6, <1>7
    <3>2. DividesTo(w, B, d, 0)
      BY <1>1, <1>6, <3>1, DivisionNamed, Zenon
    <3> QED BY <3>2, Zenon DEF DividesTo
  <2>8. bulk.counter = (P + d) % S
    <3>1. bulk.counter = ((P % S) + d) % S
      BY <2>6, <2>7 DEF CtrMsb64
    <3>2. ((P % S) + d) % S = (P + d) % S
      BY <1>1, <2>2, ModSum, Zenon
    <3> QED BY <3>1, <3>2
  <2>9. last2 = last.dst
    <3>1. ChaCha20CryptBlocks(o + a + w, Zeroes(B)) = CtrMsb64((P + d) % S, Zeroes(B), B, S).dst
      BY <2>5 DEF ChaCha20CryptBlocks, B, S
    <3> HIDE DEF bulk
    <3> QED BY <2>8, <3>1
  <2> HIDE DEF bulk, bulk2, last, last2
  <2>10. r.dst = v.dst /\ r.st.keystream = v.keystream /\ r.st.offset = o + k
    BY <1>3, <1>4, <2>4, <2>9
  <2> QED BY <2>10 DEF ChaChaAsCtr, v, r, b, o, u, B, P, S
<1> QED BY <1>8, <1>9

(* SymCryptChaCha20Crypt: each byte under the key stream byte of its       *)
(* offset, and a buffer that fits the new offset.                          *)
ChaChaFields == {"offset", "keystreamBufferValid", "keystream"}

ChaChaRight(r, src, o, k) ==
  /\ r.dst = Enc(src, 0, k, 0, o, ChaChaBlock, ChaChaRange)
  /\ ChaChaHolds(r.st) /\ r.st.offset = o + k
  /\ DOMAIN r.st = ChaChaFields /\ r.st.keystreamBufferValid \in BOOLEAN

LEMMA ChaChaCrypts ==
  ASSUME NEW s, ChaChaHolds(s), s.keystreamBufferValid \in BOOLEAN, NEW src, NEW k, Text(src, k)
  PROVE  ChaChaRight(ChaCha20CryptState(s, src), src, s.offset, k)
<1> DEFINE B == ChaChaBlock
           S == ChaChaRange
           o == s.offset
           b == ChaChaBuffer(s)
           c == Begun(o, B) % S
           v == CtrCrypt(b, o % B, c, src, B, S)
           r == ChaCha20CryptState(s, src)
<1>1. B \in Nat \ {0} /\ S \in Nat \ {0} /\ o \in Nat /\ 0 \in Nat
  BY ChaChaAssumption DEF ChaChaHolds
<1>2. CtrLaw(b, c, 0, o, B, S)
  BY ChaChaBufferRight, Zenon
<1>3. ChaChaAsCtr(r, v, o, k)
  BY <1>1, ChaChaIsCtr, Zenon
<1>4. k \in Nat
  BY TextLen, Zenon
<1>5. DOMAIN r.st = ChaChaFields /\ r.st.keystreamBufferValid \in BOOLEAN
  BY DEF ChaCha20CryptState, ChaChaFields
<1> HIDE DEF b, c, B, S, r
<1>6. CtrRight(v, src, 0, o, k, B, S)
  <2> HIDE DEF o
  <2> QED BY <1>1, <1>2, CtrCrypts, Zenon
<1> HIDE DEF v, o
<1>7. v.dst = Enc(src, 0, k, 0, o, B, S) /\ CtrLaw(v.keystream, v.counter, 0, o + k, B, S)
  BY <1>6, Zenon DEF CtrRight
<1>8. r.dst = v.dst /\ r.st.keystream = v.keystream /\ r.st.offset = o + k
  BY <1>3, Zenon DEF ChaChaAsCtr
<1>9. o + k \in Nat /\ (o + k) \div B \in Nat
  <2>1. o + k \in Nat
    BY <1>1, <1>4
  <2> QED BY <1>1, <2>1, Division, Zenon
<1>10. 0 + (o + k) \div B = (o + k) \div B
  BY <1>9
<1>11. Text(v.keystream, B) /\ ((o + k) % B # 0 => v.keystream = KeyBlock(((o + k) \div B) % S, B))
  BY <1>7, <1>10 DEF CtrLaw
<1>12. ChaChaHolds(r.st)
  BY <1>8, <1>9, <1>11 DEF ChaChaHolds, B, S
<1>13. ChaChaRight(r, src, o, k)
  BY <1>5, <1>7, <1>8, <1>12 DEF ChaChaRight, B, S
<1> QED BY <1>13 DEF r, o

(* The standard's key stream by position is that of counter mode from 0.   *)
ChaChaByteAt(p) == StreamByte(0, p, ChaChaBlock, ChaChaRange) = ChaChaKeyByte(p - 1)

LEMMA ChaChaByteIs ==
  ASSUME NEW p \in Nat \ {0}
  PROVE  ChaChaByteAt(p)
<1>1. p - 1 \in Nat /\ ChaChaBlock \in Nat \ {0}
  BY ChaChaAssumption
<1>2. (p - 1) \div ChaChaBlock \in Nat
  BY <1>1, Division, Zenon
<1>3. 0 + (p - 1) \div ChaChaBlock = (p - 1) \div ChaChaBlock
  BY <1>2
<1> QED BY <1>3 DEF ChaChaByteAt, StreamByte, ChaChaKeyByte

(* The key stream of the reference is the one of the counter, from the     *)
(* offset of the call or from behind the Poly1305 key.                     *)
LEMMA ChaChaStreamIsKey ==
  ASSUME NEW c \in Calls, NEW n \in Nat
  PROVE  /\ StreamIsKey("chacha20", c, n, 0, c.from, ChaChaBlock, ChaChaRange)
         /\ StreamIsKey("chacha20poly1305", c, n, 0, ChaChaBlock, ChaChaBlock, ChaChaRange)
<1>1. c.from \in Nat /\ ChaChaBlock \in Nat
  BY ChaChaAssumption DEF Calls
<1>2. ASSUME NEW i \in 1 .. n
      PROVE  /\ KeyByte("chacha20", c, i) = StreamByte(0, c.from + i, ChaChaBlock, ChaChaRange)
             /\ KeyByte("chacha20poly1305", c, i) = StreamByte(0, ChaChaBlock + i, ChaChaBlock, ChaChaRange)
  <2>1. c.from + i \in Nat \ {0} /\ ChaChaBlock + i \in Nat \ {0}
    BY <1>1
  <2>2. /\ StreamByte(0, c.from + i, ChaChaBlock, ChaChaRange) = ChaChaKeyByte(c.from + i - 1)
        /\ StreamByte(0, ChaChaBlock + i, ChaChaBlock, ChaChaRange) = ChaChaKeyByte(ChaChaBlock + i - 1)
    <3>1. ChaChaByteAt(c.from + i) /\ ChaChaByteAt(ChaChaBlock + i)
      BY <2>1, ChaChaByteIs, Zenon
    <3>2. (c.from + i) - 1 = c.from + i - 1 /\ (ChaChaBlock + i) - 1 = ChaChaBlock + i - 1
      BY <1>1
    <3> QED BY <3>1, <3>2, Zenon DEF ChaChaByteAt
  <2> QED BY <2>2 DEF KeyByte
<1> QED BY <1>2 DEF StreamIsKey

(* ChaCha20 for the AEAD: the key of Poly1305 from offset 0, which leaves  *)
(* a buffer, and the data from the second block on.                        *)
LEMMA ChaChaKeyedRight ==
  /\ ChaChaKeyed.dst = [i \in 1 .. PolyKeySize |-> ChaChaKeyByte(i - 1)]
  /\ ChaChaHolds(ChaChaKeyed.st) /\ DOMAIN ChaChaKeyed.st = ChaChaFields
<1> DEFINE s == ChaCha20InitState(0)
           K == PolyKeySize
           z == Zeroes(K)
           e == Enc(z, 0, K, 0, 0, ChaChaBlock, ChaChaRange)
           f == [i \in 1 .. K |-> ChaChaKeyByte(i - 1)]
<1>1. K \in Nat /\ ChaChaBlock \in Nat /\ 0 \in Nat /\ 0 + K <= K
  BY ChaChaAssumption DEF PolyKeySize
<1>2. s.offset = 0 /\ s.keystreamBufferValid = FALSE /\ s.keystream = StaleBlock(ChaChaBlock)
  BY DEF ChaCha20InitState, ChaCha20SetOffset
<1>3. ChaChaKeyed = ChaCha20CryptState(s, z)
  BY DEF ChaChaKeyed
<1> HIDE DEF s, K
<1>4. ChaChaHolds(s) /\ s.keystreamBufferValid \in BOOLEAN
  <2>1. Text(StaleBlock(ChaChaBlock), ChaChaBlock)
    BY <1>1, StaleText, Zenon
  <2>2. ~s.keystreamBufferValid /\ s.keystreamBufferValid \in BOOLEAN
    BY <1>2, Zenon
  <2>3. s.offset \in Nat /\ Text(s.keystream, ChaChaBlock)
    BY <1>1, <1>2, <2>1
  <2> QED BY <2>2, <2>3, Zenon DEF ChaChaHolds
<1>5. Text(z, K) /\ \A i \in 1 .. K : z[i] = ZeroByte
  BY <1>1, TextZeroes, Zenon
<1> HIDE DEF z
<1>6. ChaChaRight(ChaCha20CryptState(s, z), z, s.offset, K)
  BY <1>4, <1>5, ChaChaCrypts, Zenon
<1>7. ChaChaKeyed.dst = e /\ ChaChaHolds(ChaChaKeyed.st) /\ DOMAIN ChaChaKeyed.st = ChaChaFields
  BY <1>2, <1>3, <1>6 DEF ChaChaRight
<1>8. EncBytes(z, 0, K, 0, 0, ChaChaBlock, ChaChaRange)
  BY <1>1, <1>5, EncIs, Zenon
<1>9. Text(e, K) /\ \A i \in 1 .. K : e[i] = XorByte(z[0 + i], StreamByte(0, 0 + 0 + i, ChaChaBlock, ChaChaRange))
  BY <1>8, Zenon DEF EncBytes
<1> HIDE DEF e
<1>10. ASSUME NEW i \in 1 .. K PROVE e[i] = f[i]
  <2>1. 0 + i = i /\ 0 + 0 + i = i /\ i \in Nat \ {0}
    BY <1>1
  <2>2. StreamByte(0, i, ChaChaBlock, ChaChaRange) = ChaChaKeyByte(i - 1)
    <3>1. ChaChaByteAt(i)
      BY <2>1, ChaChaByteIs, Zenon
    <3> QED BY <3>1 DEF ChaChaByteAt
  <2>3. e[i] = XorByte(ZeroByte, ChaChaKeyByte(i - 1))
    BY <1>5, <1>9, <2>1, <2>2
  <2> QED BY <2>3, XorZero
<1>11. Text(f, K)
  BY <1>1 DEF Text
<1> HIDE DEF f
<1>12. e = f
  BY <1>9, <1>10, <1>11, TextSame, Zenon
<1> QED BY <1>7, <1>12 DEF f, K

(* The data is encrypted from behind the block of the Poly1305 key.        *)
LEMMA ChaChaDataRight ==
  ASSUME NEW src, NEW k, Text(src, k)
  PROVE  ChaChaCryptData(src) = Enc(src, 0, k, 0, ChaChaBlock, ChaChaBlock, ChaChaRange)
<1> DEFINE t == ChaChaKeyed.st
           s == ChaCha20SetOffset(t, ChaChaBlock)
<1>1. ChaChaHolds(t) /\ DOMAIN t = ChaChaFields
  BY ChaChaKeyedRight, Zenon
<1>2. ChaChaCryptData(src) = ChaCha20CryptState(s, src).dst
  BY DEF ChaChaCryptData
<1> HIDE DEF t
<1>3. s.offset = ChaChaBlock /\ s.keystreamBufferValid = FALSE /\ s.keystream = t.keystream
  BY <1>1 DEF ChaCha20SetOffset, ChaChaFields
<1> HIDE DEF s
<1>4. ChaChaHolds(s) /\ s.keystreamBufferValid \in BOOLEAN
  BY <1>1, <1>3, ChaChaAssumption DEF ChaChaHolds
<1>5. ChaChaRight(ChaCha20CryptState(s, src), src, s.offset, k)
  BY <1>4, ChaChaCrypts, Zenon
<1> QED BY <1>2, <1>3, <1>5 DEF ChaChaRight

-----------------------------------------------------------------------------
(* Poly1305.  Texts of q rows of w bytes are the same if their rows are.   *)
LEMMA RowOf ==
  ASSUME NEW w \in Nat \ {0}, NEW q \in Nat, NEW i \in 1 .. q * w
  PROVE  \E j \in 0 .. q - 1, e \in 1 .. w : i = j * w + e
<1> DEFINE j == (i - 1) \div w
           r == (i - 1) % w
<1>1. i - 1 \in Nat /\ q * w \in Nat /\ i <= q * w
  OBVIOUS
<1>2. j \in Nat /\ r \in 0 .. w - 1 /\ i - 1 = j * w + r
  BY <1>1, Division, Zenon
<1> HIDE DEF j, r
<1>3. j < q
  <2> SUFFICES ASSUME j >= q PROVE FALSE
    BY <1>2
  <2> DEFINE d == j - q
  <2>1. d \in Nat /\ j = q + d
    BY <1>2
  <2> HIDE DEF d
  <2>2. j * w = q * w + d * w /\ d * w \in Nat
    BY <2>1
  <2> QED BY <1>1, <1>2, <2>2
<1>4. j \in 0 .. q - 1 /\ r + 1 \in 1 .. w /\ i = j * w + (r + 1)
  <2>1. j * w \in Nat
    BY <1>2
  <2> QED BY <1>1, <1>2, <1>3, <2>1
<1> QED BY <1>4, Zenon

(* Two texts of the same rows.                                             *)
LEMMA RowsSame ==
  ASSUME NEW w \in Nat \ {0}, NEW q \in Nat, NEW x, NEW y, Text(x, q * w), Text(y, q * w),
         \A j \in 0 .. q - 1 : \A e \in 1 .. w : x[j * w + e] = y[j * w + e]
  PROVE  x = y
<1>1. ASSUME NEW i \in 1 .. q * w PROVE x[i] = y[i]
  <2>1. PICK j \in 0 .. q - 1, e \in 1 .. w : i = j * w + e
    BY RowOf, Zenon
  <2> QED BY <2>1, Zenon
<1> QED BY <1>1, TextSame, Zenon

(* SymCryptPoly1305ProcessBlocks: block j and a 1 behind it.               *)
OnesRight(x, q) ==
  /\ Text(WithOnes(x), q * (PolyBlock + 1))
  /\ \A j \in 0 .. q - 1 : \A e \in 1 .. PolyBlock + 1 :
       WithOnes(x)[j * (PolyBlock + 1) + e] = IF e = PolyBlock + 1 THEN One ELSE x[j * PolyBlock + e]

LEMMA OnesIs ==
  ASSUME NEW q \in Nat, NEW x, Text(x, q * PolyBlock)
  PROVE  OnesRight(x, q)
<1> DEFINE P == PolyBlock
           w == P + 1
           y == WithOnes(x)
           f(i) == IF i % w = 0 THEN One ELSE x[i - (i \div w)]
<1>1. P \in Nat \ {0} /\ w \in Nat \ {0}
  BY ChaChaAssumption
<1>2. Len(x) = q * P
  BY TextLen, Zenon
<1> HIDE DEF P
<1>3. (q * P) \div P = q
  <2>1. q * P \in Nat /\ 0 \in 0 .. P - 1 /\ q * P = q * P + 0
    BY <1>1
  <2>2. DividesTo(q * P, P, q, 0)
    BY <1>1, <2>1, DivisionNamed, Zenon
  <2> QED BY <2>2, Zenon DEF DividesTo
<1>4. y = [i \in 1 .. q * w |-> f(i)]
  BY <1>2, <1>3 DEF WithOnes, P
<1>5. q * w \in Nat
  BY <1>1
<1> HIDE DEF y
<1>6. Text(y, q * w)
  BY <1>4, <1>5 DEF Text
<1>7. ASSUME NEW j \in 0 .. q - 1, NEW e \in 1 .. w
      PROVE  y[j * w + e] = IF e = w THEN One ELSE x[j * P + e]
  <2> DEFINE i == j * w + e
  <2>1. j * w \in Nat /\ j \in Nat /\ j * w = j * P + j /\ j * P \in Nat /\ w = P + 1
    BY <1>1
  <2>2. j * w + w <= q * w
    <3> DEFINE d == q - (j + 1)
    <3>1. d \in Nat /\ q = j + 1 + d
      BY <2>1
    <3> HIDE DEF d, w
    <3>2. q * w = j * w + w + d * w /\ d * w \in Nat
      BY <1>1, <2>1, <3>1
    <3> QED BY <1>1, <1>5, <2>1, <3>2
  <2> HIDE DEF w
  <2>3. i \in 1 .. q * w /\ i \in Nat
    BY <1>1, <1>5, <2>1, <2>2
  <2>4. y[i] = f(i)
    BY <1>4, <2>3
  <2>5. CASE e = w
    <3>1. i = (j + 1) * w + 0 /\ j + 1 \in Nat /\ 0 \in 0 .. w - 1
      BY <1>1, <2>1, <2>5
    <3> HIDE DEF i
    <3>2. DividesTo(i, w, j + 1, 0)
      BY <1>1, <2>3, <3>1, DivisionNamed, Zenon
    <3>3. i % w = 0
      BY <3>2, Zenon DEF DividesTo
    <3> QED BY <2>4, <2>5, <3>3 DEF i
  <2>6. CASE e # w
    <3>1. i = j * w + e /\ e \in 0 .. w - 1 /\ e # 0
      BY <1>1, <2>6
    <3> HIDE DEF i
    <3>2. DividesTo(i, w, j, e)
      BY <1>1, <2>1, <2>3, <3>1, DivisionNamed, Zenon
    <3>3. i % w = e /\ i \div w = j
      BY <3>2, Zenon DEF DividesTo
    <3>4. i - j = j * P + e
      BY <1>1, <2>1, <3>1
    <3>5. y[i] = x[i - (i \div w)]
      BY <2>4, <3>1, <3>3
    <3>6. y[i] = x[j * P + e]
      BY <3>3, <3>4, <3>5
    <3> QED BY <2>6, <3>6 DEF i
  <2> QED BY <2>5, <2>6
<1> QED BY <1>6, <1>7 DEF OnesRight, P, y

(* Blocks processed in two goes.                                           *)
LEMMA OnesJoin ==
  ASSUME NEW q \in Nat, NEW x, Text(x, q * PolyBlock), NEW p \in Nat, NEW y, Text(y, p * PolyBlock)
  PROVE  WithOnes(x \o y) = WithOnes(x) \o WithOnes(y)
<1> DEFINE P == PolyBlock
           w == P + 1
           X == WithOnes(x)
           Y == WithOnes(y)
           Z == WithOnes(x \o y)
<1>1. P \in Nat \ {0} /\ w \in Nat \ {0} /\ q + p \in Nat
  BY ChaChaAssumption
<1>2. OnesRight(x, q) /\ OnesRight(y, p)
  BY OnesIs, Zenon
<1>3. /\ Text(X, q * w) /\ \A j \in 0 .. q - 1 : \A e \in 1 .. w : X[j * w + e] = IF e = w THEN One ELSE x[j * P + e]
      /\ Text(Y, p * w) /\ \A j \in 0 .. p - 1 : \A e \in 1 .. w : Y[j * w + e] = IF e = w THEN One ELSE y[j * P + e]
  BY <1>2 DEF OnesRight
<1>4. TextJoined(x, y, q * P, p * P)
  BY TextJoin, Zenon
<1>5. /\ Text(x \o y, q * P + p * P) /\ \A i \in 1 .. q * P : (x \o y)[i] = x[i]
      /\ \A i \in 1 .. p * P : (x \o y)[q * P + i] = y[i]
  BY <1>4, Zenon DEF TextJoined
<1>6. q * P + p * P = (q + p) * P /\ q * w + p * w = (q + p) * w
  <2> HIDE DEF P, w
  <2> QED BY <1>1
<1>7. OnesRight(x \o y, q + p)
  <2>1. Text(x \o y, (q + p) * PolyBlock)
    BY <1>5, <1>6
  <2> QED BY <1>1, <2>1, OnesIs, Zenon
<1>8. /\ Text(Z, (q + p) * w)
      /\ \A j \in 0 .. (q + p) - 1 : \A e \in 1 .. w : Z[j * w + e] = IF e = w THEN One ELSE (x \o y)[j * P + e]
  BY <1>7 DEF OnesRight
<1> HIDE DEF X, Y, Z, P
<1>9. TextJoined(X, Y, q * w, p * w)
  BY <1>3, TextJoin, Zenon
<1>10. /\ Text(X \o Y, q * w + p * w) /\ \A i \in 1 .. q * w : (X \o Y)[i] = X[i]
       /\ \A i \in 1 .. p * w : (X \o Y)[q * w + i] = Y[i]
  BY <1>9, Zenon DEF TextJoined
<1>11. Text(X \o Y, (q + p) * w)
  BY <1>6, <1>10
<1>12. ASSUME NEW m \in Nat \ {0}, NEW n \in Nat, NEW j \in 0 .. n - 1, NEW e \in 1 .. m PROVE j * m + e \in 1 .. n * m
  <2> DEFINE d == n - (j + 1)
  <2>1. d \in Nat /\ n = j + 1 + d /\ j \in Nat
    OBVIOUS
  <2> HIDE DEF d
  <2>2. n * m = j * m + m + d * m /\ d * m \in Nat /\ j * m \in Nat
    BY <2>1
  <2> QED BY <2>1, <2>2
<1>13. ASSUME NEW j \in 0 .. (q + p) - 1, NEW e \in 1 .. w PROVE (X \o Y)[j * w + e] = Z[j * w + e]
  <2>1. Z[j * w + e] = IF e = w THEN One ELSE (x \o y)[j * P + e]
    BY <1>8
  <2>2. e # w => e \in 1 .. P
    BY <1>1
  <2> HIDE DEF w
  <2>3. CASE j < q
    <3>1. j \in 0 .. q - 1
      BY <2>3
    <3>2. j * w + e \in 1 .. q * w
      BY <1>1, <1>12, <3>1
    <3>3. (X \o Y)[j * w + e] = IF e = w THEN One ELSE x[j * P + e]
      BY <1>3, <1>10, <3>1, <3>2
    <3>4. e # w => j * P + e \in 1 .. q * P
      BY <1>1, <1>12, <2>2, <3>1
    <3>5. e # w => (x \o y)[j * P + e] = x[j * P + e]
      BY <1>5, <3>4
    <3> QED BY <2>1, <3>3, <3>5
  <2>4. CASE ~(j < q)
    <3> DEFINE g == j - q
    <3>1. g \in 0 .. p - 1 /\ j = q + g /\ g \in Nat
      BY <2>4
    <3> HIDE DEF g
    <3>2. j * w = q * w + g * w /\ j * P = q * P + g * P
      BY <1>1, <3>1
    <3>3. q * w \in Nat /\ g * w \in Nat /\ q * P \in Nat /\ g * P \in Nat
      BY <1>1, <3>1
    <3>4. j * w + e = q * w + (g * w + e) /\ j * P + e = q * P + (g * P + e)
      BY <3>2, <3>3
    <3>5. g * w + e \in 1 .. p * w
      BY <1>1, <1>12, <3>1
    <3>6. (X \o Y)[q * w + (g * w + e)] = Y[g * w + e]
      BY <1>10, <3>5, Zenon
    <3>7. Y[g * w + e] = IF e = w THEN One ELSE y[g * P + e]
      BY <1>3, <3>1
    <3>8. e # w => g * P + e \in 1 .. p * P
      BY <1>1, <1>12, <2>2, <3>1
    <3>9. e # w => (x \o y)[q * P + (g * P + e)] = y[g * P + e]
      BY <1>5, <3>8, Zenon
    <3> QED BY <2>1, <3>4, <3>6, <3>7, <3>9
  <2> QED BY <2>3, <2>4
<1>14. X \o Y = Z
  <2> HIDE DEF w
  <2> QED BY <1>1, <1>8, <1>11, <1>13, RowsSame, Zenon
<1> QED BY <1>14 DEF X, Y, Z

(* A Poly1305 state that has taken a text: whole blocks with a 1 behind    *)
(* each are in the accumulator, the rest waits.                            *)
PolyFields == {"a", "key", "buf", "bytesInBuffer"}

PolyTook(s, chain, text) ==
  /\ DOMAIN s = PolyFields /\ s.a = WithOnes(chain)
  /\ MacLaw(chain, s.buf, s.bytesInBuffer, text, PolyBlock)

PolyHas(s, text) == \E chain : PolyTook(s, chain, text)

(* The whole blocks of a MAC, counted.                                     *)
LEMMA WholeRows ==
  ASSUME NEW B \in Nat \ {0}, NEW n \in Nat, n % B = 0
  PROVE  \E q \in Nat : n = q * B
<1>1. n \div B \in Nat /\ n = (n \div B) * B + (n % B)
  BY Division, Zenon
<1>2. n = (n \div B) * B
  BY <1>1
<1> QED BY <1>1, <1>2

(* SymCryptPoly1305Append.                                                 *)
LEMMA PolyAppends ==
  ASSUME NEW s, NEW text, PolyHas(s, text), NEW data, NEW k, Text(data, k)
  PROVE  PolyHas(Poly1305AppendState(s, data), text \o data) /\ Poly1305AppendState(s, data).key = s.key
<1> DEFINE P == PolyBlock
           r == BlockAppend(s.buf, s.bytesInBuffer, data, P)
           t == Poly1305AppendState(s, data)
<1>1. P \in Nat \ {0}
  BY ChaChaAssumption
<1>2. PICK chain : PolyTook(s, chain, text)
  BY DEF PolyHas
<1>3. DOMAIN s = PolyFields /\ s.a = WithOnes(chain) /\ MacLaw(chain, s.buf, s.bytesInBuffer, text, P)
  BY <1>2, Zenon DEF PolyTook
<1>4. /\ t.a = s.a \o WithOnes(r.blocks) /\ t.buf = r.buffer /\ t.bytesInBuffer = r.count
      /\ t.key = s.key /\ DOMAIN t = PolyFields
  BY <1>3 DEF Poly1305AppendState, PolyFields
<1> HIDE DEF t
<1>5. /\ Text(chain, Len(chain)) /\ Len(chain) \in Nat /\ Len(chain) % P = 0
      /\ s.bytesInBuffer \in 0 .. P - 1 /\ Text(s.buf, P)
  BY <1>1, <1>3, MacParts, Zenon
<1>6. Appended(r, s.buf, s.bytesInBuffer, data, P)
  BY <1>1, <1>5, AppendIs, Zenon
<1> HIDE DEF r
<1>7. MacLaw(chain \o r.blocks, r.buffer, r.count, text \o data, P)
  BY <1>1, <1>3, <1>6, MacAppends, Zenon
<1>8. PICK m \in Nat : Text(r.blocks, m) /\ m % P = 0
  BY <1>6, Zenon DEF Appended
<1> HIDE DEF P
<1>9. PICK q \in Nat : Len(chain) = q * P
  BY <1>1, <1>5, WholeRows, Zenon
<1>10. PICK p \in Nat : m = p * P
  BY <1>1, <1>8, WholeRows, Zenon
<1>11. Text(chain, q * PolyBlock) /\ Text(r.blocks, p * PolyBlock)
  BY <1>5, <1>8, <1>9, <1>10 DEF P
<1>12. WithOnes(chain \o r.blocks) = WithOnes(chain) \o WithOnes(r.blocks)
  BY <1>11, OnesJoin, Zenon
<1>13. PolyTook(t, chain \o r.blocks, text \o data)
  BY <1>3, <1>4, <1>7, <1>12 DEF PolyTook, P
<1>14. PolyHas(t, text \o data)
  BY <1>13, Zenon DEF PolyHas
<1> QED BY <1>4, <1>14 DEF t

(* The blocks the standard has for a text: row j of them.                  *)
PolyRow(text, n, j, e) ==
  IF e <= SmallerOf(PolyBlock, n - j * PolyBlock) THEN text[j * PolyBlock + e]
  ELSE IF e = SmallerOf(PolyBlock, n - j * PolyBlock) + 1 THEN One ELSE ZeroByte

PolyRows(text, n, key, x) ==
  /\ Text(x, Begun(n, PolyBlock) * (PolyBlock + 1))
  /\ PolyReferenceTag(key, text) = Tag(x, key)
  /\ \A j \in 0 .. Begun(n, PolyBlock) - 1 : \A e \in 1 .. PolyBlock + 1 :
       x[j * (PolyBlock + 1) + e] = PolyRow(text, n, j, e)

LEMMA PolyRowsAre ==
  ASSUME NEW text, NEW n, Text(text, n), NEW key
  PROVE  \E x : PolyRows(text, n, key, x)
<1> DEFINE P == PolyBlock
           w == P + 1
           b == Begun(n, P)
           f(i) == LET from == ((i - 1) \div w) * P
                       j    == 1 + ((i - 1) % w)
                       m    == SmallerOf(P, n - from)
                   IN IF j <= m THEN text[from + j] ELSE IF j = m + 1 THEN One ELSE ZeroByte
           x == [i \in 1 .. b * w |-> f(i)]
<1>1. P \in Nat \ {0} /\ w \in Nat \ {0}
  BY ChaChaAssumption
<1>2. n \in Nat /\ Len(text) = n
  BY TextLen, Zenon
<1>3. PolyReferenceTag(key, text) = Tag(x, key)
  BY <1>2 DEF PolyReferenceTag, Begun
<1>4. b \in Nat
  <2>1. n \div P \in Nat /\ n % P \in 0 .. P - 1 /\ n = (n \div P) * P + (n % P)
    BY <1>1, <1>2, Division, Zenon
  <2>2. BegunTo(n, P, n \div P, n % P)
    BY <1>1, <2>1, BegunIs, Zenon
  <2> QED BY <2>1, <2>2 DEF BegunTo
<1>5. b * w \in Nat
  BY <1>1, <1>4
<1> HIDE DEF b
<1>6. Text(x, b * w)
  BY <1>5 DEF Text
<1>7. ASSUME NEW j \in 0 .. b - 1, NEW e \in 1 .. w PROVE x[j * w + e] = PolyRow(text, n, j, e)
  <2> DEFINE i == j * w + e
  <2> HIDE DEF w
  <2>1. j * w \in Nat /\ j \in Nat
    BY <1>1
  <2>2. j * w + w <= b * w
    <3> DEFINE d == b - (j + 1)
    <3>1. d \in Nat /\ b = j + 1 + d
      BY <1>4, <2>1
    <3> HIDE DEF d
    <3>2. b * w = j * w + w + d * w /\ d * w \in Nat
      BY <1>1, <2>1, <3>1
    <3> QED BY <1>1, <1>5, <2>1, <3>2
  <2>3. i \in 1 .. b * w /\ i - 1 \in Nat /\ i - 1 = j * w + (e - 1) /\ e - 1 \in 0 .. w - 1 /\ 1 + (e - 1) = e
    BY <1>1, <1>5, <2>1, <2>2
  <2> HIDE DEF i
  <2>4. DividesTo(i - 1, w, j, e - 1)
    BY <1>1, <2>1, <2>3, DivisionNamed, Zenon
  <2>5. (i - 1) \div w = j /\ (i - 1) % w = e - 1
    BY <2>4, Zenon DEF DividesTo
  <2>6. x[i] = f(i)
    BY <2>3
  <2>7. f(i) = PolyRow(text, n, j, e)
    BY <2>3, <2>5 DEF PolyRow
  <2> HIDE DEF x, f
  <2>8. x[i] = PolyRow(text, n, j, e)
    BY <2>6, <2>7
  <2> QED BY <2>8 DEF i
<1> HIDE DEF x
<1>8. PolyRows(text, n, key, x)
  BY <1>3, <1>6, <1>7 DEF PolyRows, b
<1> QED BY <1>8

(* The last, partial block of SymCryptPoly1305Result.                      *)
PolyLast(buf, c) == Slice(buf, 0, c) \o <<One>> \o Zeroes(PolyBlock - c - 1) \o <<ZeroByte>>

LEMMA PolyLastIs ==
  ASSUME NEW buf, Text(buf, PolyBlock), NEW c \in 1 .. PolyBlock - 1
  PROVE  /\ Text(PolyLast(buf, c), PolyBlock + 1)
         /\ \A e \in 1 .. PolyBlock + 1 :
              PolyLast(buf, c)[e] = IF e <= c THEN buf[e] ELSE IF e = c + 1 THEN One ELSE ZeroByte
<1> DEFINE P == PolyBlock
           S == Slice(buf, 0, c)
           O == <<One>>
           Z == Zeroes(P - c - 1)
           E == <<ZeroByte>>
           u == S \o O
           v == u \o Z
           y == v \o E
<1>1. P \in Nat /\ P >= 2 /\ c \in Nat /\ P - c - 1 \in Nat
  BY ChaChaAssumption
<1>2. Text(S, c) /\ \A i \in 1 .. c : S[i] = buf[i]
  <2>1. 0 \in Nat /\ 0 + c <= P
    BY <1>1
  <2>2. TextSliced(buf, 0, c)
    BY <1>1, <2>1, TextSlice, Zenon
  <2>3. Text(S, c) /\ \A i \in 1 .. c : S[i] = buf[0 + i]
    BY <2>2, Zenon DEF TextSliced
  <2>4. \A i \in 1 .. c : 0 + i = i
    OBVIOUS
  <2> HIDE DEF S
  <2> QED BY <2>3, <2>4
<1>3. Text(O, 1) /\ O[1] = One /\ Text(E, 1) /\ E[1] = ZeroByte
  BY DEF Text
<1>4. Text(Z, P - c - 1) /\ \A i \in 1 .. P - c - 1 : Z[i] = ZeroByte
  BY <1>1, TextZeroes, Zenon
<1> HIDE DEF S, O, Z, E, P
<1>5. /\ Text(u, c + 1) /\ \A i \in 1 .. c : u[i] = S[i]
      /\ \A i \in 1 .. 1 : u[c + i] = O[i]
  <2>1. TextJoined(S, O, c, 1)
    BY <1>2, <1>3, TextJoin, Zenon
  <2> QED BY <2>1, Zenon DEF TextJoined
<1> HIDE DEF u
<1>6. /\ Text(v, c + 1 + (P - c - 1)) /\ \A i \in 1 .. c + 1 : v[i] = u[i]
      /\ \A i \in 1 .. P - c - 1 : v[c + 1 + i] = Z[i]
  <2>1. TextJoined(u, Z, c + 1, P - c - 1)
    BY <1>4, <1>5, TextJoin, Zenon
  <2> QED BY <2>1, Zenon DEF TextJoined
<1>7. c + 1 + (P - c - 1) = P
  BY <1>1
<1> HIDE DEF v
<1>8. Text(v, P)
  BY <1>6, <1>7
<1>9. /\ Text(y, P + 1) /\ \A i \in 1 .. P : y[i] = v[i]
      /\ \A i \in 1 .. 1 : y[P + i] = E[i]
  <2>1. TextJoined(v, E, P, 1)
    BY <1>3, <1>8, TextJoin, Zenon
  <2> QED BY <2>1, Zenon DEF TextJoined
<1>10. PolyLast(buf, c) = y
  BY DEF PolyLast, y, v, u, S, O, Z, E, P
<1> HIDE DEF y
<1>11. ASSUME NEW e \in 1 .. P + 1
       PROVE  y[e] = IF e <= c THEN buf[e] ELSE IF e = c + 1 THEN One ELSE ZeroByte
  <2>1. c \in 1 .. P - 1
    BY DEF P
  <2>2. CASE e <= c
    <3>1. e \in 1 .. c /\ e \in 1 .. c + 1 /\ e \in 1 .. P
      BY <1>1, <2>1, <2>2
    <3> QED BY <1>2, <1>5, <1>6, <1>9, <2>2, <3>1
  <2>3. CASE e = c + 1
    <3>1. e \in 1 .. c + 1 /\ e \in 1 .. P /\ ~(e <= c)
      BY <1>1, <2>1, <2>3
    <3>2. u[c + 1] = O[1]
      BY <1>5
    <3> QED BY <1>3, <1>6, <1>9, <2>3, <3>1, <3>2
  <2>4. CASE e > c + 1 /\ e <= P
    <3> DEFINE i == e - (c + 1)
    <3>1. i \in 1 .. P - c - 1 /\ c + 1 + i = e /\ e \in 1 .. P
      BY <1>1, <2>1, <2>4
    <3> HIDE DEF i
    <3>2. v[c + 1 + i] = Z[i]
      BY <1>6, <3>1, Zenon
    <3>3. y[e] = ZeroByte
      BY <1>4, <1>9, <3>1, <3>2
    <3>4. ~(e <= c) /\ e # c + 1
      BY <1>1, <2>4
    <3> QED BY <3>3, <3>4
  <2>5. CASE e = P + 1
    <3>1. y[P + 1] = E[1]
      BY <1>9
    <3>2. ~(e <= c) /\ e # c + 1
      BY <1>1, <2>1, <2>5
    <3> QED BY <1>3, <2>5, <3>1, <3>2
  <2> QED BY <1>1, <2>1, <2>2, <2>3, <2>4, <2>5
<1> QED BY <1>9, <1>10, <1>11 DEF P

(* SymCryptPoly1305Result on a state that has taken a text.                *)
LEMMA PolyTagRight ==
  ASSUME NEW s, NEW text, PolyHas(s, text)
  PROVE  Poly1305Tag(s) = PolyReferenceTag(s.key, text)
<1> DEFINE P == PolyBlock
           w == P + 1
           c == s.bytesInBuffer
           last == IF c = 0 THEN <<>> ELSE PolyLast(s.buf, c)
<1>1. P \in Nat \ {0} /\ w \in Nat \ {0} /\ P >= 2
  BY ChaChaAssumption
<1>2. PICK chain : PolyTook(s, chain, text)
  BY DEF PolyHas
<1>3. s.a = WithOnes(chain) /\ MacLaw(chain, s.buf, c, text, P)
  BY <1>2, Zenon DEF PolyTook
<1>4. /\ Text(chain, Len(chain)) /\ Len(chain) \in Nat /\ Len(chain) % P = 0
      /\ c \in 0 .. P - 1 /\ c \in Nat /\ Text(s.buf, P) /\ Text(Slice(s.buf, 0, c), c)
      /\ chain \o Slice(s.buf, 0, c) = text /\ Text(text, Len(chain) + c)
  BY <1>1, <1>3, MacParts, Zenon
<1>5. Poly1305Tag(s) = Tag(s.a \o last, s.key)
  BY DEF Poly1305Tag, PolyLast
<1> HIDE DEF P
<1>6. PICK q \in Nat : Len(chain) = q * P
  BY <1>1, <1>4, WholeRows, Zenon
<1> DEFINE n == q * P + c
           R == s.a \o last
           b == Begun(n, P)
<1>7. Text(chain, q * P) /\ Text(text, n)
  BY <1>4, <1>6
<1>8. OnesRight(chain, q)
  BY <1>7, OnesIs, Zenon DEF P
<1>9. /\ Text(s.a, q * w)
      /\ \A j \in 0 .. q - 1 : \A e \in 1 .. w : s.a[j * w + e] = IF e = w THEN One ELSE chain[j * P + e]
  BY <1>3, <1>8 DEF OnesRight, P
<1>10. PICK x : PolyRows(text, n, s.key, x)
  BY <1>7, PolyRowsAre, Zenon
<1>11. /\ Text(x, b * w) /\ PolyReferenceTag(s.key, text) = Tag(x, s.key)
       /\ \A j \in 0 .. b - 1 : \A e \in 1 .. w : x[j * w + e] = PolyRow(text, n, j, e)
  BY <1>10 DEF PolyRows, P
<1>12. b = IF c = 0 THEN q ELSE q + 1
  <2>1. BegunTo(n, P, q, c)
    BY <1>1, <1>4, BegunIs, Zenon
  <2> QED BY <2>1, Zenon DEF BegunTo
<1> HIDE DEF c, b
<1>13. /\ \A i \in 1 .. q * P : text[i] = chain[i]
       /\ \A i \in 1 .. c : text[q * P + i] = Slice(s.buf, 0, c)[i]
  <2>1. TextJoined(chain, Slice(s.buf, 0, c), q * P, c)
    BY <1>4, <1>7, TextJoin, Zenon
  <2> QED BY <1>4, <2>1 DEF TextJoined
<1>14. q * P \in Nat /\ q * w \in Nat
  BY <1>1
<1>15. ASSUME NEW j \in 0 .. q - 1, NEW e \in 1 .. w
       PROVE  PolyRow(text, n, j, e) = s.a[j * w + e]
  <2>1. j * P \in Nat /\ j * P + P <= q * P
    <3> DEFINE d == q - (j + 1)
    <3>1. d \in Nat /\ q = j + 1 + d /\ j \in Nat
      OBVIOUS
    <3> HIDE DEF d
    <3>2. q * P = j * P + P + d * P /\ d * P \in Nat /\ j * P \in Nat
      BY <1>1, <3>1
    <3> QED BY <1>1, <3>2
  <2> DEFINE jP == j * P
             qP == q * P
  <2>2. jP \in Nat /\ jP + P <= qP /\ qP \in Nat /\ n = qP + c
    BY <1>14, <2>1
  <2> HIDE DEF jP, qP, n
  <2>3. SmallerOf(P, n - jP) = P
    BY <1>1, <1>4, <2>2 DEF SmallerOf
  <2>4. PolyRow(text, n, j, e) = IF e <= P THEN text[jP + e] ELSE IF e = P + 1 THEN One ELSE ZeroByte
    BY <2>3 DEF PolyRow, P, jP
  <2>5. s.a[j * w + e] = IF e = w THEN One ELSE chain[jP + e]
    BY <1>9 DEF jP
  <2>6. CASE e <= P
    <3>1. jP + e \in 1 .. qP /\ e # w
      BY <1>1, <2>2, <2>6
    <3>2. text[jP + e] = chain[jP + e]
      BY <1>13, <3>1 DEF qP
    <3> QED BY <2>4, <2>5, <2>6, <3>1, <3>2
  <2>7. CASE ~(e <= P)
    <3>1. e = w
      BY <1>1, <2>7
    <3> QED BY <2>4, <2>5, <2>7, <3>1
  <2> QED BY <2>6, <2>7
<1>16. CASE c = 0
  <2>1. R = s.a
    <3>1. s.a \o <<>> = s.a
      BY <1>9, TextAndEmpty, Zenon
    <3> QED BY <1>16, <3>1
  <2>2. b = q
    BY <1>12, <1>16
  <2> HIDE DEF n, w, R
  <2>3. \A j \in 0 .. q - 1 : \A e \in 1 .. w : s.a[j * w + e] = x[j * w + e]
    BY <1>11, <1>15, <2>2
  <2>4. Text(x, q * w)
    BY <1>11, <2>2
  <2>5. s.a = x
    BY <1>1, <1>9, <2>3, <2>4, RowsSame, Zenon
  <2> QED BY <1>5, <1>11, <2>1, <2>5 DEF R
<1>17. CASE c # 0
  <2> DEFINE L == PolyLast(s.buf, c)
  <2>1. R = s.a \o L /\ b = q + 1
    BY <1>12, <1>17
  <2>2. c \in 1 .. P - 1 /\ c \in Nat
    BY <1>1, <1>4, <1>17
  <2>3. /\ Text(L, w)
        /\ \A e \in 1 .. w : L[e] = IF e <= c THEN s.buf[e] ELSE IF e = c + 1 THEN One ELSE ZeroByte
    <3>1. Text(s.buf, PolyBlock) /\ c \in 1 .. PolyBlock - 1
      BY <1>4, <2>2 DEF P
    <3> QED BY <3>1, PolyLastIs DEF P
  <2> HIDE DEF L, R
  <2>4. TextJoined(s.a, L, q * w, w)
    <3> HIDE DEF w
    <3> QED BY <1>9, <2>3, TextJoin, Zenon
  <2>5. /\ Text(s.a \o L, q * w + w) /\ \A i \in 1 .. q * w : (s.a \o L)[i] = s.a[i]
        /\ \A i \in 1 .. w : (s.a \o L)[q * w + i] = L[i]
    BY <2>4, Zenon DEF TextJoined
  <2>6. q * w + w = (q + 1) * w /\ q + 1 \in Nat
    <3> HIDE DEF w
    <3> QED BY <1>1
  <2>7. Text(R, (q + 1) * w) /\ Text(x, (q + 1) * w)
    BY <1>11, <2>1, <2>5, <2>6
  <2>8. \A i \in 1 .. c : text[q * P + i] = s.buf[i]
    <3>1. 0 \in Nat /\ 0 + c <= P
      BY <1>1, <2>2
    <3>2. TextSliced(s.buf, 0, c)
      BY <1>4, <2>2, <3>1, TextSlice, Zenon
    <3>3. \A i \in 1 .. c : Slice(s.buf, 0, c)[i] = s.buf[0 + i]
      BY <3>2, Zenon DEF TextSliced
    <3>4. \A i \in 1 .. c : 0 + i = i
      BY <2>2
    <3> QED BY <1>13, <3>3, <3>4
  <2>9. ASSUME NEW j \in 0 .. (q + 1) - 1, NEW e \in 1 .. w PROVE R[j * w + e] = x[j * w + e]
    <3>1. x[j * w + e] = PolyRow(text, n, j, e)
      <4>1. j \in 0 .. b - 1
        BY <2>1
      <4> QED BY <1>11, <4>1
    <3>2. CASE j < q
      <4>1. j \in 0 .. q - 1
        BY <3>2
      <4>2. PolyRow(text, n, j, e) = s.a[j * w + e]
        BY <1>15, <4>1
      <4>3. j * w + e \in 1 .. q * w
        <5> HIDE DEF w
        <5> DEFINE d == q - (j + 1)
        <5>1. d \in Nat /\ q = j + 1 + d /\ j \in Nat
          BY <4>1
        <5> HIDE DEF d
        <5>2. q * w = j * w + w + d * w /\ d * w \in Nat /\ j * w \in Nat
          BY <1>1, <5>1
        <5> QED BY <1>1, <5>2
      <4> HIDE DEF w, n
      <4>4. R[j * w + e] = s.a[j * w + e]
        BY <2>1, <2>5, <4>3
      <4> QED BY <3>1, <4>2, <4>4
    <3>3. CASE ~(j < q)
      <4>1. j = q
        BY <3>3
      <4>2. R[q * w + e] = L[e]
        BY <2>1, <2>5
      <4> DEFINE qP == q * P
      <4>3. qP \in Nat /\ n = qP + c
        BY <1>14
      <4> HIDE DEF qP, n
      <4>4. SmallerOf(P, n - qP) = c
        BY <1>1, <2>2, <4>3 DEF SmallerOf
      <4>5. PolyRow(text, n, q, e) = IF e <= c THEN text[qP + e] ELSE IF e = c + 1 THEN One ELSE ZeroByte
        BY <4>4 DEF PolyRow, P, qP
      <4>6. e <= c => text[qP + e] = s.buf[e]
        <5>1. e <= c => e \in 1 .. c
          BY <2>2
        <5> QED BY <2>8, <5>1 DEF qP
      <4>7. L[e] = IF e <= c THEN s.buf[e] ELSE IF e = c + 1 THEN One ELSE ZeroByte
        BY <2>3
      <4> QED BY <3>1, <4>1, <4>2, <4>5, <4>6, <4>7
    <3> QED BY <3>2, <3>3
  <2>10. R = x
    <3> HIDE DEF w, n
    <3> QED BY <1>1, <2>6, <2>7, <2>9, RowsSame, Zenon
  <2> QED BY <1>5, <1>11, <2>10 DEF R
<1> QED BY <1>16, <1>17

(* Data and the zeroes behind it, onto whole blocks.                       *)
LEMMA PolyAppendsPadded ==
  ASSUME NEW s, NEW text, PolyHas(s, text), NEW data, NEW k, Text(data, k), NEW m, Text(text, m)
  PROVE  /\ PolyHas(PolyAppendPadded(s, data), text \o PadToBlock(data, PolyBlock))
         /\ PolyAppendPadded(s, data).key = s.key
<1> DEFINE P == PolyBlock
           r == k % P
           A == Poly1305AppendState(s, data)
           t == PolyAppendPadded(s, data)
           p == PadToBlock(data, P)
           Z == Zeroes(P - r)
<1>1. P \in Nat \ {0}
  BY ChaChaAssumption
<1>2. k \in Nat /\ Len(data) = k
  BY TextLen, Zenon
<1>3. r \in 0 .. P - 1
  BY <1>1, <1>2, Division, Zenon
<1>4. t = IF k = 0 THEN s ELSE IF r = 0 THEN A ELSE Poly1305AppendState(A, Z)
  BY <1>2 DEF PolyAppendPadded
<1>5. PolyHas(A, text \o data) /\ A.key = s.key
  BY PolyAppends, Zenon
<1>6. r = 0 => p = data
  <2> HIDE DEF P
  <2> QED BY <1>1, PadWhole, Zenon
<1> HIDE DEF t, A
<1>7. CASE k = 0
  <2>1. data = <<>>
    BY <1>7, TextEmpty, Zenon
  <2>2. r = 0
    BY <1>1, <1>7
  <2>3. text \o <<>> = text
    BY TextAndEmpty, Zenon
  <2> HIDE DEF p
  <2>4. text \o p = text
    BY <1>6, <2>1, <2>2, <2>3
  <2> QED BY <1>4, <1>7, <2>4 DEF t, p
<1>8. CASE k # 0 /\ r = 0
  <2> HIDE DEF p
  <2> QED BY <1>4, <1>5, <1>6, <1>8 DEF t, p
<1>9. CASE k # 0 /\ r # 0
  <2>1. P - r \in Nat
    BY <1>1, <1>3
  <2>2. Text(Z, P - r)
    BY <2>1, TextZeroes, Zenon
  <2> HIDE DEF Z
  <2>3. PolyHas(Poly1305AppendState(A, Z), (text \o data) \o Z) /\ Poly1305AppendState(A, Z).key = A.key
    BY <1>5, <2>2, PolyAppends, Zenon
  <2>4. Regroups(text, data, Z)
    BY <2>2, TextRegroup, Zenon
  <2>5. (text \o data) \o Z = text \o (data \o Z)
    BY <2>4, Zenon DEF Regroups
  <2>6. p = data \o Z
    <3>1. p = data \o Zeroes(PadZ(k, P))
      <4> HIDE DEF P
      <4> QED BY <1>1, PadIs, Zenon
    <3>2. k % P # 0 => PadZ(k, P) = P - (k % P)
      <4> HIDE DEF P
      <4> QED BY <1>1, <1>2, PadSize, Zenon
    <3>3. PadZ(k, P) = P - r
      BY <1>9, <3>2
    <3> HIDE DEF p, P
    <3> QED BY <3>1, <3>3 DEF Z
  <2> HIDE DEF p
  <2>7. t = Poly1305AppendState(A, Z)
    BY <1>4, <1>9
  <2>8. PolyHas(t, text \o p) /\ t.key = s.key
    BY <1>5, <2>3, <2>5, <2>6, <2>7
  <2> QED BY <2>8 DEF t, p
<1> QED BY <1>7, <1>8, <1>9

(* A new Poly1305 state has taken nothing.                                 *)
LEMMA PolyStarts ==
  ASSUME NEW s, DOMAIN s = PolyFields, s.a = <<>>, s.bytesInBuffer = 0, Text(s.buf, PolyBlock)
  PROVE  PolyHas(s, <<>>)
<1>1. PolyBlock \in Nat \ {0} /\ 0 % PolyBlock = 0
  BY ChaChaAssumption
<1>2. MacLaw(<<>>, s.buf, 0, <<>>, PolyBlock)
  BY <1>1, TextEmpty, MacNothing, Zenon
<1>3. WithOnes(<<>>) = <<>>
  <2>1. 0 \in Nat /\ 0 * PolyBlock = 0 /\ 0 * (PolyBlock + 1) = 0
    BY <1>1
  <2>2. Text(<<>>, 0 * PolyBlock)
    BY <2>1, TextEmpty
  <2>3. OnesRight(<<>>, 0)
    BY <2>1, <2>2, OnesIs, Zenon
  <2>4. Text(WithOnes(<<>>), 0)
    BY <2>1, <2>3 DEF OnesRight
  <2> QED BY <2>4, TextEmpty, Zenon
<1>4. PolyTook(s, <<>>, <<>>)
  BY <1>2, <1>3 DEF PolyTook
<1> QED BY <1>4, Zenon DEF PolyHas

(* The two lengths at the end fill one block.                              *)
LEMMA PolyLengthsText ==
  ASSUME NEW a, NEW b
  PROVE  Text(PolyLengths(a, b), PolyBlock)
<1> DEFINE h == <<Atom("length", a, 0), Atom("length", b, 0)>>
           Z == Zeroes(PolyBlock - 2)
<1>1. PolyBlock - 2 \in Nat /\ PolyBlock \in Nat
  BY ChaChaAssumption
<1>2. Text(h, 2)
  BY DEF Text
<1>3. Text(Z, PolyBlock - 2)
  BY <1>1, TextZeroes, Zenon
<1> HIDE DEF h, Z
<1>4. TextJoined(h, Z, 2, PolyBlock - 2)
  BY <1>2, <1>3, TextJoin, Zenon
<1>5. Text(h \o Z, 2 + (PolyBlock - 2))
  BY <1>4, Zenon DEF TextJoined
<1>6. 2 + (PolyBlock - 2) = PolyBlock
  BY <1>1
<1> QED BY <1>5, <1>6 DEF h, Z, PolyLengths

(* SymCryptChaCha20Poly1305ComputeTag.                                     *)
LEMMA ChaChaTagRight ==
  ASSUME NEW key, NEW au, NEW A, Text(au, A), NEW ci, NEW k, Text(ci, k)
  PROVE  ChaChaComputeTag(key, au, ci)
           = PolyReferenceTag(key, PadToBlock(au, PolyBlock) \o PadToBlock(ci, PolyBlock)
                                     \o PolyLengths(Len(au), Len(ci)))
<1> DEFINE P == PolyBlock
           s == Poly1305InitState(key)
           t == PolyAppendPadded(s, au)
           u == PolyAppendPadded(t, ci)
           L == PolyLengths(Len(au), Len(ci))
           v == Poly1305AppendState(u, L)
           pa == PadToBlock(au, P)
           pc == PadToBlock(ci, P)
<1>1. P \in Nat \ {0}
  BY ChaChaAssumption
<1>2. s.key = key /\ DOMAIN s = PolyFields /\ s.a = <<>> /\ s.bytesInBuffer = 0 /\ s.buf = StaleBlock(P)
  BY DEF Poly1305InitState, PolyFields
<1>3. ChaChaComputeTag(key, au, ci) = Poly1305Tag(v)
  BY DEF ChaChaComputeTag
<1> HIDE DEF s
<1>4. Text(s.buf, PolyBlock)
  <2>1. P \in Nat
    BY <1>1
  <2>2. Text(StaleBlock(P), P)
    BY <2>1, StaleText, Zenon
  <2> QED BY <1>2, <2>2
<1>5. PolyHas(s, <<>>)
  BY <1>2, <1>4, PolyStarts, Zenon
<1>6. Text(pa, A + PadZ(A, P)) /\ Text(pc, k + PadZ(k, P))
  <2> HIDE DEF P
  <2> QED BY <1>1, PadIs, Zenon
<1>7. PolyHas(t, <<>> \o pa) /\ t.key = s.key
  BY <1>5, TextEmpty, PolyAppendsPadded, Zenon
<1> HIDE DEF t
<1>8. <<>> \o pa = pa
  <2> HIDE DEF pa
  <2> QED BY <1>6, TextAndEmpty, Zenon
<1>9. PolyHas(t, pa)
  BY <1>7, <1>8
<1>10. PolyHas(u, pa \o pc) /\ u.key = t.key
  BY <1>6, <1>9, PolyAppendsPadded, Zenon
<1> HIDE DEF u
<1>11. Text(L, PolyBlock)
  BY PolyLengthsText, Zenon
<1>12. PolyHas(v, (pa \o pc) \o L) /\ v.key = u.key
  <2> HIDE DEF L, pa, pc
  <2> QED BY <1>10, <1>11, PolyAppends, Zenon
<1> HIDE DEF v
<1>13. Poly1305Tag(v) = PolyReferenceTag(v.key, (pa \o pc) \o L)
  <2> HIDE DEF L, pa, pc
  <2> QED BY <1>12, PolyTagRight, Zenon
<1>14. v.key = key
  BY <1>2, <1>7, <1>10, <1>12
<1> QED BY <1>3, <1>13, <1>14 DEF pa, pc, L

(* SymCryptChaCha20Poly1305Encrypt and ...Decrypt.                         *)
ChaChaOneShotIs(r, au, src, k, d) ==
  /\ r.dst = Enc(src, 0, k, 0, ChaChaBlock, ChaChaBlock, ChaChaRange)
  /\ r.tag = ChaChaReferenceTag(au, MacInput(r.dst, src, d))

LEMMA ChaChaOneShotRight ==
  ASSUME NEW au, NEW A, Text(au, A), NEW src, NEW k, Text(src, k), NEW d
  PROVE  ChaChaOneShotIs(ChaChaOneShot(au, src, d), au, src, k, d)
<1> DEFINE r == ChaChaOneShot(au, src, d)
           dst == Enc(src, 0, k, 0, ChaChaBlock, ChaChaBlock, ChaChaRange)
           m == MacInput(dst, src, d)
           key == ChaChaKeyed.dst
<1>1. ChaChaCryptData(src) = dst
  BY ChaChaDataRight, Zenon
<1>2. key = [i \in 1 .. PolyKeySize |-> ChaChaKeyByte(i - 1)]
  BY ChaChaKeyedRight, Zenon
<1> HIDE DEF dst, key
<1>3. r.dst = dst /\ r.tag = ChaChaComputeTag(key, au, m)
  BY <1>1 DEF ChaChaOneShot, MacInput, key
<1>4. Text(m, k)
  <2>1. k \in Nat
    BY TextLen, Zenon
  <2>2. 0 \in Nat /\ 0 + k <= k /\ ChaChaBlock \in Nat
    BY <2>1, ChaChaAssumption
  <2>3. EncBytes(src, 0, k, 0, ChaChaBlock, ChaChaBlock, ChaChaRange)
    BY <2>1, <2>2, EncIs, Zenon
  <2>4. Text(dst, k)
    BY <2>3 DEF EncBytes, dst
  <2> QED BY <2>4 DEF MacInput
<1> HIDE DEF m, r
<1>5. ChaChaComputeTag(key, au, m)
        = PolyReferenceTag(key, PadToBlock(au, PolyBlock) \o PadToBlock(m, PolyBlock) \o PolyLengths(Len(au), Len(m)))
  BY <1>4, ChaChaTagRight
<1>6. r.tag = ChaChaReferenceTag(au, m)
  BY <1>2, <1>3, <1>5 DEF ChaChaReferenceTag
<1>7. ChaChaOneShotIs(r, au, src, k, d)
  BY <1>3, <1>6 DEF ChaChaOneShotIs, m, dst
<1> QED BY <1>7 DEF r

-----------------------------------------------------------------------------
(* The invariant as a relation between the parts of a state, so that what  *)
(* a call does can be reasoned about without primes.                       *)
TypeOf(a, ph, di, c, os, ge) ==
  /\ a \in Algorithms /\ ph \in {"idle", "auth", "data", "done"} /\ di \in Directions /\ c \in Calls
  /\ os \in BOOLEAN /\ ge \in BOOLEAN /\ (ph \in {"auth", "data"} => ~os)

CipherOf(c, di, o) == IF di = "encrypt" THEN o ELSE DataBytes(0, c.data)
PlainOf(c, di, o) == IF di = "encrypt" THEN DataBytes(0, c.data) ELSE o

GcmTextOf(ph, c, di, o) ==
  IF ph = "auth" THEN AuthBytes(0, c.auth) ELSE PadToBlock(AuthBytes(0, c.auth), BlockSize) \o CipherOf(c, di, o)

GcmLawOf(s, ph, c, di, o) ==
  /\ DOMAIN s = DOMAIN GcmWiped /\ Text(s.macBlock, BlockSize) /\ Text(s.keystreamBlock, BlockSize)
  /\ ph \in {"auth", "data"} =>
       /\ s.cbData = c.data /\ s.cbAuthData = c.auth /\ c.data <= GcmMaxDataSize /\ (ph = "auth" => c.data = 0)
       /\ CtrLaw(s.keystreamBlock, s.counter, FirstCounter(c.nonce), c.data, BlockSize, GcmSpace)
       /\ GcmHas(s, GcmTextOf(ph, c, di, o))

CcmLawOf(s, ph, c, di, o) ==
  ph \in {"auth", "data"} =>
    /\ ph = "data" /\ s.bytesProcessed = c.data
    /\ s.cbData \in Nat /\ CcmValidData(s.cbData) /\ c.data <= s.cbData
    /\ CtrLaw(s.keystreamBlock, s.counter, c.nonce * CcmCounterRange + 1, c.data, BlockSize, CcmSpace)
    /\ CcmHas(s, CcmHead(c.nonce, AuthBytes(0, c.auth), s.cbData) \o PlainOf(c, di, o))

ChaChaLawOf(s, ph, c) ==
  /\ DOMAIN s = ChaChaFields /\ Text(s.keystream, ChaChaBlock)
  /\ ph \in {"auth", "data"} =>
       ph = "data" /\ s.offset = c.from + c.data /\ s.keystreamBufferValid \in BOOLEAN /\ ChaChaHolds(s)

PolyLawOf(s, ph, di, c) ==
  /\ DOMAIN s = PolyFields /\ Text(s.buf, PolyBlock)
  /\ ph \in {"auth", "data"} =>
       ph = "data" /\ di = "encrypt" /\ s.key = PolyKey /\ PolyHas(s, DataBytes(0, c.data))

RefOf(a, ph, di, c, os, ge, o, tg, ss) ==
  /\ (os /\ ss # "NO_ERROR") => \A i \in DOMAIN o : \A atom \in o[i] : atom[1] # "data"
  /\ (a # "poly1305" /\ (ss \in {"none", "NO_ERROR"} \/ ~os)) => o = ReferenceOut(a, c)
  /\ (ph = "done" /\ ss # "WRONG_DATA_SIZE") =>
       IF di = "encrypt" THEN tg = ReferenceTag(a, c, di) ELSE ge <=> (ss = "NO_ERROR")

Good(a, s, ph, di, c, os, ge, o, tg, ss) ==
  /\ TypeOf(a, ph, di, c, os, ge) /\ RefOf(a, ph, di, c, os, ge, o, tg, ss)
  /\ a = "gcm" => GcmLawOf(s, ph, c, di, o)
  /\ a = "ccm" => CcmLawOf(s, ph, c, di, o)
  /\ a = "chacha20" => ChaChaLawOf(s, ph, c)
  /\ a = "poly1305" => PolyLawOf(s, ph, di, c)

(* The fields of the states of ChaCha20 and Poly1305.                      *)
LEMMA StateFields ==
  DOMAIN ChaCha20InitState(0) = ChaChaFields /\ DOMAIN Poly1305InitState(PolyKey) = PolyFields
  BY DEF ChaCha20InitState, ChaCha20SetOffset, ChaChaFields, Poly1305InitState, PolyFields

(* The texts of the message from its start.                                *)
LEMMA WholeTexts ==
  ASSUME NEW n \in Nat
  PROVE  Text(AuthBytes(0, n), n) /\ Text(DataBytes(0, n), n) /\ Len(AuthBytes(0, n)) = n
<1>1. 0 \in Nat /\ 0 <= n /\ n - 0 = n
  OBVIOUS
<1>2. Text(AuthBytes(0, n), n - 0) /\ Text(DataBytes(0, n), n - 0)
  BY <1>1, MessageTexts, Zenon
<1>3. Text(AuthBytes(0, n), n) /\ Text(DataBytes(0, n), n)
  BY <1>1, <1>2
<1> QED BY <1>3, TextLen, Zenon

(* The first whole blocks of a message are what a MAC has processed.       *)
LEMMA PolyChain ==
  ASSUME NEW n \in Nat, NEW chain, NEW buf, NEW c, MacLaw(chain, buf, c, DataBytes(0, n), PolyBlock)
  PROVE  chain = DataBytes(0, RoundDown(n, PolyBlock))
<1> DEFINE P == PolyBlock
           d == DataBytes(0, n)
           C == Len(chain)
           t == Slice(buf, 0, c)
           m == RoundDown(n, P)
<1>1. P \in Nat \ {0}
  BY ChaChaAssumption
<1>2. /\ Text(chain, C) /\ C \in Nat /\ c \in 0 .. P - 1 /\ c \in Nat /\ Text(t, c)
      /\ chain \o t = d /\ Text(d, C + c)
  BY <1>1, MacParts, Zenon
<1>3. Text(d, n)
  BY WholeTexts, Zenon
<1>4. n = C + c
  <2> HIDE DEF d, C
  <2>1. Len(d) = n /\ Len(d) = C + c
    BY <1>2, <1>3, TextLen, Zenon
  <2> QED BY <2>1
<1>5. c = n % P
  <2>1. MacWaits(c, n, P)
    BY <1>1, <1>3, MacCount, Zenon
  <2> QED BY <2>1, Zenon DEF MacWaits
<1>6. m = C
  <2> HIDE DEF C
  <2>1. m = n - c
    BY <1>5 DEF RoundDown
  <2> HIDE DEF m
  <2> QED BY <1>2, <1>4, <2>1
<1>7. \A i \in 1 .. C : d[i] = chain[i]
  <2>1. TextJoined(chain, t, C, c)
    BY <1>2, TextJoin, Zenon
  <2> QED BY <1>2, <2>1 DEF TextJoined
<1>8. Text(DataBytes(0, C), C)
  BY <1>2, WholeTexts, Zenon
<1>9. ASSUME NEW i \in 1 .. C PROVE chain[i] = DataBytes(0, C)[i]
  <2> HIDE DEF C
  <2>1. i \in 1 .. n - 0 /\ i \in 1 .. C - 0
    BY <1>2, <1>4
  <2>2. d[i] = Atom("data", 0 + i, 0) /\ DataBytes(0, C)[i] = Atom("data", 0 + i, 0)
    BY <2>1 DEF DataBytes
  <2> QED BY <1>7, <2>2
<1>10. chain = DataBytes(0, C)
  <2> HIDE DEF C
  <2> QED BY <1>2, <1>8, <1>9, TextSame, Zenon
<1> QED BY <1>6, <1>10

(* Poly1305's law says that its state has taken the data.                  *)
LEMMA PolyTakenIs ==
  ASSUME NEW s, NEW n \in Nat, DOMAIN s = PolyFields
  PROVE  (LET taken == DataBytes(0, RoundDown(n, PolyBlock))
          IN s.a = WithOnes(taken) /\ MacLaw(taken, s.buf, s.bytesInBuffer, DataBytes(0, n), PolyBlock))
         <=> PolyHas(s, DataBytes(0, n))
<1> DEFINE taken == DataBytes(0, RoundDown(n, PolyBlock))
           text == DataBytes(0, n)
<1>1. ASSUME s.a = WithOnes(taken), MacLaw(taken, s.buf, s.bytesInBuffer, text, PolyBlock) PROVE PolyHas(s, text)
  <2> HIDE DEF taken, text
  <2>1. PolyTook(s, taken, text)
    BY <1>1 DEF PolyTook
  <2> QED BY <2>1, Zenon DEF PolyHas
<1>2. ASSUME PolyHas(s, text) PROVE s.a = WithOnes(taken) /\ MacLaw(taken, s.buf, s.bytesInBuffer, text, PolyBlock)
  <2>1. PICK chain : PolyTook(s, chain, text)
    BY <1>2, Zenon DEF PolyHas
  <2>2. s.a = WithOnes(chain) /\ MacLaw(chain, s.buf, s.bytesInBuffer, text, PolyBlock)
    BY <2>1, Zenon DEF PolyTook
  <2>3. chain = taken
    BY <2>2, PolyChain, Zenon
  <2> HIDE DEF taken, text
  <2> QED BY <2>2, <2>3
<1> QED BY <1>1, <1>2, Zenon

(* The laws of a state are the relations of its parts.                     *)
LEMMA GcmLawIs == GcmLaw <=> GcmLawOf(st, phase, call, dir, out)
<1>1. GcmText = GcmTextOf(phase, call, dir, out)
  BY DEF GcmText, GcmTextOf, CipherText, CipherOf
<1> QED BY <1>1, Zenon DEF GcmLaw, GcmLawOf, GcmHas, Busy

(* CCM, whose text has the length of the associated data in front.         *)
LEMMA CcmLawIs ==
  ASSUME call \in Calls
  PROVE  CcmLaw <=> CcmLawOf(st, phase, call, dir, out)
<1>1. call.auth \in Nat
  BY DEF Calls
<1>2. Len(AuthBytes(0, call.auth)) = call.auth
  BY <1>1, WholeTexts, Zenon
<1>3. CcmText = CcmHead(call.nonce, AuthBytes(0, call.auth), st.cbData) \o PlainOf(call, dir, out)
  BY <1>2 DEF CcmText, CcmHead, PlainText, PlainOf
<1> QED BY <1>3, Zenon DEF CcmLaw, CcmLawOf, CcmHas, ZeroBehind, Busy

(* ChaCha20.                                                               *)
LEMMA ChaChaLawIs ==
  ASSUME call \in Calls
  PROVE  ChaChaLaw <=> ChaChaLawOf(st, phase, call)
<1>1. call.from + call.data \in Nat
  BY DEF Calls
<1>2. ASSUME NEW o, o = call.from + call.data PROVE o \in Nat
  BY <1>1, <1>2
<1> QED BY <1>2, StateFields, Zenon DEF ChaChaLaw, ChaChaLawOf, ChaChaHolds, Busy

(* Poly1305.                                                               *)
LEMMA PolyLawIs ==
  ASSUME call \in Calls
  PROVE  PolyLaw <=> PolyLawOf(st, phase, dir, call)
<1>1. call.data \in Nat
  BY DEF Calls
<1> DEFINE L == LET taken == DataBytes(0, RoundDown(call.data, PolyBlock))
                IN /\ st.a = WithOnes(taken)
                   /\ MacLaw(taken, st.buf, st.bytesInBuffer, DataBytes(0, call.data), PolyBlock)
<1>2. DOMAIN st = PolyFields => (L <=> PolyHas(st, DataBytes(0, call.data)))
  BY <1>1, PolyTakenIs, Zenon
<1>3. PolyLaw <=>
        /\ DOMAIN st = PolyFields /\ Text(st.buf, PolyBlock)
        /\ phase \in {"auth", "data"} => phase = "data" /\ dir = "encrypt" /\ st.key = PolyKey /\ L
  BY StateFields, Zenon DEF PolyLaw, Busy
<1> HIDE DEF L
<1> QED BY <1>2, <1>3, Zenon DEF PolyLawOf

(* And the invariant is their conjunction.                                 *)
LEMMA InvIs == AeadInv <=> Good(alg, st, phase, dir, call, oneShot, genuine, out, tag, status)
<1>1. AeadTypeOK <=> TypeOf(alg, phase, dir, call, oneShot, genuine)
  BY Zenon DEF AeadTypeOK, TypeOf, Calls, Busy
<1>2. AeadIsReference <=> RefOf(alg, phase, dir, call, oneShot, genuine, out, tag, status)
  BY Zenon DEF AeadIsReference, RefOf, RefusedIsWiped, Accepted
<1>3. TypeOf(alg, phase, dir, call, oneShot, genuine) => call \in Calls
  BY Zenon DEF TypeOf
<1>4. /\ GcmLaw <=> GcmLawOf(st, phase, call, dir, out)
      /\ call \in Calls => (CcmLaw <=> CcmLawOf(st, phase, call, dir, out))
      /\ call \in Calls => (ChaChaLaw <=> ChaChaLawOf(st, phase, call))
      /\ call \in Calls => (PolyLaw <=> PolyLawOf(st, phase, dir, call))
  BY GcmLawIs, CcmLawIs, ChaChaLawIs, PolyLawIs, Zenon
<1> QED BY <1>1, <1>2, <1>3, <1>4, Zenon DEF AeadInv, Good

(* The laws of a state are the relations of its parts, after a step.       *)
LEMMA NewGcmLawIs == GcmLaw' <=> GcmLawOf(st', phase', call', dir', out')
<1>1. GcmText' = GcmTextOf(phase', call', dir', out')
  BY DEF GcmText, GcmTextOf, CipherText, CipherOf
<1> QED BY <1>1, Zenon DEF GcmLaw, GcmLawOf, GcmHas, Busy

(* CCM, whose text has the length of the associated data in front.         *)
LEMMA NewCcmLawIs ==
  ASSUME call' \in Calls
  PROVE  CcmLaw' <=> CcmLawOf(st', phase', call', dir', out')
<1>1. call'.auth \in Nat
  BY DEF Calls
<1>2. Len(AuthBytes(0, call'.auth)) = call'.auth
  BY <1>1, WholeTexts, Zenon
<1>3. CcmText' = CcmHead(call'.nonce, AuthBytes(0, call'.auth), st'.cbData) \o PlainOf(call', dir', out')
  BY <1>2 DEF CcmText, CcmHead, PlainText, PlainOf
<1> QED BY <1>3, Zenon DEF CcmLaw, CcmLawOf, CcmHas, ZeroBehind, Busy

(* ChaCha20.                                                               *)
LEMMA NewChaChaLawIs ==
  ASSUME call' \in Calls
  PROVE  ChaChaLaw' <=> ChaChaLawOf(st', phase', call')
<1>1. call'.from + call'.data \in Nat
  BY DEF Calls
<1>2. ASSUME NEW o, o = call'.from + call'.data PROVE o \in Nat
  BY <1>1, <1>2
<1> QED BY <1>2, StateFields, Zenon DEF ChaChaLaw, ChaChaLawOf, ChaChaHolds, Busy

(* Poly1305.                                                               *)
LEMMA NewPolyLawIs ==
  ASSUME call' \in Calls
  PROVE  PolyLaw' <=> PolyLawOf(st', phase', dir', call')
<1>1. call'.data \in Nat
  BY DEF Calls
<1> DEFINE L == LET taken == DataBytes(0, RoundDown(call'.data, PolyBlock))
                IN /\ st'.a = WithOnes(taken)
                   /\ MacLaw(taken, st'.buf, st'.bytesInBuffer, DataBytes(0, call'.data), PolyBlock)
<1>2. DOMAIN st' = PolyFields => (L <=> PolyHas(st', DataBytes(0, call'.data)))
  BY <1>1, PolyTakenIs, Zenon
<1>3. PolyLaw' <=>
        /\ DOMAIN st' = PolyFields /\ Text(st'.buf, PolyBlock)
        /\ phase' \in {"auth", "data"} => phase' = "data" /\ dir' = "encrypt" /\ st'.key = PolyKey /\ L
  BY StateFields, Zenon DEF PolyLaw, Busy
<1> HIDE DEF L
<1> QED BY <1>2, <1>3, Zenon DEF PolyLawOf

(* And the invariant is their conjunction.                                 *)
LEMMA NewInvIs == AeadInv' <=> Good(alg', st', phase', dir', call', oneShot', genuine', out', tag', status')
<1>1. AeadTypeOK' <=> TypeOf(alg', phase', dir', call', oneShot', genuine')
  BY Zenon DEF AeadTypeOK, TypeOf, Calls, Busy
<1>2. AeadIsReference' <=> RefOf(alg', phase', dir', call', oneShot', genuine', out', tag', status')
  BY Zenon DEF AeadIsReference, RefOf, RefusedIsWiped, Accepted
<1>3. TypeOf(alg', phase', dir', call', oneShot', genuine') => call' \in Calls
  BY Zenon DEF TypeOf
<1>4. /\ GcmLaw' <=> GcmLawOf(st', phase', call', dir', out')
      /\ call' \in Calls => (CcmLaw' <=> CcmLawOf(st', phase', call', dir', out'))
      /\ call' \in Calls => (ChaChaLaw' <=> ChaChaLawOf(st', phase', call'))
      /\ call' \in Calls => (PolyLaw' <=> PolyLawOf(st', phase', dir', call'))
  BY NewGcmLawIs, NewCcmLawIs, NewChaChaLawIs, NewPolyLawIs, Zenon
<1> QED BY <1>1, <1>2, <1>3, <1>4, Zenon DEF AeadInv, Good

(* The reference output is a text; of no data it is empty.                 *)
LEMMA OutText ==
  ASSUME NEW a, NEW c \in Calls
  PROVE  Text(ReferenceOut(a, c), c.data) /\ (c.data = 0 => ReferenceOut(a, c) = <<>>)
<1>1. c.data \in Nat
  BY DEF Calls
<1>2. Text(ReferenceOut(a, c), c.data)
  BY <1>1 DEF ReferenceOut, Text
<1> QED BY <1>2, TextEmpty, Zenon

(* A tag is masked, so no message has the tag that stands for a wrong one. *)
LEMMA TagIsSome ==
  ASSUME NEW a \in {"gcm", "ccm", "chacha20poly1305"}, NEW c, NEW d
  PROVE  ReferenceTag(a, c, d) # NoTag
<1>1. BlockSize \in Nat \ {0} /\ PolyKeySize \in Nat \ {0}
  BY GcmAssumption, ChaChaAssumption DEF PolyKeySize
<1>2. ASSUME NEW x, NEW n \in Nat \ {0}, Text(x, n) PROVE x # <<>>
  <2> SUFFICES ASSUME x = <<>> PROVE FALSE
    OBVIOUS
  <2>1. Len(<<>>) = n
    BY <1>2, TextLen
  <2> QED BY <2>1
<1>3. ASSUME NEW x PROVE KeyBlock(x, BlockSize) # <<>>
  <2>1. Text(KeyBlock(x, BlockSize), BlockSize)
    BY <1>1 DEF KeyBlock, Text
  <2> QED BY <1>1, <1>2, <2>1
<1>4. [i \in 1 .. PolyKeySize |-> ChaChaKeyByte(i - 1)] # <<>>
  <2> DEFINE f == [i \in 1 .. PolyKeySize |-> ChaChaKeyByte(i - 1)]
  <2>1. Text(f, PolyKeySize)
    BY <1>1 DEF Text
  <2> HIDE DEF f
  <2>2. f # <<>>
    BY <1>1, <1>2, <2>1
  <2> QED BY <2>2 DEF f
<1>5. \A mac, mask : mask # <<>> => Tag(mac, mask) # NoTag
  BY DEF Tag, NoTag
<1>6. CASE a = "gcm"
  <2>1. \A x, y, z : GcmReferenceTag(x, y, z) # NoTag
    BY <1>3, <1>5, Zenon DEF GcmReferenceTag
  <2> QED BY <1>6, <2>1 DEF ReferenceTag
<1>7. CASE a = "ccm"
  <2>1. \A x, y, z : CcmReferenceTag(x, y, z) # NoTag
    BY <1>3, <1>5, Zenon DEF CcmReferenceTag
  <2> QED BY <1>7, <2>1 DEF ReferenceTag
<1>8. CASE a = "chacha20poly1305"
  <2>1. \A y, z : ChaChaReferenceTag(y, z) # NoTag
    <3>1. \A key, x : key # <<>> => PolyReferenceTag(key, x) # NoTag
      BY <1>5, Zenon DEF PolyReferenceTag
    <3> QED BY <1>4, <3>1, Zenon DEF ChaChaReferenceTag
  <2> QED BY <1>8, <2>1 DEF ReferenceTag
<1> QED BY <1>6, <1>7, <1>8

(* A new message.                                                          *)
LEMMA RefBegins ==
  ASSUME NEW a, NEW c \in Calls, c.data = 0, NEW ph \in {"auth", "data"}, NEW di
  PROVE  RefOf(a, ph, di, c, FALSE, TRUE, <<>>, NoTag, "none")
<1>1. ReferenceOut(a, c) = <<>>
  BY OutText, Zenon
<1> QED BY <1>1 DEF RefOf

(* More data and more output.                                              *)
LEMMA RefContinues ==
  ASSUME NEW a, NEW ph, NEW di, NEW c, NEW ge, NEW o, NEW tg, NEW ss, NEW k, NEW dst,
         RefOf(a, ph, di, c, FALSE, ge, o, tg, ss), a # "poly1305" => OutGrown(a, c, k, dst)
  PROVE  RefOf(a, "data", di, [c EXCEPT !.data = @ + k], FALSE, ge, o \o dst, tg, ss)
<1>1. a # "poly1305" => o = ReferenceOut(a, c)
  BY DEF RefOf
<1>2. a # "poly1305" => o \o dst = ReferenceOut(a, [c EXCEPT !.data = @ + k])
  BY <1>1 DEF OutGrown
<1> QED BY <1>2 DEF RefOf

(* The tag at the end of a message, or the verdict on the one given.       *)
LEMMA RefFinishes ==
  ASSUME NEW a, NEW ph, NEW di \in Directions, NEW c, NEW ge, NEW o, NEW tg, NEW ss,
         RefOf(a, ph, di, c, FALSE, ge, o, tg, ss), NEW computed, computed = ReferenceTag(a, c, di),
         NEW good \in BOOLEAN, NEW given, given = IF good THEN ReferenceTag(a, c, "decrypt") ELSE NoTag,
         di = "encrypt" \/ a \in {"gcm", "ccm", "chacha20poly1305"}
  PROVE  RefOf(a, "done", di, c, FALSE, good, o, IF di = "encrypt" THEN computed ELSE NoTag,
               IF di = "encrypt" THEN "NO_ERROR" ELSE Verdict(computed, given))
<1>1. a # "poly1305" => o = ReferenceOut(a, c)
  BY DEF RefOf
<1>2. CASE di = "encrypt"
  BY <1>1, <1>2 DEF RefOf
<1>3. CASE di = "decrypt"
  <2>1. ReferenceTag(a, c, "decrypt") # NoTag
    BY <1>3, TagIsSome
  <2>2. computed = ReferenceTag(a, c, "decrypt")
    BY <1>3
  <2>3. computed = given <=> good
    BY <2>1, <2>2
  <2>4. Verdict(computed, given) = "NO_ERROR" <=> good
    BY <2>3 DEF Verdict
  <2> HIDE DEF Verdict
  <2> QED BY <1>1, <1>3, <2>4 DEF RefOf
<1> QED BY <1>2, <1>3 DEF Directions

(* Nothing of the data in a buffer.                                        *)
NoData(o) == \A i \in DOMAIN o : \A atom \in o[i] : atom[1] # "data"

LEMMA NoDataIn ==
  ASSUME NEW n \in Nat
  PROVE  NoData(Zeroes(n)) /\ NoData(Untouched(n))
<1>1. NoData(Zeroes(n))
  BY DEF NoData, Zeroes, ZeroByte
<1>2. NoData(Untouched(n))
  <2>1. ASSUME NEW i \in 1 .. n, NEW atom \in Untouched(n)[i] PROVE atom[1] # "data"
    <3>1. atom = <<"stale", 1, i>>
      BY <2>1 DEF Untouched, Atom
    <3> QED BY <3>1
  <2>2. DOMAIN Untouched(n) = 1 .. n
    BY DEF Untouched
  <2> QED BY <2>1, <2>2 DEF NoData
<1> QED BY <1>1, <1>2

(* A message in one call: encrypted, or decrypted with the right output    *)
(* or with none, as the verdict has it.                                    *)
LEMMA RefWhole ==
  ASSUME NEW a \in {"gcm", "ccm", "chacha20poly1305"}, NEW di \in Directions, NEW c,
         NEW computed, computed = ReferenceTag(a, c, di),
         NEW good \in BOOLEAN, NEW given, given = IF good THEN ReferenceTag(a, c, "decrypt") ELSE NoTag,
         NEW dst, dst = ReferenceOut(a, c), NEW wiped, NoData(wiped)
  PROVE  /\ di = "encrypt" => RefOf(a, "done", di, c, TRUE, good, dst, computed, "NO_ERROR")
         /\ di # "encrypt" => RefOf(a, "done", di, c, TRUE, good,
                                    IF Verdict(computed, given) = "NO_ERROR" THEN dst ELSE wiped, NoTag,
                                    Verdict(computed, given))
         /\ RefOf(a, "done", di, c, TRUE, good, wiped, NoTag, "WRONG_DATA_SIZE")
<1>1. ReferenceTag(a, c, "decrypt") # NoTag
  BY TagIsSome
<1>2. Verdict(computed, given) \in {"NO_ERROR", "AUTHENTICATION_FAILURE"}
  BY DEF Verdict
<1>3. di # "encrypt" => computed = ReferenceTag(a, c, "decrypt")
  BY DEF Directions
<1>4. di # "encrypt" => (Verdict(computed, given) = "NO_ERROR" <=> good)
  BY <1>1, <1>3 DEF Verdict
<1> DEFINE v == Verdict(computed, given)
           o == IF v = "NO_ERROR" THEN dst ELSE wiped
<1>5. di = "encrypt" => RefOf(a, "done", di, c, TRUE, good, dst, computed, "NO_ERROR")
  BY DEF RefOf
<1>6. RefOf(a, "done", di, c, TRUE, good, wiped, NoTag, "WRONG_DATA_SIZE")
  BY DEF RefOf, NoData
<1> HIDE DEF v
<1>7. ASSUME di # "encrypt" PROVE RefOf(a, "done", di, c, TRUE, good, o, NoTag, v)
  <2>1. v \in {"NO_ERROR", "AUTHENTICATION_FAILURE"} /\ (v = "NO_ERROR" <=> good)
    BY <1>2, <1>4, <1>7 DEF v
  <2>2. v = "NO_ERROR" => o = dst
    OBVIOUS
  <2>3. v # "NO_ERROR" => NoData(o) /\ v = "AUTHENTICATION_FAILURE"
    BY <2>1
  <2> HIDE DEF o
  <2>4. (v \in {"none", "NO_ERROR"} \/ ~TRUE) => o = ReferenceOut(a, c)
    BY <2>1, <2>2
  <2> QED BY <1>7, <2>1, <2>3, <2>4, Zenon DEF RefOf, NoData
<1> QED BY <1>5, <1>6, <1>7 DEF v

-----------------------------------------------------------------------------
(* What the caller asks for is a call.                                     *)
LEMMA NewCalls ==
  ASSUME NEW x \in Nonces, NEW f \in Nat, NEW a \in Nat
  PROVE  LET c == [NoCall EXCEPT !.nonce = x]
             e == [NoCall EXCEPT !.nonce = x, !.auth = a]
             g == [NoCall EXCEPT !.from = f]
         IN /\ c \in Calls /\ c.nonce = x /\ c.auth = 0 /\ c.data = 0
            /\ e \in Calls /\ e.nonce = x /\ e.auth = a /\ e.data = 0
            /\ g \in Calls /\ g.from = f /\ g.data = 0
            /\ NoCall \in Calls /\ NoCall.data = 0
<1>1. 0 \in Nonces
  BY GcmAssumption DEF Nonces
<1> QED BY <1>1 DEF NoCall, Calls

(* A call on a message with more data or more associated data.             *)
LEMMA LongerCalls ==
  ASSUME NEW c \in Calls, NEW k \in Nat
  PROVE  LET e == [c EXCEPT !.data = @ + k]
             g == [c EXCEPT !.auth = @ + k]
         IN /\ e \in Calls /\ e.nonce = c.nonce /\ e.from = c.from /\ e.auth = c.auth /\ e.data = c.data + k
            /\ g \in Calls /\ g.nonce = c.nonce /\ g.from = c.from /\ g.auth = c.auth + k /\ g.data = c.data
  BY DEF Calls

(* The associated data and the data of nothing.                            *)
LEMMA NoBytes == AuthBytes(0, 0) = <<>> /\ DataBytes(0, 0) = <<>>
<1>1. Text(AuthBytes(0, 0), 0) /\ Text(DataBytes(0, 0), 0)
  BY WholeTexts
<1> QED BY <1>1, TextEmpty, Zenon

(* SymCryptGcmInit.                                                        *)
LEMMA GcmInitKeeps == AeadInv /\ GcmInit => AeadInv'
<1> SUFFICES ASSUME AeadInv, GcmInit PROVE AeadInv'
  OBVIOUS
<1>1. Good(alg, st, phase, dir, call, oneShot, genuine, out, tag, status)
  BY InvIs, Zenon
<1>2. PICK n \in Nonces, d \in Directions : st' = GcmInitState(st, n) /\ Begin("auth", d, [NoCall EXCEPT !.nonce = n])
  BY DEF GcmInit
<1>3. alg = "gcm" /\ alg' = "gcm"
  BY DEF GcmInit
<1> DEFINE c == [NoCall EXCEPT !.nonce = n]
           t == GcmInitState(st, n)
<1>4. /\ phase' = "auth" /\ dir' = d /\ call' = c /\ oneShot' = FALSE /\ genuine' = TRUE /\ out' = <<>>
      /\ tag' = NoTag /\ status' = "none" /\ st' = t
  BY <1>2, Zenon DEF Begin
<1>5. c \in Calls /\ c.nonce = n /\ c.auth = 0 /\ c.data = 0
  BY NewCalls
<1>6. DOMAIN st = DOMAIN GcmWiped /\ Text(st.macBlock, BlockSize) /\ Text(st.keystreamBlock, BlockSize)
  BY <1>1, <1>3, Zenon DEF Good, GcmLawOf
<1>7. /\ GcmHas(t, <<>>) /\ CtrLaw(t.keystreamBlock, t.counter, FirstCounter(n), 0, BlockSize, GcmSpace)
      /\ t.cbData = 0 /\ t.cbAuthData = 0 /\ t.macBlock = st.macBlock
      /\ t.keystreamBlock = st.keystreamBlock /\ DOMAIN t = DOMAIN GcmWiped
  BY <1>6, GcmInitRight, Zenon
<1> HIDE DEF c, t
<1>8. 0 <= GcmMaxDataSize
  <2>1. CounterRange - 2 \in Nat /\ BlockSize \in Nat
    BY GcmAssumption
  <2>2. BlockSize * (CounterRange - 2) \in Nat
    BY <2>1
  <2> QED BY <2>2 DEF GcmMaxDataSize
<1>9. GcmTextOf("auth", c, d, <<>>) = <<>>
  BY <1>5, NoBytes DEF GcmTextOf
<1>10. GcmLawOf(t, "auth", c, d, <<>>)
  BY <1>5, <1>6, <1>7, <1>8, <1>9 DEF GcmLawOf
<1>11. RefOf("gcm", "auth", d, c, FALSE, TRUE, <<>>, NoTag, "none")
  BY <1>5, RefBegins
<1>12. TypeOf("gcm", "auth", d, c, FALSE, TRUE)
  BY <1>5 DEF TypeOf, Algorithms
<1>13. Good("gcm", t, "auth", d, c, FALSE, TRUE, <<>>, NoTag, "none")
  BY <1>10, <1>11, <1>12 DEF Good
<1>14. Good(alg', st', phase', dir', call', oneShot', genuine', out', tag', status')
  BY <1>3, <1>4, <1>13
<1> QED BY <1>14, NewInvIs, Zenon

(* SymCryptGcmAuthPart.                                                    *)
LEMMA GcmAuthPartKeeps == AeadInv /\ GcmAuthPart => AeadInv'
<1> SUFFICES ASSUME AeadInv, GcmAuthPart PROVE AeadInv'
  OBVIOUS
<1>1. Good(alg, st, phase, dir, call, oneShot, genuine, out, tag, status)
  BY InvIs, Zenon
<1>2. PICK k \in AuthSizes :
        /\ st' = [GcmAddMacData(st, AuthBytes(call.auth, call.auth + k)) EXCEPT !.cbAuthData = @ + k]
        /\ call' = [call EXCEPT !.auth = @ + k]
  BY DEF GcmAuthPart
<1>3. /\ alg = "gcm" /\ alg' = "gcm" /\ phase = "auth" /\ phase' = "auth" /\ dir' = dir /\ oneShot' = oneShot
      /\ genuine' = genuine /\ out' = out /\ tag' = tag /\ status' = status
  BY DEF GcmAuthPart
<1> DEFINE c == [call EXCEPT !.auth = @ + k]
           src == AuthBytes(call.auth, call.auth + k)
           g == GcmAddMacData(st, src)
           t == [g EXCEPT !.cbAuthData = @ + k]
<1>4. k \in Nat
  BY AeadAssumption
<1>5. /\ TypeOf("gcm", "auth", dir, call, oneShot, genuine)
      /\ RefOf("gcm", "auth", dir, call, oneShot, genuine, out, tag, status)
      /\ GcmLawOf(st, "auth", call, dir, out)
  BY <1>1, <1>3 DEF Good
<1>6. call \in Calls /\ ~oneShot /\ dir \in Directions /\ genuine \in BOOLEAN /\ oneShot \in BOOLEAN
  BY <1>5 DEF TypeOf
<1>7. /\ c \in Calls /\ c.nonce = call.nonce /\ c.auth = call.auth + k /\ c.data = call.data
  BY <1>4, <1>6, LongerCalls
<1>8. /\ st.cbData = call.data /\ st.cbAuthData = call.auth /\ call.data <= GcmMaxDataSize /\ call.data = 0
      /\ CtrLaw(st.keystreamBlock, st.counter, FirstCounter(call.nonce), call.data, BlockSize, GcmSpace)
      /\ GcmHas(st, AuthBytes(0, call.auth))
  BY <1>5 DEF GcmLawOf, GcmTextOf
<1>9. call.auth \in Nat /\ call.auth <= call.auth + k /\ call.auth + k \in Nat /\ 0 \in Nat /\ 0 <= call.auth
  BY <1>4, <1>6 DEF Calls
<1>10. Text(src, (call.auth + k) - call.auth)
  BY <1>9, MessageTexts, Zenon
<1>11. AuthBytes(0, call.auth) \o src = AuthBytes(0, c.auth)
  <2>1. AuthBytes(0, call.auth) \o AuthBytes(call.auth, call.auth + k) = AuthBytes(0, call.auth + k)
    BY <1>9, MessageJoins, Zenon
  <2>2. c.auth = call.auth + k
    BY <1>7, Zenon
  <2> QED BY <2>1, <2>2, Zenon
<1> HIDE DEF src, c
<1>12. GcmHas(g, AuthBytes(0, c.auth)) /\ GcmSame(st, g)
  <2>1. GcmHas(g, AuthBytes(0, call.auth) \o src) /\ GcmSame(st, g)
    BY <1>8, <1>10, GcmAddsHas, Zenon
  <2> QED BY <1>11, <2>1
<1> HIDE DEF g
<1>13. DOMAIN g = GcmFields
  BY <1>12, GcmFieldsAre DEF GcmHas
<1>14. /\ t.cbAuthData = g.cbAuthData + k /\ t.cbData = g.cbData /\ t.counter = g.counter
       /\ t.keystreamBlock = g.keystreamBlock /\ t.ghash = g.ghash /\ t.macBlock = g.macBlock
       /\ t.bytesInMacBlock = g.bytesInMacBlock /\ DOMAIN t = DOMAIN g
  BY <1>13 DEF GcmFields
<1> HIDE DEF t
<1>15. GcmHas(t, AuthBytes(0, c.auth))
  BY <1>12, <1>14 DEF GcmHas
<1>16. /\ t.cbData = c.data /\ t.cbAuthData = c.auth /\ c.data = 0
       /\ t.keystreamBlock = st.keystreamBlock /\ t.counter = st.counter
  BY <1>7, <1>8, <1>12, <1>14 DEF GcmSame
<1>17. CtrLaw(t.keystreamBlock, t.counter, FirstCounter(c.nonce), c.data, BlockSize, GcmSpace)
  BY <1>7, <1>8, <1>16
<1>18. Text(t.macBlock, BlockSize) /\ Text(t.keystreamBlock, BlockSize) /\ DOMAIN t = DOMAIN GcmWiped
  BY <1>15, <1>17 DEF GcmHas, MacLaw, CtrLaw
<1>19. GcmTextOf("auth", c, dir, out) = AuthBytes(0, c.auth)
  BY DEF GcmTextOf
<1>20. GcmLawOf(t, "auth", c, dir, out)
  BY <1>7, <1>8, <1>15, <1>16, <1>17, <1>18, <1>19 DEF GcmLawOf
<1>21. ReferenceOut("gcm", c) = ReferenceOut("gcm", call)
  <2>1. ReferenceOut("gcm", c) = <<>> /\ ReferenceOut("gcm", call) = <<>>
    BY <1>6, <1>7, <1>8, OutText
  <2> QED BY <2>1
<1>22. RefOf("gcm", "auth", dir, c, oneShot, genuine, out, tag, status)
  BY <1>5, <1>21 DEF RefOf
<1>23. TypeOf("gcm", "auth", dir, c, oneShot, genuine)
  BY <1>6, <1>7 DEF TypeOf, Algorithms
<1>24. Good("gcm", t, "auth", dir, c, oneShot, genuine, out, tag, status)
  BY <1>20, <1>22, <1>23 DEF Good
<1>25. st' = t /\ call' = c
  BY <1>2 DEF t, g, c, src
<1>26. Good(alg', st', phase', dir', call', oneShot', genuine', out', tag', status')
  BY <1>3, <1>24, <1>25
<1> QED BY <1>26, NewInvIs, Zenon

(* What a state of the invariant says about an incremental message.        *)
LEMMA InHand ==
  ASSUME AeadInv, phase \in {"auth", "data"}
  PROVE  /\ Good(alg, st, phase, dir, call, oneShot, genuine, out, tag, status)
         /\ RefOf(alg, phase, dir, call, FALSE, genuine, out, tag, status) /\ oneShot = FALSE
         /\ call \in Calls /\ dir \in Directions /\ genuine \in BOOLEAN /\ alg \in Algorithms
         /\ alg # "poly1305" => out = ReferenceOut(alg, call) /\ Text(out, call.data)
<1>1. Good(alg, st, phase, dir, call, oneShot, genuine, out, tag, status)
  BY InvIs, Zenon
<1>2. /\ call \in Calls /\ dir \in Directions /\ genuine \in BOOLEAN /\ oneShot = FALSE /\ alg \in Algorithms
      /\ RefOf(alg, phase, dir, call, oneShot, genuine, out, tag, status)
  BY <1>1 DEF Good, TypeOf
<1>3. RefOf(alg, phase, dir, call, FALSE, genuine, out, tag, status)
  BY <1>2
<1>4. alg # "poly1305" => out = ReferenceOut(alg, call)
  BY <1>3 DEF RefOf
<1>5. Text(ReferenceOut(alg, call), call.data)
  BY <1>2, OutText, Zenon
<1> QED BY <1>1, <1>2, <1>3, <1>4, <1>5

(* The bytes passed next, and those that were passed with them.            *)
LEMMA NextBytes ==
  ASSUME NEW c \in Calls, NEW k \in Nat
  PROVE  /\ Text(DataBytes(c.data, c.data + k), k) /\ c.data \in Nat /\ c.auth \in Nat /\ c.from \in Nat
         /\ DataBytes(0, c.data) \o DataBytes(c.data, c.data + k) = DataBytes(0, c.data + k)
         /\ Text(DataBytes(0, c.data), c.data) /\ Text(AuthBytes(0, c.auth), c.auth) /\ c.nonce \in Nonces
<1>1. c.data \in Nat /\ c.auth \in Nat /\ c.from \in Nat /\ c.nonce \in Nonces
  BY DEF Calls
<1> DEFINE n == c.data
<1> HIDE DEF n
<1>2. n \in Nat /\ n + k \in Nat /\ n <= n + k /\ 0 \in Nat /\ 0 <= n /\ (n + k) - n = k
  BY <1>1 DEF n
<1>3. Text(DataBytes(n, n + k), (n + k) - n)
  BY <1>2, MessageTexts, Zenon
<1>4. Text(DataBytes(n, n + k), k)
  BY <1>2, <1>3
<1>5. DataBytes(0, n) \o DataBytes(n, n + k) = DataBytes(0, n + k)
  BY <1>2, MessageJoins, Zenon
<1> QED BY <1>1, <1>4, <1>5, WholeTexts DEF n

(* What GHASH has after the next part: the ciphertext so far.              *)
CipherGrown(p, c, k, d, o, dst) ==
  (p \o CipherOf(c, d, o)) \o MacInput(dst, DataBytes(c.data, c.data + k), d)
    = p \o CipherOf([c EXCEPT !.data = @ + k], d, o \o dst)

LEMMA CipherGrows ==
  ASSUME NEW p, NEW z, Text(p, z), NEW c \in Calls, NEW k \in Nat, NEW d, NEW o, Text(o, c.data),
         NEW dst, Text(dst, k)
  PROVE  CipherGrown(p, c, k, d, o, dst)
<1> DEFINE src == DataBytes(c.data, c.data + k)
           ci == CipherOf(c, d, o)
           m == MacInput(dst, src, d)
           e == [c EXCEPT !.data = @ + k]
<1>1. /\ Text(src, k) /\ Text(DataBytes(0, c.data), c.data)
      /\ DataBytes(0, c.data) \o src = DataBytes(0, c.data + k)
  BY NextBytes, Zenon
<1>2. Text(ci, c.data) /\ Text(m, k)
  BY <1>1 DEF CipherOf, MacInput
<1>3. e.data = c.data + k
  BY LongerCalls
<1> HIDE DEF e, src
<1>4. ci \o m = CipherOf(e, d, o \o dst)
  BY <1>1, <1>3 DEF CipherOf, MacInput
<1> HIDE DEF ci, m
<1>5. Regroups(p, ci, m)
  BY <1>2, TextRegroup, Zenon
<1>6. (p \o ci) \o m = p \o (ci \o m)
  BY <1>5, Zenon DEF Regroups
<1> QED BY <1>4, <1>6 DEF CipherGrown, ci, m, e, src

(* SymCryptGcmEncryptPart and SymCryptGcmDecryptPart.                      *)
LEMMA GcmPartKeeps == AeadInv /\ GcmPart => AeadInv'
<1> SUFFICES ASSUME AeadInv, GcmPart PROVE AeadInv'
  OBVIOUS
<1>1. PICK k \in PartSizes, onePass \in BOOLEAN :
        /\ st.cbData + k <= GcmMaxDataSize
        /\ LET w == GcmPartState(st, NextData(k), dir, onePass)
           IN st' = w.st /\ Continue(k, w.dst)
  BY DEF GcmPart
<1>2. alg = "gcm" /\ alg' = "gcm" /\ phase \in {"auth", "data"}
  BY DEF GcmPart
<1> DEFINE B == BlockSize
           n == call.data
           c == [call EXCEPT !.data = @ + k]
           src == DataBytes(n, n + k)
           au == AuthBytes(0, call.auth)
           ci == CipherOf(call, dir, out)
           p == PadToBlock(au, BlockSize)
           r == GcmPartState(st, src, dir, onePass)
           F == FirstCounter(call.nonce)
           text == GcmTextOf(phase, call, dir, out)
           dst == Enc(src, 0, k, F, n, BlockSize, GcmSpace)
<1>3. k \in Nat
  BY AeadAssumption
<1>4. /\ Good("gcm", st, phase, dir, call, oneShot, genuine, out, tag, status)
      /\ RefOf("gcm", phase, dir, call, FALSE, genuine, out, tag, status) /\ oneShot = FALSE
      /\ call \in Calls /\ dir \in Directions /\ genuine \in BOOLEAN
      /\ out = ReferenceOut("gcm", call) /\ Text(out, n)
  BY <1>2, InHand
<1>5. /\ st.cbData = n /\ st.cbAuthData = call.auth /\ (phase = "auth" => n = 0)
      /\ CtrLaw(st.keystreamBlock, st.counter, F, n, BlockSize, GcmSpace)
      /\ GcmHas(st, text)
  BY <1>2, <1>4 DEF Good, GcmLawOf
<1>6. /\ Text(src, k) /\ n \in Nat /\ call.auth \in Nat /\ call.nonce \in Nonces
      /\ Text(DataBytes(0, n), n) /\ Text(au, call.auth)
  BY <1>3, <1>4, NextBytes, Zenon
<1>7. Text(ci, n)
  BY <1>4, <1>6 DEF CipherOf
<1>8. GcmTaken(text, au, ci, n)
  BY <1>2, <1>5 DEF GcmTaken, GcmTextOf
<1>9. F \in Nat
  BY <1>6, FirstCounterIs, Zenon
<1>10. NextData(k) = src
  BY DEF NextData
<1>11. st' = r.st /\ Continue(k, r.dst)
  BY <1>1, <1>10
<1> HIDE DEF text, F, n, src, ci, au
<1>12. GcmPartRight(r, st.cbAuthData, src, F, n, k, p \o ci, dir)
  BY <1>1, <1>5, <1>6, <1>7, <1>8, <1>9, GcmPartStateRight, Zenon
<1> HIDE DEF r
<1>13. /\ r.dst = dst /\ GcmHas(r.st, (p \o ci) \o MacInput(r.dst, src, dir))
       /\ CtrLaw(r.st.keystreamBlock, r.st.counter, F, n + k, BlockSize, GcmSpace)
       /\ r.st.cbData = n + k /\ r.st.cbAuthData = st.cbAuthData
  BY <1>12, Zenon DEF GcmPartRight
<1>14. Text(dst, k)
  <2>1. 0 \in Nat /\ 0 + k <= k
    BY <1>3
  <2>2. EncBytes(src, 0, k, F, n, BlockSize, GcmSpace)
    BY <1>3, <1>6, <2>1, EncIs, Zenon
  <2> QED BY <2>2, Zenon DEF EncBytes
<1>15. /\ c \in Calls /\ c.nonce = call.nonce /\ c.auth = call.auth /\ c.data = n + k
  BY <1>3, <1>4, LongerCalls DEF n
<1>16. Text(p, call.auth + PadZ(call.auth, BlockSize))
  <2>1. BlockSize \in Nat \ {0}
    BY GcmAssumption
  <2> QED BY <1>6, <2>1, PadIs, Zenon
<1>17. n + k \in Nat /\ n + k <= GcmMaxDataSize
  BY <1>1, <1>3, <1>5, <1>6
<1>18. OutGrown("gcm", call, k, dst)
  <2>1. StreamIsKey("gcm", call, n + k, F, 0, BlockSize, GcmSpace)
    BY <1>4, <1>17, GcmStreamIsKey DEF F
  <2>2. 0 \in Nat /\ 0 + n = n
    BY <1>6
  <2>3. OutGrown("gcm", call, k, Enc(src, 0, k, F, 0 + n, BlockSize, GcmSpace))
    BY <1>3, <1>4, <2>1, <2>2, OutGrows, Zenon DEF n, src
  <2> QED BY <2>2, <2>3
<1> HIDE DEF dst, c, p
<1>19. RefOf("gcm", "data", dir, c, FALSE, genuine, out \o dst, tag, status)
  BY <1>4, <1>18, RefContinues, Zenon DEF c
<1>20. (p \o ci) \o MacInput(dst, src, dir) = p \o CipherOf(c, dir, out \o dst)
  <2>1. Text(out, call.data)
    BY <1>4 DEF n
  <2>2. CipherGrown(p, call, k, dir, out, dst)
    BY <1>3, <1>4, <1>14, <1>16, <2>1, CipherGrows, Zenon
  <2> QED BY <2>2, Zenon DEF CipherGrown, n, ci, src, c
<1>21. GcmTextOf("data", c, dir, out \o dst) = p \o CipherOf(c, dir, out \o dst)
  BY <1>15 DEF GcmTextOf, p, au
<1>22. GcmHas(r.st, GcmTextOf("data", c, dir, out \o dst))
  BY <1>13, <1>20, <1>21
<1>23. CtrLaw(r.st.keystreamBlock, r.st.counter, FirstCounter(c.nonce), c.data, BlockSize, GcmSpace)
  BY <1>13, <1>15 DEF F
<1>24. Text(r.st.macBlock, BlockSize) /\ Text(r.st.keystreamBlock, BlockSize) /\ DOMAIN r.st = DOMAIN GcmWiped
  BY <1>22, <1>23 DEF GcmHas, MacLaw, CtrLaw
<1>25. GcmLawOf(r.st, "data", c, dir, out \o dst)
  BY <1>5, <1>13, <1>15, <1>17, <1>22, <1>23, <1>24 DEF GcmLawOf
<1>26. TypeOf("gcm", "data", dir, c, FALSE, genuine)
  BY <1>4, <1>15 DEF TypeOf, Algorithms
<1>27. Good("gcm", r.st, "data", dir, c, FALSE, genuine, out \o dst, tag, status)
  BY <1>19, <1>25, <1>26 DEF Good
<1>28. /\ st' = r.st /\ phase' = "data" /\ call' = c /\ out' = out \o dst /\ dir' = dir /\ oneShot' = FALSE
       /\ genuine' = genuine /\ tag' = tag /\ status' = status
  BY <1>4, <1>11, <1>13 DEF Continue, c
<1>29. Good(alg', st', phase', dir', call', oneShot', genuine', out', tag', status')
  BY <1>2, <1>27, <1>28
<1> QED BY <1>29, NewInvIs, Zenon

(* The end of an incremental message, whatever the algorithm.              *)
LEMMA FinishKeeps ==
  ASSUME AeadInv, phase \in {"auth", "data"}, NEW computed, NEW good \in BOOLEAN, Finish(computed, good),
         alg' = alg, computed = ReferenceTag(alg, call, dir),
         dir = "encrypt" \/ alg \in {"gcm", "ccm", "chacha20poly1305"},
         alg = "gcm" => GcmLawOf(st', "done", call, dir, out),
         alg = "ccm" => CcmLawOf(st', "done", call, dir, out),
         alg = "chacha20" => ChaChaLawOf(st', "done", call),
         alg = "poly1305" => PolyLawOf(st', "done", dir, call)
  PROVE  AeadInv'
<1> DEFINE given == IF good THEN ReferenceTag(alg, call, "decrypt") ELSE NoTag
           tg == IF dir = "encrypt" THEN computed ELSE NoTag
           ss == IF dir = "encrypt" THEN "NO_ERROR" ELSE Verdict(computed, given)
<1>1. /\ RefOf(alg, phase, dir, call, FALSE, genuine, out, tag, status) /\ oneShot = FALSE
      /\ call \in Calls /\ dir \in Directions /\ genuine \in BOOLEAN /\ alg \in Algorithms
  BY InHand, Zenon
<1>2. RefOf(alg, "done", dir, call, FALSE, good, out, tg, ss)
  BY <1>1, RefFinishes, Zenon
<1>3. /\ phase' = "done" /\ genuine' = good /\ dir' = dir /\ call' = call /\ oneShot' = FALSE /\ out' = out
      /\ tag' = tg /\ status' = ss
  BY <1>1 DEF Finish, GivenTag
<1> HIDE DEF tg, ss
<1>4. TypeOf(alg, "done", dir, call, FALSE, good)
  BY <1>1 DEF TypeOf
<1>5. Good(alg, st', "done", dir, call, FALSE, good, out, tg, ss)
  BY <1>2, <1>4, Zenon DEF Good
<1>6. Good(alg', st', phase', dir', call', oneShot', genuine', out', tag', status')
  BY <1>3, <1>5
<1> QED BY <1>6, NewInvIs, Zenon

(* SymCryptGcmEncryptFinal and SymCryptGcmDecryptFinal.                    *)
LEMMA GcmFinalKeeps == AeadInv /\ GcmFinal => AeadInv'
<1> SUFFICES ASSUME AeadInv, GcmFinal PROVE AeadInv'
  OBVIOUS
<1>1. PICK good \in BOOLEAN : Finish(GcmComputeTag(st), good)
  BY DEF GcmFinal
<1>2. alg = "gcm" /\ alg' = alg /\ phase \in {"auth", "data"} /\ st' = GcmWiped
  BY DEF GcmFinal
<1> DEFINE n == call.data
           x == call.nonce
           au == AuthBytes(0, call.auth)
           ci == CipherOf(call, dir, out)
           text == GcmTextOf(phase, call, dir, out)
<1>3. /\ Good("gcm", st, phase, dir, call, oneShot, genuine, out, tag, status)
      /\ call \in Calls /\ out = ReferenceOut("gcm", call) /\ Text(out, n)
  BY <1>2, InHand
<1>4. /\ st.cbData = n /\ st.cbAuthData = call.auth /\ n <= GcmMaxDataSize /\ (phase = "auth" => n = 0)
      /\ CtrLaw(st.keystreamBlock, st.counter, FirstCounter(x), n, BlockSize, GcmSpace)
      /\ GcmHas(st, text)
  BY <1>2, <1>3 DEF Good, GcmLawOf
<1>5. /\ n \in Nat /\ x \in Nonces /\ Text(DataBytes(0, n), n) /\ Text(au, call.auth)
  <2>1. 0 \in Nat
    OBVIOUS
  <2> QED BY <1>3, <2>1, NextBytes, Zenon
<1>6. Text(ci, n)
  BY <1>3, <1>5 DEF CipherOf
<1>7. GcmTaken(text, au, ci, st.cbData)
  BY <1>2, <1>4 DEF GcmTaken, GcmTextOf
<1>8. Text(au, st.cbAuthData) /\ Text(ci, st.cbData)
  BY <1>4, <1>5, <1>6
<1>9. TagCounter(st.counter) = x * CounterRange + 1
  <2>1. st.counter = (FirstCounter(x) + Begun(n, BlockSize)) % GcmSpace
    BY <1>4, Zenon DEF CtrLaw
  <2> HIDE DEF n, x
  <2> QED BY <1>4, <1>5, <2>1, TagCounterRight
<1>10. ReferenceTag("gcm", call, dir) = GcmReferenceTag(x, au, ci)
  BY <1>3 DEF ReferenceTag, CipherOf
<1> HIDE DEF au, ci, text, x, n
<1>11. GcmTagged(st, x, au, ci)
  BY <1>4, <1>5, <1>7, <1>8, GcmTagRight, Zenon
<1>12. GcmComputeTag(st) = ReferenceTag(alg, call, dir)
  BY <1>2, <1>9, <1>10, <1>11 DEF GcmTagged, GcmComputeTag
<1>13. GcmLawOf(st', "done", call, dir, out)
  <2>1. Text(Zeroes(BlockSize), BlockSize)
    BY GcmAssumption, TextZeroes
  <2>2. GcmWiped.macBlock = Zeroes(BlockSize) /\ GcmWiped.keystreamBlock = Zeroes(BlockSize)
    BY DEF GcmWiped
  <2> QED BY <1>2, <2>1, <2>2 DEF GcmLawOf
<1>14. alg # "ccm" /\ alg # "chacha20" /\ alg # "poly1305" /\ alg \in {"gcm", "ccm", "chacha20poly1305"}
  BY <1>2
<1> QED BY <1>1, <1>2, <1>12, <1>13, <1>14, FinishKeeps, Zenon

(* A message in one call, whatever the algorithm: the object is not used.  *)
LEMMA WholeKeeps ==
  ASSUME AeadInv, alg \in {"gcm", "ccm", "chacha20poly1305"}, phase \in {"idle", "done"},
         NEW c \in Calls, NEW d \in Directions, NEW good \in BOOLEAN, NEW o, NEW tg, NEW ss,
         Whole(c, d, good, o, tg, ss), RefOf(alg, "done", d, c, TRUE, good, o, tg, ss)
  PROVE  AeadInv'
<1>1. Good(alg, st, phase, dir, call, oneShot, genuine, out, tag, status)
  BY InvIs, Zenon
<1>2. /\ phase' = "done" /\ dir' = d /\ call' = c /\ oneShot' = TRUE /\ genuine' = good /\ out' = o
      /\ tag' = tg /\ status' = ss /\ alg' = alg /\ st' = st
  BY DEF Whole
<1>3. alg = "gcm" => GcmLawOf(st, "done", c, d, o)
  BY <1>1 DEF Good, GcmLawOf
<1>4. alg = "ccm" => CcmLawOf(st, "done", c, d, o)
  BY DEF CcmLawOf
<1>5. TypeOf(alg, "done", d, c, TRUE, good)
  BY DEF TypeOf, Algorithms
<1>6. alg # "chacha20" /\ alg # "poly1305"
  OBVIOUS
<1>7. Good(alg, st, "done", d, c, TRUE, good, o, tg, ss)
  BY <1>3, <1>4, <1>5, <1>6, Zenon DEF Good
<1>8. Good(alg', st', phase', dir', call', oneShot', genuine', out', tag', status')
  BY <1>2, <1>7
<1> QED BY <1>8, NewInvIs, Zenon

(* The message of a one-call function.                                     *)
LEMMA OneShotTexts ==
  ASSUME NEW c \in OneShotCalls
  PROVE  /\ c \in Calls /\ c.nonce \in Nonces /\ c.data \in Nat /\ c.auth \in Nat
         /\ Text(AuthBytes(0, c.auth), c.auth) /\ Text(DataBytes(0, c.data), c.data)
<1>1. OneShotSizes \subseteq Nat
  BY AeadAssumption
<1>2. \A m : 0 .. m \subseteq Nat
  OBVIOUS
<1>3. c \in Calls
  <2>1. 0 .. MaxAuth \subseteq Nat /\ {0} \subseteq Nat
    BY <1>2
  <2> DEFINE M == 0 .. MaxAuth
  <2> HIDE DEF M
  <2>2. c \in [nonce : Nonces, from : {0}, auth : M, data : OneShotSizes] /\ M \subseteq Nat
    BY <2>1 DEF OneShotCalls, M
  <2> QED BY <1>1, <2>1, <2>2 DEF Calls
<1>4. c.nonce \in Nonces /\ c.data \in Nat /\ c.auth \in Nat
  BY <1>3 DEF Calls
<1> QED BY <1>3, <1>4, WholeTexts

(* The output of a one-call function is the reference output.              *)
WholeIs(a, c, start, at, B, S) ==
  Enc(DataBytes(0, c.data), 0, c.data, start, at, B, S) = ReferenceOut(a, c)

LEMMA WholeOut ==
  ASSUME NEW a, NEW c \in Calls, NEW start, NEW at \in Nat, NEW B, NEW S,
         StreamIsKey(a, c, c.data, start, at, B, S)
  PROVE  WholeIs(a, c, start, at, B, S)
<1> DEFINE n == c.data
           src == DataBytes(0, n)
           e == Enc(src, 0, n, start, at, B, S)
           o == ReferenceOut(a, c)
<1>1. n \in Nat /\ Text(src, n)
  BY WholeTexts DEF Calls
<1>2. 0 \in Nat /\ 0 + n <= n /\ at + 0 = at
  BY <1>1
<1>3. EncBytes(src, 0, n, start, at, B, S)
  BY <1>1, <1>2, EncIs, Zenon
<1>4. Text(e, n) /\ \A i \in 1 .. n : e[i] = XorByte(src[0 + i], StreamByte(start, at + 0 + i, B, S))
  BY <1>3, Zenon DEF EncBytes
<1>5. Text(o, n)
  BY OutText, Zenon
<1> HIDE DEF e, n
<1>6. ASSUME NEW i \in 1 .. n PROVE e[i] = o[i]
  <2>1. 0 + i = i /\ at + 0 + i = at + i /\ i \in 1 .. n - 0
    BY <1>1
  <2>2. src[i] = Atom("data", i, 0)
    <3>1. src[i] = Atom("data", 0 + i, 0)
      BY <2>1 DEF DataBytes
    <3> QED BY <2>1, <3>1
  <2>3. KeyByte(a, c, i) = StreamByte(start, at + i, B, S)
    BY DEF StreamIsKey, n
  <2>4. o[i] = XorByte(Atom("data", i, 0), KeyByte(a, c, i))
    BY DEF ReferenceOut, n
  <2>5. e[i] = XorByte(src[i], StreamByte(start, at + i, B, S))
    BY <1>4, <2>1
  <2> QED BY <2>2, <2>3, <2>4, <2>5
<1> HIDE DEF o
<1>7. e = o
  BY <1>4, <1>5, <1>6, TextSame, Zenon
<1> QED BY <1>7 DEF WholeIs, e, o, n

(* A one-call function of GCM or CCM that computes the reference output    *)
(* and tag, and wipes what it wrote when the tag given is another.         *)
LEMMA WholeWiping ==
  ASSUME AeadInv, alg \in {"gcm", "ccm"}, phase = "idle", NEW c \in OneShotCalls, NEW d \in Directions,
         NEW good \in BOOLEAN, NEW dst, dst = ReferenceOut(alg, c),
         NEW computed, computed = ReferenceTag(alg, c, d),
         IF d = "encrypt" THEN Whole(c, d, good, dst, computed, "NO_ERROR")
         ELSE Whole(c, d, good, AfterRefusal(Verdict(computed, GivenTag(good, c)), dst), NoTag,
                    Verdict(computed, GivenTag(good, c)))
  PROVE  AeadInv'
<1> DEFINE v == Verdict(computed, GivenTag(good, c))
           w == Zeroes(Len(dst))
           given == GivenTag(good, c)
<1>1. c \in Calls /\ c.data \in Nat
  BY OneShotTexts, Zenon
<1>2. Text(dst, c.data)
  BY <1>1, OutText
<1>3. Len(dst) \in Nat
  BY <1>1, <1>2, TextLen
<1>4. NoData(w)
  BY <1>3, NoDataIn, Zenon
<1>5. given = IF good THEN ReferenceTag(alg, c, "decrypt") ELSE NoTag
  BY DEF GivenTag
<1>6. alg \in {"gcm", "ccm", "chacha20poly1305"} /\ phase \in {"idle", "done"}
  OBVIOUS
<1>7. AfterRefusal(v, dst) = IF v = "NO_ERROR" THEN dst ELSE w
  BY DEF AfterRefusal
<1> HIDE DEF w, given
<1>8. /\ d = "encrypt" => RefOf(alg, "done", d, c, TRUE, good, dst, computed, "NO_ERROR")
      /\ d # "encrypt" => RefOf(alg, "done", d, c, TRUE, good, IF v = "NO_ERROR" THEN dst ELSE w, NoTag, v)
  <2>1. v = Verdict(computed, given)
    BY DEF given
  <2> HIDE DEF v
  <2> QED BY <1>4, <1>5, <1>6, <2>1, RefWhole
<1> HIDE DEF v
<1>9. CASE d = "encrypt"
  <2>1. Whole(c, d, good, dst, computed, "NO_ERROR") /\ RefOf(alg, "done", d, c, TRUE, good, dst, computed, "NO_ERROR")
    BY <1>8, <1>9
  <2> QED BY <1>1, <1>6, <2>1, WholeKeeps, Zenon
<1>10. CASE d # "encrypt"
  <2> DEFINE o == IF v = "NO_ERROR" THEN dst ELSE w
  <2>1. Whole(c, d, good, o, NoTag, v) /\ RefOf(alg, "done", d, c, TRUE, good, o, NoTag, v)
    BY <1>7, <1>8, <1>10 DEF v
  <2> HIDE DEF o
  <2> QED BY <1>1, <1>6, <2>1, WholeKeeps, Zenon
<1> QED BY <1>9, <1>10

(* SymCryptGcmEncrypt and SymCryptGcmDecrypt.                              *)
LEMMA GcmWholeKeeps == AeadInv /\ GcmWhole => AeadInv'
<1> SUFFICES ASSUME AeadInv, GcmWhole PROVE AeadInv'
  OBVIOUS
<1>1. alg = "gcm" /\ phase = "idle"
  BY DEF GcmWhole
<1>2. PICK c \in OneShotCalls, d \in Directions, onePass \in BOOLEAN, good \in BOOLEAN :
        /\ c.data <= GcmMaxDataSize
        /\ LET r == GcmOneShot(c.nonce, AuthBytes(0, c.auth), DataBytes(0, c.data), d, onePass)
               v == Verdict(r.tag, GivenTag(good, c))
           IN IF d = "encrypt" THEN Whole(c, d, good, r.dst, r.tag, "NO_ERROR")
              ELSE Whole(c, d, good, AfterRefusal(v, r.dst), NoTag, v)
  BY DEF GcmWhole
<1> DEFINE au == AuthBytes(0, c.auth)
           src == DataBytes(0, c.data)
           r == GcmOneShot(c.nonce, au, src, d, onePass)
<1>3. c \in Calls /\ c.nonce \in Nonces /\ c.data \in Nat /\ Text(au, c.auth) /\ Text(src, c.data)
  BY OneShotTexts, Zenon
<1>4. /\ r.dst = Enc(src, 0, c.data, FirstCounter(c.nonce), 0, BlockSize, GcmSpace)
      /\ r.tag = GcmReferenceTag(c.nonce, au, MacInput(r.dst, src, d))
  <2>1. GcmOneShotIs(r, c.nonce, au, src, c.data, d)
    BY <1>3, GcmOneShotRight, Zenon
  <2> QED BY <2>1, Zenon DEF GcmOneShotIs
<1>5. StreamIsKey("gcm", c, c.data, FirstCounter(c.nonce), 0, BlockSize, GcmSpace)
  BY <1>2, <1>3, GcmStreamIsKey, Zenon
<1>6. Enc(src, 0, c.data, FirstCounter(c.nonce), 0, BlockSize, GcmSpace) = ReferenceOut("gcm", c)
  <2>1. 0 \in Nat
    OBVIOUS
  <2>2. WholeIs("gcm", c, FirstCounter(c.nonce), 0, BlockSize, GcmSpace)
    BY <1>3, <1>5, <2>1, WholeOut, Zenon
  <2> QED BY <2>2, Zenon DEF WholeIs
<1>7. IF d = "encrypt" THEN Whole(c, d, good, r.dst, r.tag, "NO_ERROR")
      ELSE Whole(c, d, good, AfterRefusal(Verdict(r.tag, GivenTag(good, c)), r.dst), NoTag,
                 Verdict(r.tag, GivenTag(good, c)))
  BY <1>2
<1> HIDE DEF r
<1>8. r.dst = ReferenceOut(alg, c)
  BY <1>1, <1>4, <1>6
<1>9. r.tag = ReferenceTag(alg, c, d)
  BY <1>1, <1>4, <1>8 DEF ReferenceTag, MacInput
<1>10. alg \in {"gcm", "ccm"}
  BY <1>1
<1> QED BY <1>1, <1>7, <1>8, <1>9, <1>10, WholeWiping, Zenon

(* SymCryptCcmInit.                                                        *)
LEMMA CcmInitKeeps == AeadInv /\ CcmInit => AeadInv'
<1> SUFFICES ASSUME AeadInv, CcmInit PROVE AeadInv'
  OBVIOUS
<1>1. PICK n \in Nonces, d \in Directions, a \in 0 .. MaxAuth, cb \in Declared :
        /\ st' = CcmInitState(n, AuthBytes(0, a), cb)
        /\ Begin("data", d, [NoCall EXCEPT !.nonce = n, !.auth = a])
  BY DEF CcmInit
<1>2. alg' = "ccm" /\ alg = "ccm"
  BY DEF CcmInit
<1> DEFINE c == [NoCall EXCEPT !.nonce = n, !.auth = a]
           t == CcmInitState(n, AuthBytes(0, a), cb)
           au == AuthBytes(0, a)
<1>3. a \in Nat /\ cb \in Nat /\ CcmValidData(cb) /\ 0 \in Nat
  BY AeadAssumption
<1>4. /\ phase' = "data" /\ dir' = d /\ call' = c /\ oneShot' = FALSE /\ genuine' = TRUE /\ out' = <<>>
      /\ tag' = NoTag /\ status' = "none" /\ st' = t
  BY <1>1, Zenon DEF Begin
<1>5. c \in Calls /\ c.nonce = n /\ c.auth = a /\ c.data = 0
  BY <1>3 DEF NoCall, Calls
<1>6. Text(au, a)
  BY <1>3, WholeTexts, Zenon
<1> HIDE DEF c, au
<1>7. CcmStarted(t, n, au, cb)
  BY <1>6, CcmInitRight, Zenon DEF au
<1> HIDE DEF t
<1>8. /\ CcmHas(t, CcmHead(n, au, cb)) /\ t.cbData = cb /\ t.bytesProcessed = 0
      /\ CtrLaw(t.keystreamBlock, t.counter, n * CcmCounterRange + 1, 0, BlockSize, CcmSpace)
  BY <1>7, Zenon DEF CcmStarted
<1>9. CcmHead(n, au, cb) \o PlainOf(c, d, <<>>) = CcmHead(n, au, cb)
  <2>1. PlainOf(c, d, <<>>) = <<>>
    BY <1>5, NoBytes DEF PlainOf
  <2>2. PICK m \in Nat : Text(CcmHead(n, au, cb), m)
    BY <1>6, CcmHeadWhole, Zenon
  <2>3. CcmHead(n, au, cb) \o <<>> = CcmHead(n, au, cb)
    BY <2>2, TextAndEmpty, Zenon
  <2> QED BY <2>1, <2>3
<1>10. CcmLawOf(t, "data", c, d, <<>>)
  <2>1. 0 <= cb
    BY <1>3
  <2> QED BY <1>3, <1>5, <1>8, <1>9, <2>1 DEF CcmLawOf, au
<1>11. RefOf("ccm", "data", d, c, FALSE, TRUE, <<>>, NoTag, "none")
  BY <1>5, RefBegins
<1>12. TypeOf("ccm", "data", d, c, FALSE, TRUE)
  BY <1>5 DEF TypeOf, Algorithms
<1>13. Good("ccm", t, "data", d, c, FALSE, TRUE, <<>>, NoTag, "none")
  BY <1>10, <1>11, <1>12 DEF Good
<1>14. Good(alg', st', phase', dir', call', oneShot', genuine', out', tag', status')
  BY <1>2, <1>4, <1>13
<1> QED BY <1>14, NewInvIs, Zenon

(* What the CBC-MAC has after the next part: the plaintext so far.         *)
PlainGrown(p, c, k, d, o, dst) ==
  (p \o PlainOf(c, d, o)) \o MacInput(DataBytes(c.data, c.data + k), dst, d)
    = p \o PlainOf([c EXCEPT !.data = @ + k], d, o \o dst)

LEMMA PlainGrows ==
  ASSUME NEW p, NEW z, Text(p, z), NEW c \in Calls, NEW k \in Nat, NEW d, NEW o, Text(o, c.data),
         NEW dst, Text(dst, k)
  PROVE  PlainGrown(p, c, k, d, o, dst)
<1> DEFINE src == DataBytes(c.data, c.data + k)
           pt == PlainOf(c, d, o)
           m == MacInput(src, dst, d)
           e == [c EXCEPT !.data = @ + k]
<1>1. /\ Text(src, k) /\ Text(DataBytes(0, c.data), c.data)
      /\ DataBytes(0, c.data) \o src = DataBytes(0, c.data + k)
  BY NextBytes, Zenon
<1>2. Text(pt, c.data) /\ Text(m, k)
  BY <1>1 DEF PlainOf, MacInput
<1>3. e.data = c.data + k
  BY LongerCalls
<1> HIDE DEF e, src
<1>4. pt \o m = PlainOf(e, d, o \o dst)
  BY <1>1, <1>3 DEF PlainOf, MacInput
<1> HIDE DEF pt, m
<1>5. Regroups(p, pt, m)
  BY <1>2, TextRegroup, Zenon
<1>6. (p \o pt) \o m = p \o (pt \o m)
  BY <1>5, Zenon DEF Regroups
<1> QED BY <1>4, <1>6 DEF PlainGrown, pt, m, e, src

(* SymCryptCcmEncryptPart and SymCryptCcmDecryptPart.                      *)
LEMMA CcmPartKeeps == AeadInv /\ CcmPart => AeadInv'
<1> SUFFICES ASSUME AeadInv, CcmPart PROVE AeadInv'
  OBVIOUS
<1>1. PICK k \in PartSizes :
        /\ st.bytesProcessed + k <= st.cbData
        /\ LET w == CcmPartState(st, NextData(k), dir)
           IN st' = w.st /\ Continue(k, w.dst)
  BY DEF CcmPart
<1>2. alg = "ccm" /\ alg' = "ccm" /\ phase = "data" /\ phase \in {"auth", "data"}
  BY DEF CcmPart
<1> DEFINE n == call.data
           c == [call EXCEPT !.data = @ + k]
           src == DataBytes(n, n + k)
           pt == PlainOf(call, dir, out)
           p == CcmHead(call.nonce, AuthBytes(0, call.auth), st.cbData)
           r == CcmPartState(st, src, dir)
           F == call.nonce * CcmCounterRange + 1
           dst == Enc(src, 0, k, F, n, BlockSize, CcmSpace)
<1>3. k \in Nat
  BY AeadAssumption
<1>4. /\ Good("ccm", st, phase, dir, call, oneShot, genuine, out, tag, status)
      /\ RefOf("ccm", phase, dir, call, FALSE, genuine, out, tag, status) /\ oneShot = FALSE
      /\ call \in Calls /\ dir \in Directions /\ genuine \in BOOLEAN
      /\ out = ReferenceOut("ccm", call) /\ Text(out, n)
  BY <1>2, InHand
<1>5. /\ st.bytesProcessed = n /\ st.cbData \in Nat /\ CcmValidData(st.cbData)
      /\ CtrLaw(st.keystreamBlock, st.counter, F, n, BlockSize, CcmSpace)
      /\ CcmHas(st, p \o pt)
  BY <1>2, <1>4 DEF Good, CcmLawOf
<1>6. /\ Text(src, k) /\ n \in Nat /\ call.auth \in Nat /\ call.nonce \in Nonces
      /\ Text(AuthBytes(0, call.auth), call.auth)
  BY <1>3, <1>4, NextBytes, Zenon
<1>7. F \in Nat
  BY <1>6, CcmFirstCounterIs
<1>8. NextData(k) = src
  BY DEF NextData
<1>9. st' = r.st /\ Continue(k, r.dst)
  BY <1>1, <1>8
<1>10. PICK z \in Nat : Text(p, z)
  BY <1>6, CcmHeadWhole, Zenon
<1> HIDE DEF F, n, src, pt, p
<1>11. CcmPartRight(r, st.cbData, src, F, n, k, p \o pt, dir)
  BY <1>5, <1>6, <1>7, CcmPartStateRight, Zenon
<1> HIDE DEF r
<1>12. /\ r.dst = dst /\ CcmHas(r.st, (p \o pt) \o MacInput(src, r.dst, dir))
       /\ CtrLaw(r.st.keystreamBlock, r.st.counter, F, n + k, BlockSize, CcmSpace)
       /\ r.st.bytesProcessed = n + k /\ r.st.cbData = st.cbData
  BY <1>11, Zenon DEF CcmPartRight
<1>13. Text(dst, k)
  <2>1. 0 \in Nat /\ 0 + k <= k
    BY <1>3
  <2>2. EncBytes(src, 0, k, F, n, BlockSize, CcmSpace)
    BY <1>3, <1>6, <2>1, EncIs, Zenon
  <2> QED BY <2>2, Zenon DEF EncBytes
<1>14. /\ c \in Calls /\ c.nonce = call.nonce /\ c.auth = call.auth /\ c.data = n + k
  BY <1>3, <1>4, LongerCalls DEF n
<1>15. n + k \in Nat /\ n + k <= st.cbData /\ n + k < CcmCounterRange
  BY <1>1, <1>3, <1>5, <1>6, CcmAssumption DEF CcmValidData
<1>16. OutGrown("ccm", call, k, dst)
  <2>1. StreamIsKey("ccm", call, n + k, F, 0, BlockSize, CcmSpace)
    BY <1>4, <1>15, CcmStreamIsKey DEF F
  <2>2. 0 \in Nat /\ 0 + n = n
    BY <1>6
  <2>3. OutGrown("ccm", call, k, Enc(src, 0, k, F, 0 + n, BlockSize, CcmSpace))
    BY <1>3, <1>4, <2>1, <2>2, OutGrows, Zenon DEF n, src
  <2> QED BY <2>2, <2>3
<1> HIDE DEF dst, c
<1>17. RefOf("ccm", "data", dir, c, FALSE, genuine, out \o dst, tag, status)
  BY <1>4, <1>16, RefContinues, Zenon DEF c
<1>18. (p \o pt) \o MacInput(src, dst, dir) = p \o PlainOf(c, dir, out \o dst)
  <2>1. Text(out, call.data)
    BY <1>4 DEF n
  <2>2. PlainGrown(p, call, k, dir, out, dst)
    BY <1>3, <1>4, <1>10, <1>13, <2>1, PlainGrows, Zenon
  <2> QED BY <2>2, Zenon DEF PlainGrown, n, pt, src, c
<1>19. CcmHead(c.nonce, AuthBytes(0, c.auth), r.st.cbData) = p
  BY <1>12, <1>14 DEF p
<1>20. CcmHas(r.st, CcmHead(c.nonce, AuthBytes(0, c.auth), r.st.cbData) \o PlainOf(c, dir, out \o dst))
  BY <1>12, <1>18, <1>19
<1>21. CtrLaw(r.st.keystreamBlock, r.st.counter, c.nonce * CcmCounterRange + 1, c.data, BlockSize, CcmSpace)
  BY <1>12, <1>14 DEF F
<1>22. CcmLawOf(r.st, "data", c, dir, out \o dst)
  BY <1>5, <1>12, <1>14, <1>15, <1>20, <1>21 DEF CcmLawOf
<1>23. TypeOf("ccm", "data", dir, c, FALSE, genuine)
  BY <1>4, <1>14 DEF TypeOf, Algorithms
<1>24. Good("ccm", r.st, "data", dir, c, FALSE, genuine, out \o dst, tag, status)
  BY <1>17, <1>22, <1>23 DEF Good
<1>25. /\ st' = r.st /\ phase' = "data" /\ call' = c /\ out' = out \o dst /\ dir' = dir /\ oneShot' = FALSE
       /\ genuine' = genuine /\ tag' = tag /\ status' = status
  BY <1>4, <1>9, <1>12 DEF Continue, c
<1>26. Good(alg', st', phase', dir', call', oneShot', genuine', out', tag', status')
  BY <1>2, <1>24, <1>25
<1> QED BY <1>26, NewInvIs, Zenon

(* SymCryptCcmEncryptFinal and SymCryptCcmDecryptFinal: all of the data    *)
(* that was declared has come.                                             *)
LEMMA CcmFinalKeeps == AeadInv /\ CcmFinal => AeadInv'
<1> SUFFICES ASSUME AeadInv, CcmFinal PROVE AeadInv'
  OBVIOUS
<1>1. PICK good \in BOOLEAN : Finish(CcmComputeTag(st), good)
  BY DEF CcmFinal
<1>2. alg = "ccm" /\ alg' = alg /\ phase = "data" /\ phase \in {"auth", "data"} /\ st.bytesProcessed = st.cbData
  BY DEF CcmFinal
<1> DEFINE n == call.data
           x == call.nonce
           au == AuthBytes(0, call.auth)
           pt == PlainOf(call, dir, out)
<1>3. /\ Good("ccm", st, phase, dir, call, oneShot, genuine, out, tag, status)
      /\ call \in Calls /\ dir \in Directions /\ out = ReferenceOut("ccm", call) /\ Text(out, n)
  BY <1>2, InHand
<1>4. /\ st.cbData = n /\ CcmValidData(n)
      /\ CtrLaw(st.keystreamBlock, st.counter, x * CcmCounterRange + 1, n, BlockSize, CcmSpace)
      /\ CcmHas(st, CcmHead(x, au, n) \o pt)
  BY <1>2, <1>3 DEF Good, CcmLawOf
<1>5. /\ n \in Nat /\ x \in Nonces /\ Text(DataBytes(0, n), n) /\ Text(au, call.auth)
  <2>1. 0 \in Nat
    OBVIOUS
  <2> QED BY <1>3, <2>1, NextBytes, Zenon
<1>6. Text(pt, n)
  BY <1>3, <1>5 DEF PlainOf
<1>7. n < CcmCounterRange
  BY <1>4 DEF CcmValidData
<1>8. ReferenceTag("ccm", call, dir) = CcmReferenceTag(x, au, pt)
  BY <1>3 DEF ReferenceTag, PlainOf
<1> HIDE DEF au, pt, x, n
<1>9. CcmTagged(st, x, au, pt)
  BY <1>4, <1>5, <1>6, <1>7, CcmTagRight, Zenon
<1>10. CcmComputeTag(st) = ReferenceTag(alg, call, dir)
  BY <1>2, <1>8, <1>9 DEF CcmTagged
<1>11. CcmLawOf(st', "done", call, dir, out)
  BY DEF CcmLawOf
<1>12. alg # "gcm" /\ alg # "chacha20" /\ alg # "poly1305" /\ alg \in {"gcm", "ccm", "chacha20poly1305"}
  BY <1>2
<1> QED BY <1>1, <1>2, <1>10, <1>11, <1>12, FinishKeeps, Zenon

(* SymCryptCcmEncrypt and SymCryptCcmDecrypt.                              *)
LEMMA CcmWholeKeeps == AeadInv /\ CcmWhole => AeadInv'
<1> SUFFICES ASSUME AeadInv, CcmWhole PROVE AeadInv'
  OBVIOUS
<1>1. alg = "ccm" /\ phase = "idle"
  BY DEF CcmWhole
<1>2. PICK c \in OneShotCalls, d \in Directions, good \in BOOLEAN :
        /\ CcmValidData(c.data)
        /\ LET w == CcmPartState(CcmInitState(c.nonce, AuthBytes(0, c.auth), c.data), DataBytes(0, c.data), d)
               t == CcmComputeTag(w.st)
               v == Verdict(t, GivenTag(good, c))
           IN IF d = "encrypt" THEN Whole(c, d, good, w.dst, t, "NO_ERROR")
              ELSE Whole(c, d, good, AfterRefusal(v, w.dst), NoTag, v)
  BY DEF CcmWhole
<1> DEFINE au == AuthBytes(0, c.auth)
           src == DataBytes(0, c.data)
           r == CcmPartState(CcmInitState(c.nonce, au, c.data), src, d)
           t == CcmComputeTag(r.st)
           F == c.nonce * CcmCounterRange + 1
<1>3. c \in Calls /\ c.nonce \in Nonces /\ c.data \in Nat /\ Text(au, c.auth) /\ Text(src, c.data)
  BY OneShotTexts, Zenon
<1>4. c.data < CcmCounterRange
  BY <1>2 DEF CcmValidData
<1>5. /\ r.dst = Enc(src, 0, c.data, F, 0, BlockSize, CcmSpace)
      /\ CcmTagged(r.st, c.nonce, au, MacInput(src, r.dst, d))
  <2>1. CcmOneShotIs(r, c.nonce, au, src, c.data, d)
    BY <1>3, <1>4, CcmOneShotRight, Zenon
  <2> QED BY <2>1, Zenon DEF CcmOneShotIs
<1>6. StreamIsKey("ccm", c, c.data, F, 0, BlockSize, CcmSpace)
  BY <1>3, <1>4, CcmStreamIsKey, Zenon
<1>7. Enc(src, 0, c.data, F, 0, BlockSize, CcmSpace) = ReferenceOut("ccm", c)
  <2>1. 0 \in Nat
    OBVIOUS
  <2>2. WholeIs("ccm", c, F, 0, BlockSize, CcmSpace)
    BY <1>3, <1>6, <2>1, WholeOut, Zenon
  <2> QED BY <2>2, Zenon DEF WholeIs
<1>8. IF d = "encrypt" THEN Whole(c, d, good, r.dst, t, "NO_ERROR")
      ELSE Whole(c, d, good, AfterRefusal(Verdict(t, GivenTag(good, c)), r.dst), NoTag,
                 Verdict(t, GivenTag(good, c)))
  BY <1>2
<1> HIDE DEF r
<1>9. r.dst = ReferenceOut(alg, c)
  BY <1>1, <1>5, <1>7
<1>10. t = ReferenceTag(alg, c, d)
  BY <1>1, <1>5, <1>9 DEF ReferenceTag, MacInput, CcmTagged
<1>11. alg \in {"gcm", "ccm"}
  BY <1>1
<1> HIDE DEF t
<1> QED BY <1>1, <1>8, <1>9, <1>10, <1>11, WholeWiping, Zenon

(* SymCryptChaCha20Init and SymCryptChaCha20SetOffset leave a stream at    *)
(* the offset with no key stream in the buffer.                            *)
LEMMA StreamStarts ==
  ASSUME AeadInv, alg = "chacha20", NEW f \in Offsets, alg' = alg, DOMAIN st' = ChaChaFields,
         st'.offset = f, st'.keystreamBufferValid = FALSE, st'.keystream = st.keystream,
         Begin("data", "encrypt", [NoCall EXCEPT !.from = f])
  PROVE  AeadInv'
<1> DEFINE c == [NoCall EXCEPT !.from = f]
<1>1. Good(alg, st, phase, dir, call, oneShot, genuine, out, tag, status)
  BY InvIs, Zenon
<1>2. f \in Nat
  BY AeadAssumption
<1>3. c \in Calls /\ c.from = f /\ c.data = 0
  <2>1. 0 \in Nonces
    BY GcmAssumption DEF Nonces
  <2> QED BY <1>2, <2>1 DEF NoCall, Calls
<1>4. /\ phase' = "data" /\ dir' = "encrypt" /\ call' = c /\ oneShot' = FALSE /\ genuine' = TRUE /\ out' = <<>>
      /\ tag' = NoTag /\ status' = "none"
  BY Zenon DEF Begin
<1> HIDE DEF c
<1>5. Text(st.keystream, ChaChaBlock)
  BY <1>1 DEF Good, ChaChaLawOf
<1> DEFINE t == st'
<1>6. /\ t.offset = f /\ t.keystreamBufferValid = FALSE /\ Text(t.keystream, ChaChaBlock)
      /\ DOMAIN t = ChaChaFields
  BY <1>5
<1>7. c.from + c.data = f
  BY <1>2, <1>3
<1> HIDE DEF t
<1>8. ChaChaHolds(t)
  BY <1>2, <1>6, Zenon DEF ChaChaHolds
<1>9. ChaChaLawOf(t, "data", c)
  BY <1>6, <1>7, <1>8 DEF ChaChaLawOf
<1>10. RefOf("chacha20", "data", "encrypt", c, FALSE, TRUE, <<>>, NoTag, "none")
  BY <1>3, RefBegins
<1>11. TypeOf("chacha20", "data", "encrypt", c, FALSE, TRUE)
  BY <1>3 DEF TypeOf, Algorithms, Directions
<1>12. Good("chacha20", t, "data", "encrypt", c, FALSE, TRUE, <<>>, NoTag, "none")
  BY <1>9, <1>10, <1>11 DEF Good
<1>13. Good(alg', st', phase', dir', call', oneShot', genuine', out', tag', status')
  BY <1>4, <1>12 DEF t
<1> QED BY <1>13, NewInvIs, Zenon

(* SymCryptChaCha20Init.                                                   *)
LEMMA ChaCha20InitKeeps == AeadInv /\ ChaCha20Init => AeadInv'
<1> SUFFICES ASSUME AeadInv, ChaCha20Init PROVE AeadInv'
  OBVIOUS
<1>1. PICK f \in Offsets :
        /\ st' = [ChaCha20InitState(f) EXCEPT !.keystream = st.keystream]
        /\ Begin("data", "encrypt", [NoCall EXCEPT !.from = f])
  BY DEF ChaCha20Init
<1>2. alg = "chacha20" /\ alg' = alg
  BY DEF ChaCha20Init
<1>3. /\ DOMAIN st' = ChaChaFields /\ st'.offset = f /\ st'.keystreamBufferValid = FALSE
      /\ st'.keystream = st.keystream
  BY <1>1 DEF ChaCha20InitState, ChaCha20SetOffset, ChaChaFields
<1> QED BY <1>1, <1>2, <1>3, StreamStarts, Zenon

(* SymCryptChaCha20SetOffset.                                              *)
LEMMA SetOffsetKeeps == AeadInv /\ SetOffset => AeadInv'
<1> SUFFICES ASSUME AeadInv, SetOffset PROVE AeadInv'
  OBVIOUS
<1>1. PICK f \in Offsets :
        st' = ChaCha20SetOffset(st, f) /\ Begin("data", "encrypt", [NoCall EXCEPT !.from = f])
  BY DEF SetOffset
<1>2. alg = "chacha20" /\ alg' = alg
  BY DEF SetOffset
<1>3. DOMAIN st = ChaChaFields
  BY <1>2, InvIs DEF Good, ChaChaLawOf
<1>4. /\ DOMAIN st' = ChaChaFields /\ st'.offset = f /\ st'.keystreamBufferValid = FALSE
      /\ st'.keystream = st.keystream
  BY <1>1, <1>3 DEF ChaCha20SetOffset, ChaChaFields
<1> QED BY <1>1, <1>2, <1>4, StreamStarts, Zenon

(* SymCryptChaCha20Crypt.                                                  *)
LEMMA ChaCha20CryptKeeps == AeadInv /\ ChaCha20Crypt => AeadInv'
<1> SUFFICES ASSUME AeadInv, ChaCha20Crypt PROVE AeadInv'
  OBVIOUS
<1>1. PICK k \in PartSizes :
        LET w == ChaCha20CryptState(st, NextData(k))
        IN st' = w.st /\ Continue(k, w.dst)
  BY DEF ChaCha20Crypt
<1>2. alg = "chacha20" /\ alg' = "chacha20" /\ phase = "data" /\ phase \in {"auth", "data"}
  BY DEF ChaCha20Crypt
<1> DEFINE n == call.data
           f == call.from
           c == [call EXCEPT !.data = @ + k]
           src == DataBytes(n, n + k)
           r == ChaCha20CryptState(st, src)
           dst == Enc(src, 0, k, 0, f + n, ChaChaBlock, ChaChaRange)
<1>3. k \in Nat
  BY AeadAssumption
<1>4. /\ Good("chacha20", st, phase, dir, call, oneShot, genuine, out, tag, status)
      /\ RefOf("chacha20", phase, dir, call, FALSE, genuine, out, tag, status) /\ oneShot = FALSE
      /\ call \in Calls /\ dir \in Directions /\ genuine \in BOOLEAN
  BY <1>2, InHand
<1>5. st.offset = f + n /\ st.keystreamBufferValid \in BOOLEAN /\ ChaChaHolds(st)
  BY <1>2, <1>4 DEF Good, ChaChaLawOf
<1>6. Text(src, k) /\ n \in Nat /\ f \in Nat
  BY <1>3, <1>4, NextBytes, Zenon
<1>7. NextData(k) = src
  BY DEF NextData
<1>8. st' = r.st /\ Continue(k, r.dst)
  BY <1>1, <1>7
<1> HIDE DEF n, src, f
<1>9. ChaChaRight(r, src, st.offset, k)
  BY <1>5, <1>6, ChaChaCrypts, Zenon
<1> HIDE DEF r
<1>10. /\ r.dst = dst /\ ChaChaHolds(r.st) /\ r.st.offset = f + n + k
       /\ DOMAIN r.st = ChaChaFields /\ r.st.keystreamBufferValid \in BOOLEAN
  BY <1>5, <1>9 DEF ChaChaRight
<1>11. /\ c \in Calls /\ c.from = f /\ c.data = n + k
  BY <1>3, <1>4, LongerCalls DEF n, f
<1>12. OutGrown("chacha20", call, k, dst)
  <2>1. n + k \in Nat
    BY <1>3, <1>6
  <2>2. StreamIsKey("chacha20", call, n + k, 0, f, ChaChaBlock, ChaChaRange)
    BY <1>4, <2>1, ChaChaStreamIsKey DEF f
  <2> QED BY <1>3, <1>4, <1>6, <2>2, OutGrows, Zenon DEF n, src
<1> HIDE DEF dst, c
<1>13. RefOf("chacha20", "data", dir, c, FALSE, genuine, out \o dst, tag, status)
  BY <1>4, <1>12, RefContinues, Zenon DEF c
<1>14. ChaChaLawOf(r.st, "data", c)
  <2>1. f + n + k = f + (n + k)
    BY <1>3, <1>6
  <2>2. Text(r.st.keystream, ChaChaBlock)
    BY <1>10 DEF ChaChaHolds
  <2> QED BY <1>10, <1>11, <2>1, <2>2 DEF ChaChaLawOf
<1>15. TypeOf("chacha20", "data", dir, c, FALSE, genuine)
  BY <1>4, <1>11 DEF TypeOf, Algorithms
<1>16. Good("chacha20", r.st, "data", dir, c, FALSE, genuine, out \o dst, tag, status)
  BY <1>13, <1>14, <1>15 DEF Good
<1>17. /\ st' = r.st /\ phase' = "data" /\ call' = c /\ out' = out \o dst /\ dir' = dir /\ oneShot' = FALSE
       /\ genuine' = genuine /\ tag' = tag /\ status' = status
  BY <1>4, <1>8, <1>10 DEF Continue, c
<1>18. Good(alg', st', phase', dir', call', oneShot', genuine', out', tag', status')
  BY <1>2, <1>16, <1>17
<1> QED BY <1>18, NewInvIs, Zenon

(* SymCryptPoly1305Init.                                                   *)
LEMMA Poly1305InitKeeps == AeadInv /\ Poly1305Init => AeadInv'
<1> SUFFICES ASSUME AeadInv, Poly1305Init PROVE AeadInv'
  OBVIOUS
<1> DEFINE t == [Poly1305InitState(PolyKey) EXCEPT !.buf = st.buf]
<1>1. Good(alg, st, phase, dir, call, oneShot, genuine, out, tag, status)
  BY InvIs, Zenon
<1>2. alg = "poly1305" /\ alg' = "poly1305" /\ st' = t /\ Begin("data", "encrypt", NoCall)
  BY DEF Poly1305Init
<1>3. /\ phase' = "data" /\ dir' = "encrypt" /\ call' = NoCall /\ oneShot' = FALSE /\ genuine' = TRUE
      /\ out' = <<>> /\ tag' = NoTag /\ status' = "none"
  BY <1>2, Zenon DEF Begin
<1>4. Text(st.buf, PolyBlock)
  BY <1>1, <1>2 DEF Good, PolyLawOf
<1>5. DOMAIN t = PolyFields /\ t.a = <<>> /\ t.bytesInBuffer = 0 /\ t.buf = st.buf /\ t.key = PolyKey
  BY DEF Poly1305InitState, PolyFields
<1> HIDE DEF t
<1>6. Text(t.buf, PolyBlock)
  BY <1>4, <1>5
<1>7. PolyHas(t, <<>>)
  BY <1>5, <1>6, PolyStarts, Zenon
<1>8. NoCall \in Calls /\ NoCall.data = 0
  <2>1. 0 \in Nonces
    BY GcmAssumption DEF Nonces
  <2> QED BY <2>1 DEF NoCall, Calls
<1>9. DataBytes(0, NoCall.data) = <<>>
  BY <1>8, NoBytes
<1>10. PolyLawOf(t, "data", "encrypt", NoCall)
  BY <1>5, <1>6, <1>7, <1>9 DEF PolyLawOf
<1>11. RefOf("poly1305", "data", "encrypt", NoCall, FALSE, TRUE, <<>>, NoTag, "none")
  BY <1>8, RefBegins
<1>12. TypeOf("poly1305", "data", "encrypt", NoCall, FALSE, TRUE)
  BY <1>8 DEF TypeOf, Algorithms, Directions
<1>13. Good("poly1305", t, "data", "encrypt", NoCall, FALSE, TRUE, <<>>, NoTag, "none")
  BY <1>10, <1>11, <1>12 DEF Good
<1>14. Good(alg', st', phase', dir', call', oneShot', genuine', out', tag', status')
  BY <1>2, <1>3, <1>13
<1> QED BY <1>14, NewInvIs, Zenon

(* SymCryptPoly1305Append.                                                 *)
LEMMA Poly1305AppendKeeps == AeadInv /\ Poly1305Append => AeadInv'
<1> SUFFICES ASSUME AeadInv, Poly1305Append PROVE AeadInv'
  OBVIOUS
<1>1. PICK k \in PartSizes : st' = Poly1305AppendState(st, NextData(k)) /\ Continue(k, <<>>)
  BY DEF Poly1305Append
<1>2. alg = "poly1305" /\ alg' = "poly1305" /\ phase = "data" /\ phase \in {"auth", "data"}
  BY DEF Poly1305Append
<1> DEFINE n == call.data
           c == [call EXCEPT !.data = @ + k]
           src == DataBytes(n, n + k)
           t == Poly1305AppendState(st, src)
<1>3. k \in Nat
  BY AeadAssumption
<1>4. /\ Good("poly1305", st, phase, dir, call, oneShot, genuine, out, tag, status)
      /\ RefOf("poly1305", phase, dir, call, FALSE, genuine, out, tag, status) /\ oneShot = FALSE
      /\ call \in Calls /\ dir \in Directions /\ genuine \in BOOLEAN
  BY <1>2, InHand
<1>5. dir = "encrypt" /\ st.key = PolyKey /\ PolyHas(st, DataBytes(0, n))
  BY <1>2, <1>4 DEF Good, PolyLawOf
<1>6. Text(src, k) /\ DataBytes(0, n) \o src = DataBytes(0, n + k)
  BY <1>3, <1>4, NextBytes, Zenon
<1>7. NextData(k) = src
  BY DEF NextData
<1>8. st' = t
  BY <1>1, <1>7
<1> HIDE DEF n, src
<1>9. PolyHas(t, DataBytes(0, n) \o src) /\ t.key = st.key
  BY <1>5, <1>6, PolyAppends, Zenon
<1> HIDE DEF t
<1>10. c \in Calls /\ c.data = n + k
  BY <1>3, <1>4, LongerCalls DEF n
<1> HIDE DEF c
<1>11. PolyHas(t, DataBytes(0, c.data)) /\ t.key = PolyKey
  BY <1>5, <1>6, <1>9, <1>10
<1>12. DOMAIN t = PolyFields /\ Text(t.buf, PolyBlock)
  BY <1>11 DEF PolyHas, PolyTook, MacLaw
<1>13. PolyLawOf(t, "data", dir, c)
  BY <1>5, <1>11, <1>12 DEF PolyLawOf
<1>14. RefOf("poly1305", "data", dir, c, FALSE, genuine, out \o <<>>, tag, status)
  <2>1. "poly1305" # "poly1305" => OutGrown("poly1305", call, k, <<>>)
    OBVIOUS
  <2> QED BY <1>4, <2>1, RefContinues, Zenon DEF c
<1>15. TypeOf("poly1305", "data", dir, c, FALSE, genuine)
  BY <1>4, <1>10 DEF TypeOf, Algorithms
<1>16. Good("poly1305", t, "data", dir, c, FALSE, genuine, out \o <<>>, tag, status)
  BY <1>13, <1>14, <1>15 DEF Good
<1>17. /\ phase' = "data" /\ call' = c /\ out' = out \o <<>> /\ dir' = dir /\ oneShot' = FALSE
       /\ genuine' = genuine /\ tag' = tag /\ status' = status
  BY <1>1, <1>4, Zenon DEF Continue, c
<1>18. Good(alg', st', phase', dir', call', oneShot', genuine', out', tag', status')
  BY <1>2, <1>8, <1>16, <1>17
<1> QED BY <1>18, NewInvIs, Zenon

(* SymCryptPoly1305Result.                                                 *)
LEMMA Poly1305ResultKeeps == AeadInv /\ Poly1305Result => AeadInv'
<1> SUFFICES ASSUME AeadInv, Poly1305Result PROVE AeadInv'
  OBVIOUS
<1>1. Finish(Poly1305Tag(st), TRUE) /\ st' = [Poly1305InitState(PolyKey) EXCEPT !.buf = Zeroes(PolyBlock)]
  BY DEF Poly1305Result
<1>2. alg = "poly1305" /\ alg' = alg /\ phase = "data" /\ phase \in {"auth", "data"}
  BY DEF Poly1305Result
<1>3. Good("poly1305", st, phase, dir, call, oneShot, genuine, out, tag, status)
  BY <1>2, InHand
<1>4. dir = "encrypt" /\ st.key = PolyKey /\ PolyHas(st, DataBytes(0, call.data))
  BY <1>2, <1>3 DEF Good, PolyLawOf
<1>5. Poly1305Tag(st) = PolyReferenceTag(st.key, DataBytes(0, call.data))
  BY <1>4, PolyTagRight, Zenon
<1>6. Poly1305Tag(st) = ReferenceTag(alg, call, dir)
  BY <1>2, <1>4, <1>5 DEF ReferenceTag
<1>7. PolyLawOf(st', "done", dir, call)
  <2>1. PolyBlock \in Nat
    BY ChaChaAssumption
  <2>2. Text(Zeroes(PolyBlock), PolyBlock)
    BY <2>1, TextZeroes, Zenon
  <2>3. DOMAIN st' = PolyFields /\ st'.buf = Zeroes(PolyBlock)
    BY <1>1 DEF Poly1305InitState, PolyFields
  <2> QED BY <2>2, <2>3 DEF PolyLawOf
<1>8. alg # "gcm" /\ alg # "ccm" /\ alg # "chacha20" /\ TRUE \in BOOLEAN
  BY <1>2
<1> QED BY <1>1, <1>2, <1>4, <1>6, <1>7, <1>8, FinishKeeps, Zenon

(* SymCryptChaCha20Poly1305Encrypt and ...Decrypt.                         *)
LEMMA ChaChaPolyWholeKeeps == AeadInv /\ ChaChaPolyWhole => AeadInv'
<1> SUFFICES ASSUME AeadInv, ChaChaPolyWhole PROVE AeadInv'
  OBVIOUS
<1>1. alg = "chacha20poly1305" /\ phase \in {"idle", "done"}
  BY DEF ChaChaPolyWhole
<1>2. PICK c \in OneShotCalls, d \in Directions, good \in BOOLEAN :
        LET r == ChaChaOneShot(AuthBytes(0, c.auth), DataBytes(0, c.data), d)
            v == Verdict(r.tag, GivenTag(good, c))
        IN IF c.data > ChaChaMaxDataSize
           THEN Whole(c, d, good, Untouched(c.data), NoTag, "WRONG_DATA_SIZE")
           ELSE IF d = "encrypt" THEN Whole(c, d, good, r.dst, r.tag, "NO_ERROR")
           ELSE Whole(c, d, good, IF v = "NO_ERROR" THEN r.dst ELSE Untouched(c.data), NoTag, v)
  BY DEF ChaChaPolyWhole
<1> DEFINE au == AuthBytes(0, c.auth)
           src == DataBytes(0, c.data)
           r == ChaChaOneShot(au, src, d)
           given == GivenTag(good, c)
           v == Verdict(r.tag, given)
           w == Untouched(c.data)
<1>3. c \in Calls /\ c.data \in Nat /\ Text(au, c.auth) /\ Text(src, c.data)
  BY OneShotTexts, Zenon
<1>4. /\ r.dst = Enc(src, 0, c.data, 0, ChaChaBlock, ChaChaBlock, ChaChaRange)
      /\ r.tag = ChaChaReferenceTag(au, MacInput(r.dst, src, d))
  <2>1. ChaChaOneShotIs(r, au, src, c.data, d)
    BY <1>3, ChaChaOneShotRight, Zenon
  <2> QED BY <2>1, Zenon DEF ChaChaOneShotIs
<1>5. Enc(src, 0, c.data, 0, ChaChaBlock, ChaChaBlock, ChaChaRange) = ReferenceOut("chacha20poly1305", c)
  <2>1. ChaChaBlock \in Nat
    BY ChaChaAssumption
  <2>2. StreamIsKey("chacha20poly1305", c, c.data, 0, ChaChaBlock, ChaChaBlock, ChaChaRange)
    BY <1>3, ChaChaStreamIsKey, Zenon
  <2>3. WholeIs("chacha20poly1305", c, 0, ChaChaBlock, ChaChaBlock, ChaChaRange)
    BY <1>3, <2>1, <2>2, WholeOut, Zenon
  <2> QED BY <2>3, Zenon DEF WholeIs
<1>6. IF c.data > ChaChaMaxDataSize THEN Whole(c, d, good, w, NoTag, "WRONG_DATA_SIZE")
      ELSE IF d = "encrypt" THEN Whole(c, d, good, r.dst, r.tag, "NO_ERROR")
      ELSE Whole(c, d, good, IF v = "NO_ERROR" THEN r.dst ELSE w, NoTag, v)
  BY <1>2
<1>7. NoData(w)
  BY <1>3, NoDataIn, Zenon
<1> HIDE DEF r
<1>8. r.dst = ReferenceOut(alg, c)
  BY <1>1, <1>4, <1>5
<1>9. r.tag = ReferenceTag(alg, c, d)
  BY <1>1, <1>4, <1>8 DEF ReferenceTag, MacInput
<1>10. given = IF good THEN ReferenceTag(alg, c, "decrypt") ELSE NoTag
  BY DEF GivenTag
<1>11. alg \in {"gcm", "ccm", "chacha20poly1305"}
  BY <1>1
<1> HIDE DEF w, given, au, src
<1>12. /\ d = "encrypt" => RefOf(alg, "done", d, c, TRUE, good, r.dst, r.tag, "NO_ERROR")
       /\ d # "encrypt" => RefOf(alg, "done", d, c, TRUE, good, IF v = "NO_ERROR" THEN r.dst ELSE w, NoTag, v)
       /\ RefOf(alg, "done", d, c, TRUE, good, w, NoTag, "WRONG_DATA_SIZE")
  <2> DEFINE dst == r.dst
             computed == r.tag
  <2>1. dst = ReferenceOut(alg, c) /\ computed = ReferenceTag(alg, c, d)
    BY <1>8, <1>9
  <2> HIDE DEF dst, computed
  <2>2. /\ d = "encrypt" => RefOf(alg, "done", d, c, TRUE, good, dst, computed, "NO_ERROR")
        /\ d # "encrypt" => RefOf(alg, "done", d, c, TRUE, good,
                                  IF Verdict(computed, given) = "NO_ERROR" THEN dst ELSE w, NoTag,
                                  Verdict(computed, given))
        /\ RefOf(alg, "done", d, c, TRUE, good, w, NoTag, "WRONG_DATA_SIZE")
    BY <1>7, <1>10, <1>11, <2>1, RefWhole, Zenon
  <2> QED BY <2>2, Zenon DEF dst, computed
<1> DEFINE o == IF v = "NO_ERROR" THEN r.dst ELSE w
<1> HIDE DEF v
<1>13. CASE c.data > ChaChaMaxDataSize
  <2>1. Whole(c, d, good, w, NoTag, "WRONG_DATA_SIZE")
    BY <1>6, <1>13
  <2> QED BY <1>1, <1>3, <1>11, <1>12, <2>1, WholeKeeps, Zenon
<1>14. CASE ~(c.data > ChaChaMaxDataSize) /\ d = "encrypt"
  <2>1. /\ Whole(c, d, good, r.dst, r.tag, "NO_ERROR")
        /\ RefOf(alg, "done", d, c, TRUE, good, r.dst, r.tag, "NO_ERROR")
    BY <1>6, <1>12, <1>14
  <2> QED BY <1>1, <1>3, <1>11, <2>1, WholeKeeps, Zenon
<1>15. CASE ~(c.data > ChaChaMaxDataSize) /\ d # "encrypt"
  <2>1. Whole(c, d, good, o, NoTag, v) /\ RefOf(alg, "done", d, c, TRUE, good, o, NoTag, v)
    BY <1>6, <1>12, <1>15
  <2> HIDE DEF o
  <2> QED BY <1>1, <1>3, <1>11, <2>1, WholeKeeps, Zenon
<1> QED BY <1>13, <1>14, <1>15

(* Objects that nobody has called yet.                                     *)
LEMMA AeadStarts == Init => AeadInv
<1> SUFFICES ASSUME Init PROVE AeadInv
  OBVIOUS
<1>1. /\ alg \in Algorithms /\ st = StartState[alg] /\ phase = "idle" /\ dir = "encrypt" /\ call = NoCall
      /\ oneShot = FALSE /\ genuine = TRUE /\ out = <<>> /\ tag = NoTag /\ status = "none"
  BY Zenon DEF Init
<1>2. NoCall \in Calls /\ NoCall.data = 0
  <2>1. 0 \in Nonces
    BY GcmAssumption DEF Nonces
  <2> QED BY <2>1 DEF NoCall, Calls
<1>3. ReferenceOut(alg, NoCall) = <<>>
  BY <1>2, OutText, Zenon
<1>4. RefOf(alg, "idle", "encrypt", NoCall, FALSE, TRUE, <<>>, NoTag, "none")
  BY <1>3 DEF RefOf
<1>5. TypeOf(alg, "idle", "encrypt", NoCall, FALSE, TRUE)
  BY <1>1, <1>2 DEF TypeOf, Directions
<1>6. BlockSize \in Nat /\ ChaChaBlock \in Nat /\ PolyBlock \in Nat
  BY GcmAssumption, ChaChaAssumption
<1>7. \A B \in Nat : Text(StaleBlock(B), B)
  BY StaleText, Zenon
<1>8. alg = "gcm" => GcmLawOf(st, "idle", NoCall, "encrypt", <<>>)
  <2> SUFFICES ASSUME alg = "gcm" PROVE GcmLawOf(st, "idle", NoCall, "encrypt", <<>>)
    OBVIOUS
  <2>1. st = GcmUninitialised
    BY <1>1 DEF StartState
  <2>2. /\ DOMAIN GcmUninitialised = DOMAIN GcmWiped
        /\ GcmUninitialised.macBlock = StaleBlock(BlockSize)
        /\ GcmUninitialised.keystreamBlock = StaleBlock(BlockSize)
    BY DEF GcmUninitialised, GcmWiped
  <2> HIDE DEF GcmUninitialised
  <2> QED BY <1>6, <1>7, <2>1, <2>2 DEF GcmLawOf
<1>9. alg = "ccm" => CcmLawOf(st, "idle", NoCall, "encrypt", <<>>)
  BY DEF CcmLawOf
<1>10. alg = "chacha20" => ChaChaLawOf(st, "idle", NoCall)
  <2> SUFFICES ASSUME alg = "chacha20" PROVE ChaChaLawOf(st, "idle", NoCall)
    OBVIOUS
  <2>1. st = ChaCha20InitState(0)
    BY <1>1 DEF StartState
  <2>2. ChaCha20InitState(0).keystream = StaleBlock(ChaChaBlock)
    BY DEF ChaCha20InitState, ChaCha20SetOffset
  <2> QED BY <1>6, <1>7, <2>1, <2>2, StateFields DEF ChaChaLawOf
<1>11. alg = "poly1305" => PolyLawOf(st, "idle", "encrypt", NoCall)
  <2> SUFFICES ASSUME alg = "poly1305" PROVE PolyLawOf(st, "idle", "encrypt", NoCall)
    OBVIOUS
  <2>1. st = Poly1305InitState(PolyKey)
    BY <1>1 DEF StartState
  <2>2. Poly1305InitState(PolyKey).buf = StaleBlock(PolyBlock)
    BY DEF Poly1305InitState
  <2> QED BY <1>6, <1>7, <2>1, <2>2, StateFields DEF PolyLawOf
<1>12. Good(alg, st, "idle", "encrypt", NoCall, FALSE, TRUE, <<>>, NoTag, "none")
  BY <1>4, <1>5, <1>8, <1>9, <1>10, <1>11, Zenon DEF Good
<1>13. Good(alg, st, phase, dir, call, oneShot, genuine, out, tag, status)
  BY <1>1, <1>12
<1> QED BY <1>13, InvIs, Zenon

(* A step that changes none of the variables.                              *)
LEMMA AeadStutters == AeadInv /\ UNCHANGED vars => AeadInv'
<1> SUFFICES ASSUME AeadInv, UNCHANGED vars PROVE AeadInv'
  OBVIOUS
<1>1. Good(alg, st, phase, dir, call, oneShot, genuine, out, tag, status)
  BY InvIs, Zenon
<1>2. /\ alg' = alg /\ st' = st /\ phase' = phase /\ dir' = dir /\ call' = call /\ oneShot' = oneShot
      /\ genuine' = genuine /\ out' = out /\ tag' = tag /\ status' = status
  BY Zenon DEF vars
<1>3. Good(alg', st', phase', dir', call', oneShot', genuine', out', tag', status')
  BY <1>1, <1>2
<1> QED BY <1>3, NewInvIs, Zenon

(* Every call keeps the invariant.                                         *)
LEMMA AeadKeeps == AeadInv /\ [Next]_vars => AeadInv'
<1> SUFFICES ASSUME AeadInv, [Next]_vars PROVE AeadInv'
  OBVIOUS
<1>1. CASE Next
  BY <1>1, GcmInitKeeps, GcmAuthPartKeeps, GcmPartKeeps, GcmFinalKeeps, GcmWholeKeeps,
     CcmInitKeeps, CcmPartKeeps, CcmFinalKeeps, CcmWholeKeeps,
     ChaCha20InitKeeps, SetOffsetKeeps, ChaCha20CryptKeeps,
     Poly1305InitKeeps, Poly1305AppendKeeps, Poly1305ResultKeeps, ChaChaPolyWholeKeeps, Zenon DEF Next
<1>2. CASE UNCHANGED vars
  BY <1>2, AeadStutters, Zenon
<1> QED BY <1>1, <1>2

(* GCM, CCM, ChaCha20, Poly1305 and ChaCha20-Poly1305, whichever parts the *)
(* message is passed in: the counter is past the blocks that were begun,   *)
(* the key stream in the buffer is that of the block in hand, and the MAC  *)
(* has taken the whole blocks of its text and buffers the rest.            *)
THEOREM AeadInvariance == Spec => []AeadInv
<1>1. Init => AeadInv
  BY AeadStarts
<1>2. AeadInv /\ [Next]_vars => AeadInv'
  BY AeadKeeps
<1> QED BY <1>1, <1>2, PTL DEF Spec

(* Every byte that comes out and every tag is the one of the standard for  *)
(* the message as a whole, a decryption accepts exactly the right tag, and *)
(* a one-call decryption that refuses leaves nothing of the data: for all  *)
(* block sizes, counter ranges, limits and sizes of parts.                 *)
THEOREM AeadReference == Spec => []AeadIsReference
<1>1. AeadInv => AeadIsReference
  BY DEF AeadInv
<1> QED BY <1>1, AeadInvariance, PTL

(* The same in all that the objects do that take a message in parts.       *)
THEOREM MessagesAeadIsReference == MCMessagesSpec => []AeadIsReference
<1>1. MCMessagesInit => Init
  BY DEF MCMessagesInit
<1>2. [MCMessagesNext]_<<part, objectVars, hmacVars, macVars, modeVars, vars>> => [Next]_vars
  BY DEF MCMessagesNext
<1>3. MCMessagesSpec => Spec
  BY <1>1, <1>2, PTL DEF MCMessagesSpec, Spec
<1> QED BY <1>3, AeadReference, PTL
-----------------------------------------------------------------------------
(* The loop of a mode, as a function that follows its own definition.      *)
LoopTo(f, m, d, start, n) ==
  f = [i \in 0 .. n |-> IF i = 0 THEN start ELSE Step(m, d, f[i - 1], i - 1)]

(* There is one for every number of steps: were there none, take the least *)
(* such number.                                                            *)
LEMMA LoopExists ==
  ASSUME NEW m, NEW d, NEW start, NEW n \in Nat
  PROVE  \E f : LoopTo(f, m, d, start, n)
<1> DEFINE S == {k \in Nat : ~ \E f : LoopTo(f, m, d, start, k)}
<1> SUFFICES ASSUME S # {} PROVE FALSE
  OBVIOUS
<1>1. S \in SUBSET Nat
  OBVIOUS
<1> HIDE DEF S
<1>2. PICK k \in S : \A l \in S : k <= l
  BY <1>1, LeastNatural
<1> USE DEF S
<1>3. k \in Nat /\ ~ \E f : LoopTo(f, m, d, start, k)
  BY <1>2
<1>4. CASE k = 0
  <2> DEFINE g == [i \in 0 .. 0 |-> start]
  <2>1. LoopTo(g, m, d, start, 0)
    BY DEF LoopTo
  <2> QED BY <1>3, <1>4, <2>1
<1>5. CASE k # 0
  <2>1. k - 1 \in Nat /\ ~(k <= k - 1)
    BY <1>3, <1>5
  <2>2. k - 1 \notin S
    BY <1>2, <2>1
  <2>3. PICK f : LoopTo(f, m, d, start, k - 1)
    BY <2>1, <2>2
  <2> DEFINE g == [i \in 0 .. k |-> IF i = 0 THEN start ELSE Step(m, d, f[i - 1], i - 1)]
  <2>4. \A i \in 0 .. k - 1 : f[i] = IF i = 0 THEN start ELSE Step(m, d, f[i - 1], i - 1)
    BY <2>3 DEF LoopTo
  <2>5. \A i \in 0 .. k - 1 : g[i] = f[i]
    BY <1>3, <2>4
  <2>6. \A i \in 0 .. k : i # 0 => i - 1 \in 0 .. k - 1
    BY <1>3
  <2>7. \A i \in 0 .. k : i # 0 => g[i - 1] = f[i - 1]
    <3> HIDE DEF g
    <3> QED BY <2>5, <2>6
  <2> DEFINE h == [i \in 0 .. k |-> IF i = 0 THEN start ELSE Step(m, d, g[i - 1], i - 1)]
  <2>8. \A i \in 0 .. k : g[i] = h[i]
    <3> TAKE i \in 0 .. k
    <3>1. g[i] = IF i = 0 THEN start ELSE Step(m, d, f[i - 1], i - 1)
      OBVIOUS
    <3>2. h[i] = IF i = 0 THEN start ELSE Step(m, d, g[i - 1], i - 1)
      OBVIOUS
    <3> HIDE DEF g, h
    <3> QED BY <2>7, <3>1, <3>2
  <2>9. g = h
    <3>1. g = [i \in 0 .. k |-> g[i]] /\ h = [i \in 0 .. k |-> h[i]]
      OBVIOUS
    <3> HIDE DEF g, h
    <3> QED BY <2>8, <3>1
  <2>10. LoopTo(g, m, d, start, k)
    <3> HIDE DEF g
    <3> QED BY <2>9 DEF LoopTo
  <2> QED BY <1>3, <2>10
<1> QED BY <1>4, <1>5

(* So the loop is what its definition says.                                *)
LEMMA LoopIs ==
  ASSUME NEW m, NEW d, NEW start, NEW n \in Nat
  PROVE  /\ ModeLoop(m, d, start, n)[0] = start
         /\ \A i \in 0 .. n - 1 :
              ModeLoop(m, d, start, n)[i + 1] = Step(m, d, ModeLoop(m, d, start, n)[i], i)
<1> DEFINE f == ModeLoop(m, d, start, n)
<1>1. \E h : LoopTo(h, m, d, start, n)
  BY LoopExists
<1>2. f = CHOOSE h : LoopTo(h, m, d, start, n)
  BY Zenon DEF ModeLoop, LoopTo
<1>3. LoopTo(f, m, d, start, n)
  BY <1>1, <1>2, Zenon
<1> HIDE DEF f
<1>4. \A i \in 0 .. n : f[i] = IF i = 0 THEN start ELSE Step(m, d, f[i - 1], i - 1)
  BY <1>3 DEF LoopTo
<1>5. f[0] = start
  BY <1>4
<1>6. ASSUME NEW i \in 0 .. n - 1 PROVE f[i + 1] = Step(m, d, f[i], i)
  <2>1. i + 1 \in 0 .. n /\ i + 1 # 0 /\ (i + 1) - 1 = i
    OBVIOUS
  <2> QED BY <1>4, <2>1
<1> QED BY <1>5, <1>6 DEF f
-----------------------------------------------------------------------------
(* Bytes in which the inverse of the cipher has no part.                   *)
Plainly(x, n) == \A k \in 1 .. n : \A atom \in x[k] : atom[1] # "dec"

(* The cipher on a block that its inverse has no part in: a new block, and *)
(* the inverse gives the old one back.                                     *)
LEMMA Enciphers ==
  ASSUME NEW x, Plainly(x, ModeBlock)
  PROVE  /\ Text(BlockEncrypt(x), ModeBlock) /\ Plainly(BlockEncrypt(x), ModeBlock)
         /\ BlockDecrypt(BlockEncrypt(x)) = x
<1> DEFINE y == [j \in 1 .. ModeBlock |-> Atom("enc", x, j)]
<1>1. ModeBlock \in Nat /\ 1 \in 1 .. ModeBlock
  BY ModesAssumption
<1>2. ~IsOutput("dec", x)
  <2> SUFFICES ASSUME IsOutput("dec", x) PROVE FALSE
    OBVIOUS
  <2>1. PICK atom \in x[1] : atom[1] = "dec"
    BY <1>1, Zenon DEF IsOutput
  <2>2. atom[1] # "dec"
    BY <1>1, <2>1, Zenon DEF Plainly
  <2> QED BY <2>1, <2>2
<1>3. BlockEncrypt(x) = y
  BY <1>2, Zenon DEF BlockEncrypt
<1>4. \A j \in 1 .. ModeBlock : y[j] = {<<"enc", x, j>>}
  BY DEF Atom
<1>5. Text(y, ModeBlock)
  BY <1>1 DEF Text
<1>6. Plainly(y, ModeBlock)
  <2> SUFFICES ASSUME NEW k \in 1 .. ModeBlock, NEW atom \in y[k] PROVE atom[1] # "dec"
    BY DEF Plainly
  <2>1. atom = <<"enc", x, k>>
    BY <1>4
  <2> QED BY <2>1
<1>7. IsOutput("enc", y)
  <2>1. ASSUME NEW j \in 1 .. ModeBlock
        PROVE  \E atom \in y[j] : y[j] = {atom} /\ atom[1] = "enc" /\ atom[3] = j
    <3> DEFINE e == <<"enc", x, j>>
    <3>1. y[j] = {e} /\ e[1] = "enc" /\ e[3] = j
      BY <1>4
    <3> QED BY <3>1
  <2>2. \E b \in {atom[2] : atom \in y[1]} : \A j \in 1 .. ModeBlock : y[j] = Atom("enc", b, j)
    <3>1. <<"enc", x, 1>> \in y[1] /\ <<"enc", x, 1>>[2] = x
      BY <1>1, <1>4
    <3>2. x \in {atom[2] : atom \in y[1]}
      BY <3>1
    <3> QED BY <3>2
  <2> HIDE DEF y
  <2> QED BY <2>1, <2>2 DEF IsOutput
<1>8. InputOf(y) = x
  <2>1. y[1] = {<<"enc", x, 1>>}
    BY <1>1, <1>4
  <2>2. (CHOOSE atom \in y[1] : TRUE) = <<"enc", x, 1>>
    BY <2>1
  <2>3. <<"enc", x, 1>>[2] = x
    OBVIOUS
  <2> QED BY <2>2, <2>3 DEF InputOf
<1> HIDE DEF y
<1>9. BlockDecrypt(y) = x
  BY <1>7, <1>8, Zenon DEF BlockDecrypt
<1> QED BY <1>3, <1>5, <1>6, <1>9

(* XOR of two such texts, parts of one and one behind the other.           *)
LEMMA PlainlyXor ==
  ASSUME NEW x, NEW y, NEW n, Text(x, n), Plainly(x, n), Plainly(y, n)
  PROVE  Plainly(XorBytes(x, y), n)
<1> SUFFICES ASSUME NEW k \in 1 .. n, NEW atom \in XorBytes(x, y)[k] PROVE atom[1] # "dec"
  BY DEF Plainly
<1>1. XorBytes(x, y)[k] = XorByte(x[k], y[k])
  <2>1. TextXored(x, y, n)
    BY TextXor, Zenon
  <2> QED BY <2>1, Zenon DEF TextXored
<1>2. atom \in x[k] \/ atom \in y[k]
  BY <1>1, Zenon DEF XorByte
<1> QED BY <1>2, Zenon DEF Plainly

(* Part of a text that the inverse has no part in.                         *)
LEMMA PlainlySlice ==
  ASSUME NEW x, NEW n, Text(x, n), Plainly(x, n), NEW at \in Nat, NEW cb \in Nat, at + cb <= n
  PROVE  Plainly(Slice(x, at, cb), cb)
<1> SUFFICES ASSUME NEW k \in 1 .. cb, NEW atom \in Slice(x, at, cb)[k] PROVE atom[1] # "dec"
  BY DEF Plainly
<1>1. TextSliced(x, at, cb) /\ n \in Nat
  <2>1. TextSliced(x, at, cb)
    BY TextSlice
  <2>2. n \in Nat
    BY TextLen, Zenon
  <2> QED BY <2>1, <2>2
<1>2. Slice(x, at, cb)[k] = x[at + k]
  BY <1>1, Zenon DEF TextSliced
<1>3. at + k \in 1 .. n
  BY <1>1
<1> QED BY <1>2, <1>3, Zenon DEF Plainly

(* One such text behind another.                                           *)
LEMMA PlainlyJoin ==
  ASSUME NEW x, NEW y, NEW m, NEW n, Text(x, m), Plainly(x, m), Text(y, n), Plainly(y, n)
  PROVE  Plainly(x \o y, m + n)
<1> SUFFICES ASSUME NEW k \in 1 .. m + n, NEW atom \in (x \o y)[k] PROVE atom[1] # "dec"
  BY DEF Plainly
<1>1. TextJoined(x, y, m, n) /\ m \in Nat /\ n \in Nat
  BY TextJoin, TextLen, Zenon
<1>2. CASE k <= m
  <2>1. k \in 1 .. m
    BY <1>1, <1>2
  <2>2. (x \o y)[k] = x[k]
    BY <1>1, <2>1, Zenon DEF TextJoined
  <2> QED BY <2>1, <2>2, Zenon DEF Plainly
<1>3. CASE ~(k <= m)
  <2>1. k - m \in 1 .. n /\ m + (k - m) = k
    BY <1>1, <1>3
  <2>2. (x \o y)[m + (k - m)] = y[k - m]
    BY <1>1, <2>1, Zenon DEF TextJoined
  <2>3. atom \in y[k - m]
    BY <2>1, <2>2
  <2> QED BY <2>1, <2>3, Zenon DEF Plainly
<1> QED BY <1>2, <1>3

(* What the caller passes, the IV and the tweaks are such texts.           *)
LEMMA PlainIs ==
  ASSUME NEW a \in Nat, NEW n \in Nat
  PROVE  /\ Text(PlainBytes(a, a + n), n) /\ Plainly(PlainBytes(a, a + n), n)
         /\ \A i \in 1 .. n : PlainBytes(a, a + n)[i] = Atom("data", a + i, 0)
<1>1. (a + n) - a = n
  OBVIOUS
<1>2. PlainBytes(a, a + n) = [i \in 1 .. n |-> Atom("data", a + i, 0)]
  BY <1>1 DEF PlainBytes
<1>3. ASSUME NEW k \in 1 .. n, NEW atom \in Atom("data", a + k, 0) PROVE atom[1] # "dec"
  <2>1. atom = <<"data", a + k, 0>>
    BY DEF Atom
  <2> QED BY <2>1
<1> QED BY <1>2, <1>3 DEF Text, Plainly

(* The IV is a block of such bytes.                                        *)
LEMMA IvIs == Text(Iv, ModeBlock) /\ Plainly(Iv, ModeBlock)
<1>1. ASSUME NEW k \in 1 .. ModeBlock, NEW atom \in Atom("iv", 0, k) PROVE atom[1] # "dec"
  <2>1. atom = <<"iv", 0, k>>
    BY DEF Atom
  <2> QED BY <2>1
<1> QED BY <1>1, ModesAssumption DEF Iv, Text, Plainly

(* So is a tweak.                                                          *)
LEMMA TweakIs ==
  ASSUME NEW t, NEW b
  PROVE  Text(TweakBlock(t, b), ModeBlock) /\ Plainly(TweakBlock(t, b), ModeBlock)
<1>1. ASSUME NEW k \in 1 .. ModeBlock, NEW atom \in Atom("tweak", t, b * ModeBlock + k)
      PROVE  atom[1] # "dec"
  <2> DEFINE place == b * ModeBlock + k
  <2>1. atom = <<"tweak", t, place>>
    BY DEF Atom
  <2> HIDE DEF place
  <2> QED BY <2>1
<1> QED BY <1>1, ModesAssumption DEF TweakBlock, Text, Plainly

(* Part of the plaintext is plaintext.                                     *)
PlainPart(a, n, at, cb) == Slice(PlainBytes(a, a + n), at, cb) = PlainBytes(a + at, a + at + cb)

LEMMA PlainSlice ==
  ASSUME NEW a \in Nat, NEW n \in Nat, NEW at \in Nat, NEW cb \in Nat, at + cb <= n
  PROVE  PlainPart(a, n, at, cb)
<1> DEFINE x == PlainBytes(a, a + n)
           y == PlainBytes(a + at, a + at + cb)
<1>1. Text(x, n) /\ \A i \in 1 .. n : x[i] = Atom("data", a + i, 0)
  BY PlainIs
<1>2. Text(y, cb) /\ \A i \in 1 .. cb : y[i] = Atom("data", (a + at) + i, 0)
  <2>1. a + at \in Nat
    OBVIOUS
  <2> QED BY <2>1, PlainIs, Zenon
<1> HIDE DEF x, y
<1>3. TextSliced(x, at, cb)
  BY <1>1, TextSlice
<1>4. Text(Slice(x, at, cb), cb) /\ \A i \in 1 .. cb : Slice(x, at, cb)[i] = x[at + i]
  BY <1>3, Zenon DEF TextSliced
<1>5. ASSUME NEW i \in 1 .. cb PROVE Slice(x, at, cb)[i] = y[i]
  <2>1. at + i \in 1 .. n /\ a + (at + i) = (a + at) + i
    OBVIOUS
  <2>2. x[at + i] = Atom("data", a + (at + i), 0)
    BY <1>1, <2>1
  <2> QED BY <1>2, <1>4, <2>1, <2>2
<1>6. Slice(x, at, cb) = y
  BY <1>2, <1>4, <1>5, TextSame, Zenon
<1> QED BY <1>6 DEF x, y, PlainPart

(* XOR twice with the same byte, from either side.                         *)
LEMMA XorTwice ==
  ASSUME NEW x, NEW y
  PROVE  XorByte(XorByte(x, y), y) = x /\ XorByte(y, XorByte(y, x)) = x
  BY DEF XorByte

(* The same for texts.                                                     *)
LEMMA XorUndone ==
  ASSUME NEW x, NEW y, NEW n, Text(x, n), Text(y, n)
  PROVE  XorBytes(XorBytes(x, y), y) = x /\ XorBytes(y, XorBytes(y, x)) = x
<1>1. TextXored(x, y, n) /\ TextXored(y, x, n)
  BY TextXor, Zenon
<1> DEFINE u == XorBytes(x, y)
           v == XorBytes(y, x)
<1>2. Text(u, n) /\ Text(v, n) /\ \A i \in 1 .. n : u[i] = XorByte(x[i], y[i]) /\ v[i] = XorByte(y[i], x[i])
  BY <1>1, Zenon DEF TextXored
<1> HIDE DEF u, v
<1>3. TextXored(u, y, n) /\ TextXored(y, v, n)
  BY <1>2, TextXor, Zenon
<1>4. /\ Text(XorBytes(u, y), n) /\ Text(XorBytes(y, v), n)
      /\ \A i \in 1 .. n : XorBytes(u, y)[i] = XorByte(u[i], y[i]) /\ XorBytes(y, v)[i] = XorByte(y[i], v[i])
  BY <1>3, Zenon DEF TextXored
<1>5. ASSUME NEW i \in 1 .. n PROVE XorBytes(u, y)[i] = x[i]
  <2>1. XorByte(XorByte(x[i], y[i]), y[i]) = x[i]
    BY XorTwice, Zenon
  <2> QED BY <1>2, <1>4, <2>1
<1>6. ASSUME NEW i \in 1 .. n PROVE XorBytes(y, v)[i] = x[i]
  <2>1. XorByte(y[i], XorByte(y[i], x[i])) = x[i]
    BY XorTwice, Zenon
  <2> QED BY <1>2, <1>4, <2>1
<1>7. XorBytes(u, y) = x
  BY <1>4, <1>5, TextSame, Zenon
<1>8. XorBytes(y, v) = x
  BY <1>4, <1>6, TextSame, Zenon
<1> QED BY <1>7, <1>8 DEF u, v
-----------------------------------------------------------------------------
(* The block before byte p in the IV and a text of n bytes.                *)
Before(text, p) == Slice(Iv \o text, p, ModeBlock)

(* It is a block, byte for byte from IV and text.                          *)
LEMMA BeforeIs ==
  ASSUME NEW text, NEW n, Text(text, n), NEW p \in 0 .. n
  PROVE  /\ Text(Before(text, p), ModeBlock)
         /\ \A i \in 1 .. ModeBlock : Before(text, p)[i] = (Iv \o text)[p + i]
         /\ Plainly(text, n) => Plainly(Before(text, p), ModeBlock)
<1>1. n \in Nat /\ ModeBlock \in Nat
  BY TextLen, ModesAssumption
<1>2. TextJoined(Iv, text, ModeBlock, n)
  BY IvIs, TextJoin, Zenon
<1>3. Text(Iv \o text, ModeBlock + n)
  BY <1>2, Zenon DEF TextJoined
<1>4. p \in Nat /\ p + ModeBlock <= ModeBlock + n
  BY <1>1
<1>5. TextSliced(Iv \o text, p, ModeBlock)
  BY <1>1, <1>3, <1>4, TextSlice, Zenon
<1>6. ASSUME Plainly(text, n) PROVE Plainly(Before(text, p), ModeBlock)
  <2>1. Plainly(Iv \o text, ModeBlock + n)
    BY <1>6, IvIs, PlainlyJoin, Zenon
  <2> QED BY <1>1, <1>3, <1>4, <2>1, PlainlySlice, Zenon DEF Before
<1> QED BY <1>5, <1>6, Zenon DEF TextSliced, Before

(* It does not change when the text grows.                                 *)
LEMMA BeforeSame ==
  ASSUME NEW text, NEW n, Text(text, n), NEW b, NEW k, Text(b, k), NEW p \in 0 .. n
  PROVE  Before(text \o b, p) = Before(text, p)
<1>1. n \in Nat /\ ModeBlock \in Nat /\ k \in Nat
  BY TextLen, ModesAssumption
<1>2. Text(text \o b, n + k) /\ \A i \in 1 .. n : (text \o b)[i] = text[i]
  <2>1. TextJoined(text, b, n, k)
    BY TextJoin, Zenon
  <2> QED BY <2>1, Zenon DEF TextJoined
<1>3. p \in 0 .. n + k
  BY <1>1
<1> DEFINE w == Iv \o text
           v == Iv \o (text \o b)
<1>4. /\ Text(w, ModeBlock + n) /\ \A i \in 1 .. ModeBlock : w[i] = Iv[i]
      /\ \A i \in 1 .. n : w[ModeBlock + i] = text[i]
  <2>1. TextJoined(Iv, text, ModeBlock, n)
    BY IvIs, TextJoin, Zenon
  <2> QED BY <2>1, Zenon DEF TextJoined
<1>5. /\ \A i \in 1 .. ModeBlock : v[i] = Iv[i]
      /\ \A i \in 1 .. n + k : v[ModeBlock + i] = (text \o b)[i]
  <2>1. TextJoined(Iv, text \o b, ModeBlock, n + k)
    BY <1>2, IvIs, TextJoin, Zenon
  <2> QED BY <2>1, Zenon DEF TextJoined
<1>6. /\ Text(Before(text, p), ModeBlock) /\ \A i \in 1 .. ModeBlock : Before(text, p)[i] = w[p + i]
  BY BeforeIs, Zenon
<1>7. /\ Text(Before(text \o b, p), ModeBlock)
      /\ \A i \in 1 .. ModeBlock : Before(text \o b, p)[i] = v[p + i]
  BY <1>2, <1>3, BeforeIs, Zenon
<1> HIDE DEF w, v
<1>8. ASSUME NEW j \in 1 .. ModeBlock + n PROVE v[j] = w[j]
  <2>1. CASE j <= ModeBlock
    <3>1. j \in 1 .. ModeBlock
      BY <1>1, <2>1
    <3> QED BY <1>4, <1>5, <3>1
  <2>2. CASE ~(j <= ModeBlock)
    <3>1. j - ModeBlock \in 1 .. n /\ j - ModeBlock \in 1 .. n + k /\ ModeBlock + (j - ModeBlock) = j
      BY <1>1, <2>2
    <3>2. /\ w[ModeBlock + (j - ModeBlock)] = text[j - ModeBlock]
          /\ v[ModeBlock + (j - ModeBlock)] = (text \o b)[j - ModeBlock]
          /\ (text \o b)[j - ModeBlock] = text[j - ModeBlock]
      BY <1>2, <1>4, <1>5, <3>1, Zenon
    <3> QED BY <3>1, <3>2
  <2> QED BY <2>1, <2>2
<1>9. ASSUME NEW i \in 1 .. ModeBlock PROVE Before(text \o b, p)[i] = Before(text, p)[i]
  <2>1. p + i \in 1 .. ModeBlock + n
    BY <1>1
  <2> QED BY <1>6, <1>7, <1>8, <2>1
<1> QED BY <1>6, <1>7, <1>9, TextSame, Zenon

(* It moves by the bytes behind it.                                        *)
LEMMA BeforeMoves ==
  ASSUME NEW text, NEW n, Text(text, n), NEW p \in Nat, NEW g \in 1 .. ModeBlock, p + g <= n
  PROVE  Shifted(Before(text, p), Slice(text, p, g)) = Before(text, p + g)
<1> DEFINE w == Iv \o text
           u == Before(text, p)
           b == Slice(text, p, g)
           h == Slice(u, g, ModeBlock - g)
           v == Before(text, p + g)
<1>1. /\ n \in Nat /\ ModeBlock \in Nat /\ g \in Nat /\ ModeBlock - g \in Nat /\ p \in 0 .. n /\ p + g \in 0 .. n
      /\ g + (ModeBlock - g) <= ModeBlock /\ (ModeBlock - g) + g = ModeBlock
  <2>1. n \in Nat
    BY TextLen, Zenon
  <2> QED BY <2>1, ModesAssumption
<1>2. \A i \in 1 .. n : w[ModeBlock + i] = text[i]
  <2>1. TextJoined(Iv, text, ModeBlock, n)
    BY IvIs, TextJoin, Zenon
  <2> QED BY <2>1, Zenon DEF TextJoined
<1>3. Text(u, ModeBlock) /\ \A i \in 1 .. ModeBlock : u[i] = w[p + i]
  BY <1>1, BeforeIs, Zenon
<1>4. Text(v, ModeBlock) /\ \A i \in 1 .. ModeBlock : v[i] = w[(p + g) + i]
  BY <1>1, BeforeIs, Zenon
<1>5. Text(b, g) /\ \A i \in 1 .. g : b[i] = text[p + i]
  <2>1. TextSliced(text, p, g)
    BY <1>1, TextSlice, Zenon
  <2> QED BY <2>1, Zenon DEF TextSliced
<1> HIDE DEF u, v, b, w
<1>6. Text(h, ModeBlock - g) /\ \A i \in 1 .. ModeBlock - g : h[i] = u[g + i]
  <2>1. TextSliced(u, g, ModeBlock - g)
    BY <1>1, <1>3, TextSlice, Zenon
  <2> QED BY <2>1, Zenon DEF TextSliced
<1> HIDE DEF h
<1>7. TextJoined(h, b, ModeBlock - g, g)
  BY <1>5, <1>6, TextJoin, Zenon
<1>8. /\ Text(h \o b, (ModeBlock - g) + g) /\ \A i \in 1 .. ModeBlock - g : (h \o b)[i] = h[i]
      /\ \A i \in 1 .. g : (h \o b)[(ModeBlock - g) + i] = b[i]
  BY <1>7, Zenon DEF TextJoined
<1>9. ASSUME NEW i \in 1 .. ModeBlock PROVE (h \o b)[i] = v[i]
  <2>1. CASE i <= ModeBlock - g
    <3>1. i \in 1 .. ModeBlock - g /\ g + i \in 1 .. ModeBlock /\ p + (g + i) = (p + g) + i
      BY <1>1, <2>1
    <3>2. (h \o b)[i] = h[i] /\ h[i] = u[g + i] /\ u[g + i] = w[p + (g + i)] /\ v[i] = w[(p + g) + i]
      BY <1>3, <1>4, <1>6, <1>8, <3>1, Zenon
    <3> QED BY <3>1, <3>2
  <2>2. CASE ~(i <= ModeBlock - g)
    <3> DEFINE j == i - (ModeBlock - g)
    <3>1. /\ j \in 1 .. g /\ (ModeBlock - g) + j = i /\ p + j \in 1 .. n
          /\ ModeBlock + (p + j) = (p + g) + i
      BY <1>1, <2>2
    <3> HIDE DEF j
    <3>2. /\ (h \o b)[(ModeBlock - g) + j] = b[j] /\ b[j] = text[p + j]
          /\ w[ModeBlock + (p + j)] = text[p + j] /\ v[i] = w[(p + g) + i]
      BY <1>2, <1>4, <1>5, <1>8, <3>1, Zenon
    <3> QED BY <3>1, <3>2
  <2> QED BY <2>1, <2>2
<1>10. h \o b = v
  <2>1. Text(h \o b, ModeBlock)
    BY <1>1, <1>8
  <2> QED BY <1>4, <1>9, <2>1, TextSame, Zenon
<1>11. Shifted(u, b) = h \o b
  <2>1. Len(b) = g
    BY <1>5, TextLen, Zenon
  <2> QED BY <2>1 DEF Shifted, h
<1> QED BY <1>10, <1>11 DEF u, v, b

(* Shifting by a whole block leaves nothing of the old one.                *)
LEMMA ShiftedOut ==
  ASSUME NEW x, NEW b, Text(x, ModeBlock), Text(b, ModeBlock)
  PROVE  Shifted(x, b) = b
<1>1. ModeBlock \in Nat /\ 0 \in Nat /\ ModeBlock + 0 <= ModeBlock /\ ModeBlock - ModeBlock = 0
  BY ModesAssumption
<1>2. Len(b) = ModeBlock
  BY TextLen, Zenon
<1>3. Text(Slice(x, ModeBlock, 0), 0)
  <2>1. TextSliced(x, ModeBlock, 0)
    BY <1>1, TextSlice, Zenon
  <2> QED BY <2>1, Zenon DEF TextSliced
<1>4. Slice(x, ModeBlock, 0) = <<>>
  BY <1>3, TextEmpty, Zenon
<1> QED BY <1>1, <1>2, <1>4, TextAndEmpty DEF Shifted
-----------------------------------------------------------------------------
(* The sizes of the modes.                                                 *)
LEMMA StepIs ==
  ASSUME NEW m \in Modes
  PROVE  /\ StepSize(m) \in 1 .. ModeBlock /\ StepSize(m) \in Nat \ {0} /\ ModeBlock \in Nat
         /\ m # "cfb1" => StepSize(m) = ModeBlock
  BY ModesAssumption DEF StepSize

(* The tweak of block q of an XTS message.                                 *)
Tweaked(t, q) == TweakBlock((t + (q \div UnitBlocks)) % TweakRange, q % UnitBlocks)

(* Part q of the plaintext.                                                *)
Piece(m, q) == PlainBytes(q * StepSize(m), q * StepSize(m) + StepSize(m))

(* The reference, mode by mode, with the block before the part and its     *)
(* tweak.                                                                  *)
RefForm(m, q, u, tw, ref) ==
  /\ m = "ecb" => ref = BlockEncrypt(Piece(m, q))
  /\ m = "cbc" => ref = BlockEncrypt(XorBytes(Piece(m, q), u))
  /\ m = "xts" => ref = XorBytes(tw, BlockEncrypt(XorBytes(tw, Piece(m, q))))
  /\ m \in {"cfb", "cfb1"} => ref = XorBytes(Piece(m, q), Slice(BlockEncrypt(u), 0, StepSize(m)))

LEMMA RefCases ==
  ASSUME NEW m \in Modes, NEW t, NEW text, NEW q
  PROVE  RefForm(m, q, Before(text, q * StepSize(m)), Tweaked(t, q), ReferencePart(m, t, text, q))
<1>1. CASE m = "ecb"
  BY <1>1 DEF ReferencePart, Piece, RefForm
<1>2. CASE m = "cbc"
  BY <1>2 DEF ReferencePart, Piece, Before, RefForm
<1>3. CASE m = "xts"
  BY <1>3 DEF ReferencePart, Piece, Tweaked, RefForm
<1>4. CASE m \in {"cfb", "cfb1"}
  BY <1>4 DEF ReferencePart, Piece, Before, RefForm
<1> QED BY <1>1, <1>2, <1>3, <1>4 DEF Modes

(* A part is as long as a step.                                            *)
LEMMA PieceIs ==
  ASSUME NEW m \in Modes, NEW q \in Nat
  PROVE  Text(Piece(m, q), StepSize(m)) /\ Plainly(Piece(m, q), StepSize(m))
<1>1. q * StepSize(m) \in Nat /\ StepSize(m) \in Nat
  BY StepIs
<1> QED BY <1>1, PlainIs, Zenon DEF Piece

(* Before a text that ends at part q or behind it there is a whole block.  *)
LEMMA BeforePart ==
  ASSUME NEW m \in Modes, NEW text, NEW n, Text(text, n), Plainly(text, n),
         NEW q \in Nat, q * StepSize(m) <= n
  PROVE  /\ Text(Before(text, q * StepSize(m)), ModeBlock)
         /\ Plainly(Before(text, q * StepSize(m)), ModeBlock)
<1>1. n \in Nat
  BY TextLen, Zenon
<1>2. q * StepSize(m) \in 0 .. n
  BY <1>1, StepIs
<1> QED BY <1>2, BeforeIs, Zenon

(* What each mode puts into the cipher, and what comes out.                *)
LEMMA CbcPart ==
  ASSUME NEW q \in Nat, NEW u, Text(u, ModeBlock), Plainly(u, ModeBlock)
  PROVE  LET x == XorBytes(Piece("cbc", q), u)
         IN /\ Text(BlockEncrypt(x), ModeBlock) /\ Plainly(BlockEncrypt(x), ModeBlock)
            /\ XorBytes(BlockDecrypt(BlockEncrypt(x)), u) = Piece("cbc", q)
<1> DEFINE v == Piece("cbc", q)
           x == XorBytes(v, u)
<1>1. Text(v, ModeBlock) /\ Plainly(v, ModeBlock)
  <2>1. "cbc" \in Modes /\ StepSize("cbc") = ModeBlock
    BY DEF Modes, StepSize
  <2> QED BY <2>1, PieceIs
<1> HIDE DEF v
<1>2. Plainly(x, ModeBlock)
  BY <1>1, PlainlyXor, Zenon
<1>3. XorBytes(x, u) = v
  BY <1>1, XorUndone, Zenon
<1> HIDE DEF x
<1>4. /\ Text(BlockEncrypt(x), ModeBlock) /\ Plainly(BlockEncrypt(x), ModeBlock)
      /\ BlockDecrypt(BlockEncrypt(x)) = x
  BY <1>2, Enciphers, Zenon
<1> QED BY <1>3, <1>4 DEF v, x

(* ECB: the block itself.                                                  *)
LEMMA EcbPart ==
  ASSUME NEW q \in Nat
  PROVE  LET x == Piece("ecb", q)
         IN /\ Text(BlockEncrypt(x), ModeBlock) /\ Plainly(BlockEncrypt(x), ModeBlock)
            /\ BlockDecrypt(BlockEncrypt(x)) = x
<1>1. "ecb" \in Modes /\ StepSize("ecb") = ModeBlock
  BY DEF Modes, StepSize
<1>2. Plainly(Piece("ecb", q), ModeBlock)
  BY <1>1, PieceIs
<1> QED BY <1>2, Enciphers, Zenon

(* XTS: the block between two XORs with its tweak.                         *)
LEMMA XtsPart ==
  ASSUME NEW q \in Nat, NEW u, Text(u, ModeBlock), Plainly(u, ModeBlock)
  PROVE  LET e == XorBytes(u, BlockEncrypt(XorBytes(u, Piece("xts", q))))
         IN /\ Text(e, ModeBlock) /\ Plainly(e, ModeBlock)
            /\ XorBytes(u, BlockDecrypt(XorBytes(u, e))) = Piece("xts", q)
<1> DEFINE v == Piece("xts", q)
           x == XorBytes(u, v)
           y == BlockEncrypt(x)
           e == XorBytes(u, y)
<1>1. Text(v, ModeBlock) /\ Plainly(v, ModeBlock)
  <2>1. "xts" \in Modes /\ StepSize("xts") = ModeBlock
    BY DEF Modes, StepSize
  <2> QED BY <2>1, PieceIs
<1> HIDE DEF v
<1>2. Plainly(x, ModeBlock)
  BY <1>1, PlainlyXor, Zenon
<1>3. XorBytes(u, x) = v
  BY <1>1, XorUndone, Zenon
<1> HIDE DEF x
<1>4. Text(y, ModeBlock) /\ Plainly(y, ModeBlock) /\ BlockDecrypt(y) = x
  BY <1>2, Enciphers, Zenon
<1> HIDE DEF y
<1>5. XorBytes(u, e) = y
  BY <1>4, XorUndone, Zenon
<1>6. Text(e, ModeBlock) /\ Plainly(e, ModeBlock)
  <2>1. TextXored(u, y, ModeBlock)
    BY TextXor, Zenon
  <2>2. Text(XorBytes(u, y), ModeBlock)
    BY <2>1, Zenon DEF TextXored
  <2>3. Plainly(XorBytes(u, y), ModeBlock)
    BY <1>4, PlainlyXor, Zenon
  <2> QED BY <2>2, <2>3
<1>7. XorBytes(u, BlockDecrypt(XorBytes(u, e))) = v
  BY <1>3, <1>4, <1>5
<1> QED BY <1>6, <1>7 DEF v, x, y, e

(* CFB: part of the block before, encrypted.                               *)
LEMMA CfbPart ==
  ASSUME NEW m \in {"cfb", "cfb1"}, NEW q \in Nat, NEW u, Text(u, ModeBlock), Plainly(u, ModeBlock)
  PROVE  LET key == Slice(BlockEncrypt(u), 0, StepSize(m))
             e   == XorBytes(Piece(m, q), key)
         IN /\ Text(e, StepSize(m)) /\ Plainly(e, StepSize(m)) /\ XorBytes(e, key) = Piece(m, q)
<1> DEFINE g == StepSize(m)
           y == BlockEncrypt(u)
           v == Piece(m, q)
           key == Slice(y, 0, g)
           e == XorBytes(v, key)
<1>1. m \in Modes
  BY DEF Modes
<1>2. g \in Nat /\ 0 \in Nat /\ 0 + g <= ModeBlock
  <2>1. StepSize(m) \in 1 .. ModeBlock /\ ModeBlock \in Nat
    BY <1>1, StepIs
  <2> QED BY <2>1
<1>3. Text(v, g) /\ Plainly(v, g)
  BY <1>1, PieceIs
<1>4. Text(y, ModeBlock) /\ Plainly(y, ModeBlock)
  BY Enciphers, Zenon
<1> HIDE DEF g, y, v
<1>5. Text(key, g) /\ Plainly(key, g)
  <2>1. TextSliced(y, 0, g)
    BY <1>2, <1>4, TextSlice, Zenon
  <2>2. Text(key, g)
    BY <2>1, Zenon DEF TextSliced
  <2>3. Plainly(key, g)
    BY <1>2, <1>4, PlainlySlice, Zenon
  <2> QED BY <2>2, <2>3
<1> HIDE DEF key
<1>6. XorBytes(e, key) = v
  BY <1>3, <1>5, XorUndone, Zenon
<1>7. Text(e, g) /\ Plainly(e, g)
  <2>1. TextXored(v, key, g)
    BY <1>3, TextXor, Zenon
  <2>2. Text(XorBytes(v, key), g)
    BY <2>1, Zenon DEF TextXored
  <2>3. Plainly(XorBytes(v, key), g)
    BY <1>3, <1>5, PlainlyXor, Zenon
  <2> QED BY <2>2, <2>3
<1> QED BY <1>6, <1>7 DEF g, y, v, key, e

(* A part of the reference is as long as a step of the code.               *)
LEMMA RefIs ==
  ASSUME NEW m \in Modes, NEW t, NEW text, NEW n, Text(text, n), Plainly(text, n),
         NEW q \in Nat, q * StepSize(m) <= n
  PROVE  /\ Text(ReferencePart(m, t, text, q), StepSize(m))
         /\ Plainly(ReferencePart(m, t, text, q), StepSize(m))
<1> DEFINE ref == ReferencePart(m, t, text, q)
           u == Before(text, q * StepSize(m))
           tw == Tweaked(t, q)
<1>1. Text(u, ModeBlock) /\ Plainly(u, ModeBlock)
  BY BeforePart
<1>2. Text(tw, ModeBlock) /\ Plainly(tw, ModeBlock)
  BY TweakIs, Zenon DEF Tweaked
<1>3. m # "cfb1" => StepSize(m) = ModeBlock
  BY StepIs
<1>4. RefForm(m, q, u, tw, ref)
  BY RefCases, Zenon
<1> HIDE DEF ref, u, tw
<1>5. CASE m = "ecb"
  <2>1. Text(BlockEncrypt(Piece("ecb", q)), ModeBlock) /\ Plainly(BlockEncrypt(Piece("ecb", q)), ModeBlock)
    BY EcbPart, Zenon
  <2> QED BY <1>3, <1>4, <1>5, <2>1 DEF ref, RefForm
<1>6. CASE m = "cbc"
  <2> DEFINE x == XorBytes(Piece("cbc", q), u)
  <2>1. Text(BlockEncrypt(x), ModeBlock) /\ Plainly(BlockEncrypt(x), ModeBlock)
    BY <1>1, CbcPart, Zenon
  <2> QED BY <1>3, <1>4, <1>6, <2>1 DEF ref, RefForm
<1>7. CASE m = "xts"
  <2> DEFINE e == XorBytes(tw, BlockEncrypt(XorBytes(tw, Piece("xts", q))))
  <2>1. Text(e, ModeBlock) /\ Plainly(e, ModeBlock)
    BY <1>2, XtsPart, Zenon
  <2> QED BY <1>3, <1>4, <1>7, <2>1 DEF ref, RefForm
<1>8. CASE m \in {"cfb", "cfb1"}
  <2> DEFINE e == XorBytes(Piece(m, q), Slice(BlockEncrypt(u), 0, StepSize(m)))
  <2>1. Text(e, StepSize(m)) /\ Plainly(e, StepSize(m))
    BY <1>1, <1>8, CfbPart, Zenon
  <2> QED BY <1>4, <1>8, <2>1 DEF ref, RefForm
<1> QED BY <1>5, <1>6, <1>7, <1>8 DEF ref, Modes

(* Parts of two texts one behind the other.                                *)
InFirst(x, y, at, cb) == Slice(x \o y, at, cb) = Slice(x, at, cb)

LEMMA SliceFirst ==
  ASSUME NEW x, NEW m, Text(x, m), NEW y, NEW k, Text(y, k), NEW at \in Nat, NEW cb \in Nat, at + cb <= m
  PROVE  InFirst(x, y, at, cb)
<1>1. m \in Nat /\ k \in Nat
  BY TextLen, Zenon
<1>2. TextJoined(x, y, m, k)
  BY TextJoin, Zenon
<1>3. Text(x \o y, m + k) /\ \A i \in 1 .. m : (x \o y)[i] = x[i]
  BY <1>2, Zenon DEF TextJoined
<1>4. at + cb <= m + k
  BY <1>1
<1>5. TextSliced(x \o y, at, cb)
  BY <1>3, <1>4, TextSlice, Zenon
<1>6. TextSliced(x, at, cb)
  BY TextSlice, Zenon
<1>7. /\ Text(Slice(x \o y, at, cb), cb) /\ \A i \in 1 .. cb : Slice(x \o y, at, cb)[i] = (x \o y)[at + i]
      /\ Text(Slice(x, at, cb), cb) /\ \A i \in 1 .. cb : Slice(x, at, cb)[i] = x[at + i]
  BY <1>5, <1>6, Zenon DEF TextSliced
<1>8. ASSUME NEW i \in 1 .. cb PROVE Slice(x \o y, at, cb)[i] = Slice(x, at, cb)[i]
  <2>1. at + i \in 1 .. m
    BY <1>1
  <2> QED BY <1>3, <1>7, <2>1
<1>9. Slice(x \o y, at, cb) = Slice(x, at, cb)
  BY <1>7, <1>8, TextSame, Zenon
<1> QED BY <1>9 DEF InFirst

(* The second of them.                                                     *)
LEMMA SliceLast ==
  ASSUME NEW x, NEW m, Text(x, m), NEW y, NEW k, Text(y, k)
  PROVE  Slice(x \o y, m, k) = y
<1>1. m \in Nat /\ k \in Nat /\ m + k <= m + k
  <2>1. m \in Nat /\ k \in Nat
    BY TextLen, Zenon
  <2> QED BY <2>1
<1>2. TextJoined(x, y, m, k)
  BY TextJoin, Zenon
<1>3. Text(x \o y, m + k) /\ \A i \in 1 .. k : (x \o y)[m + i] = y[i]
  BY <1>2, Zenon DEF TextJoined
<1>4. TextSliced(x \o y, m, k)
  BY <1>1, <1>3, TextSlice, Zenon
<1>5. Text(Slice(x \o y, m, k), k) /\ \A i \in 1 .. k : Slice(x \o y, m, k)[i] = (x \o y)[m + i]
  BY <1>4, Zenon DEF TextSliced
<1>6. ASSUME NEW i \in 1 .. k PROVE Slice(x \o y, m, k)[i] = y[i]
  BY <1>3, <1>5
<1> QED BY <1>5, <1>6, TextSame, Zenon

(* The reference for a part goes by what is before it.                     *)
RefKept(m, t, text, b, q) == ReferencePart(m, t, text \o b, q) = ReferencePart(m, t, text, q)

LEMMA RefSame ==
  ASSUME NEW m \in Modes, NEW t, NEW text, NEW n, Text(text, n), NEW b, NEW k, Text(b, k),
         NEW q \in Nat, q * StepSize(m) <= n
  PROVE  RefKept(m, t, text, b, q)
<1> DEFINE p == q * StepSize(m)
           u == Before(text, p)
           v == Before(text \o b, p)
           tw == Tweaked(t, q)
           r == ReferencePart(m, t, text, q)
           s == ReferencePart(m, t, text \o b, q)
<1>1. n \in Nat
  BY TextLen, Zenon
<1>2. p \in 0 .. n
  BY <1>1, StepIs
<1>3. RefForm(m, q, u, tw, r) /\ RefForm(m, q, v, tw, s)
  BY RefCases, Zenon
<1> HIDE DEF p
<1>4. v = u
  BY <1>2, BeforeSame, Zenon
<1> HIDE DEF u, v, tw, r, s
<1>5. r = s
  <2>1. CASE m = "ecb"
    BY <1>3, <2>1 DEF RefForm
  <2>2. CASE m = "cbc"
    BY <1>3, <1>4, <2>2 DEF RefForm
  <2>3. CASE m = "xts"
    BY <1>3, <2>3 DEF RefForm
  <2>4. CASE m \in {"cfb", "cfb1"}
    BY <1>3, <1>4, <2>4 DEF RefForm
  <2> QED BY <2>1, <2>2, <2>3, <2>4 DEF Modes
<1> QED BY <1>5 DEF RefKept, r, s

(* A ciphertext of q parts, part after part the standard's.                *)
Grown(m, t, text, q) ==
  /\ Text(text, q * StepSize(m)) /\ Plainly(text, q * StepSize(m))
  /\ \A i \in 0 .. q - 1 : Slice(text, i * StepSize(m), StepSize(m)) = ReferencePart(m, t, text, i)

LEMMA Products ==
  ASSUME NEW i \in Nat, NEW q \in Nat, NEW g \in Nat, i < q
  PROVE  i * g \in Nat /\ q * g \in Nat /\ i * g + g <= q * g /\ i * g <= q * g
<1>1. PICK k \in Nat : q = i + 1 + k
  <2>1. q - i - 1 \in Nat /\ q = i + 1 + (q - i - 1)
    OBVIOUS
  <2> QED BY <2>1
<1>2. k * g \in Nat /\ i * g \in Nat /\ q * g = i * g + g + k * g
  BY <1>1
<1> QED BY <1>2

(* It grows by a part of the reference.                                    *)
NextPart(m, t, text, q, b) == b = ReferencePart(m, t, text, q)

LEMMA Grows ==
  ASSUME NEW m \in Modes, NEW t, NEW text, NEW q \in Nat, Grown(m, t, text, q),
         NEW b, NextPart(m, t, text, q, b)
  PROVE  Grown(m, t, text \o b, q + 1)
<1> DEFINE g == StepSize(m)
<1>1. g \in Nat /\ q * g \in Nat /\ q * g <= q * g /\ q * g + g = (q + 1) * g /\ q + 1 \in Nat
  <2>1. g \in Nat
    BY StepIs
  <2> HIDE DEF g
  <2> QED BY <2>1
<1>2. Text(text, q * g) /\ Plainly(text, q * g)
  BY DEF Grown
<1>3. Text(b, g) /\ Plainly(b, g)
  <2>1. /\ Text(ReferencePart(m, t, text, q), g) /\ Plainly(ReferencePart(m, t, text, q), g)
    BY <1>1, <1>2, RefIs, Zenon
  <2> QED BY <2>1, Zenon DEF NextPart
<1>4. \A i \in 0 .. q - 1 : Slice(text, i * g, g) = ReferencePart(m, t, text, i)
  BY DEF Grown
<1>5. ASSUME NEW i \in 0 .. (q + 1) - 1
      PROVE  Slice(text \o b, i * g, g) = ReferencePart(m, t, text \o b, i)
  <2>1. CASE i < q
    <3>1. i \in Nat /\ i \in 0 .. q - 1 /\ i < q
      BY <2>1
    <3>2. i * g \in Nat /\ i * g + g <= q * g /\ i * g <= q * g
      <4> HIDE DEF g
      <4> QED BY <1>1, <3>1, Products
    <3>3. Slice(text \o b, i * g, g) = Slice(text, i * g, g)
      <4> HIDE DEF g
      <4>1. InFirst(text, b, i * g, g)
        BY <1>1, <1>2, <1>3, <3>2, SliceFirst, Zenon
      <4> QED BY <4>1, Zenon DEF InFirst
    <3>4. ReferencePart(m, t, text \o b, i) = ReferencePart(m, t, text, i)
      <4>1. RefKept(m, t, text, b, i)
        BY <1>2, <1>3, <3>1, <3>2, RefSame, Zenon
      <4> QED BY <4>1, Zenon DEF RefKept
    <3> QED BY <1>4, <3>1, <3>3, <3>4, Zenon
  <2>2. CASE ~(i < q)
    <3>1. i = q
      BY <2>2
    <3>2. Slice(text \o b, q * g, g) = b
      <4> HIDE DEF g
      <4> QED BY <1>2, <1>3, SliceLast, Zenon
    <3>3. ReferencePart(m, t, text \o b, q) = ReferencePart(m, t, text, q)
      <4>1. q * g <= q * g
        <5> HIDE DEF g
        <5> QED BY <1>1
      <4>2. RefKept(m, t, text, b, q)
        BY <1>2, <1>3, <4>1, RefSame, Zenon
      <4> QED BY <4>2, Zenon DEF RefKept
    <3> QED BY <3>1, <3>2, <3>3 DEF NextPart
  <2> QED BY <2>1, <2>2
<1>6. Text(text \o b, (q + 1) * g) /\ Plainly(text \o b, (q + 1) * g)
  <2>1. TextJoined(text, b, q * g, g)
    BY <1>2, <1>3, TextJoin, Zenon
  <2>2. Text(text \o b, q * g + g)
    BY <2>1, Zenon DEF TextJoined
  <2>3. Plainly(text \o b, q * g + g)
    BY <1>2, <1>3, PlainlyJoin, Zenon
  <2> QED BY <1>1, <2>2, <2>3
<1> QED BY <1>5, <1>6 DEF Grown
-----------------------------------------------------------------------------
(* A ran that has done its data up to an offset: the source is as it was, *)
(* and in place it is so from the offset on.                               *)
CallFields == {"src", "dst", "inPlace", "chain"}

Frame(c, src, cb, inPlace, at) ==
  /\ DOMAIN c = CallFields
  /\ c.src = src /\ c.inPlace = inPlace /\ Text(c.dst, cb)
  /\ inPlace => \A i \in at + 1 .. cb : c.dst[i] = src[i]

(* A step that writes b.                                                   *)
Writes(c, new, at, b, chain) ==
  /\ DOMAIN new = DOMAIN c /\ new.src = c.src /\ new.inPlace = c.inPlace
  /\ new.dst = CopyTo(c.dst, at, b) /\ new.chain = chain

(* It reads what the caller passed, be it in place or not.                 *)
Reads(c, src, at, g) == SrcAt(c, at, g) = Slice(src, at, g)

LEMMA SrcIs ==
  ASSUME NEW c, NEW src, NEW cb, Text(src, cb), NEW inPlace \in BOOLEAN, NEW at \in Nat,
         Frame(c, src, cb, inPlace, at), NEW g \in Nat, at + g <= cb
  PROVE  Reads(c, src, at, g)
<1>1. /\ c.src = src /\ c.inPlace = inPlace /\ Text(c.dst, cb)
      /\ inPlace => \A i \in at + 1 .. cb : c.dst[i] = src[i]
  BY Zenon DEF Frame
<1>2. CASE ~inPlace
  BY <1>1, <1>2 DEF SrcAt, Reads
<1>3. CASE inPlace
  <2> DEFINE dst == c.dst
  <2>1. Text(dst, cb) /\ (\A i \in at + 1 .. cb : dst[i] = src[i]) /\ SrcAt(c, at, g) = Slice(dst, at, g)
    BY <1>1, <1>3 DEF SrcAt
  <2> HIDE DEF dst
  <2>2. TextSliced(dst, at, g) /\ TextSliced(src, at, g)
    BY <2>1, TextSlice, Zenon
  <2>3. /\ Text(Slice(dst, at, g), g) /\ \A i \in 1 .. g : Slice(dst, at, g)[i] = dst[at + i]
        /\ Text(Slice(src, at, g), g) /\ \A i \in 1 .. g : Slice(src, at, g)[i] = src[at + i]
    BY <2>2, Zenon DEF TextSliced
  <2>4. cb \in Nat
    BY TextLen, Zenon
  <2>5. ASSUME NEW i \in 1 .. g PROVE Slice(dst, at, g)[i] = Slice(src, at, g)[i]
    <3>1. at + i \in at + 1 .. cb
      BY <2>4
    <3> QED BY <2>1, <2>3, <3>1
  <2>6. Slice(dst, at, g) = Slice(src, at, g)
    BY <2>3, <2>5, TextSame, Zenon
  <2> QED BY <2>1, <2>6 DEF Reads
<1> QED BY <1>2, <1>3

(* Behind what it wrote the source is still as it was.                     *)
Moves(c, new, src, cb, inPlace, at, b, g) ==
  /\ Frame(new, src, cb, inPlace, at + g)
  /\ Slice(new.dst, 0, at + g) = Slice(c.dst, 0, at) \o b

LEMMA FrameMoves ==
  ASSUME NEW c, NEW src, NEW cb, NEW inPlace \in BOOLEAN, NEW at \in Nat,
         Frame(c, src, cb, inPlace, at), NEW b, NEW g, Text(b, g), at + g <= cb,
         NEW new, NEW chain, Writes(c, new, at, b, chain)
  PROVE  Moves(c, new, src, cb, inPlace, at, b, g)
<1>1. /\ DOMAIN c = CallFields /\ c.src = src /\ c.inPlace = inPlace /\ Text(c.dst, cb)
      /\ inPlace => \A i \in at + 1 .. cb : c.dst[i] = src[i]
  BY Zenon DEF Frame
<1>2. /\ DOMAIN new = DOMAIN c /\ new.src = c.src /\ new.inPlace = c.inPlace
      /\ new.dst = CopyTo(c.dst, at, b)
  BY Zenon DEF Writes
<1> DEFINE dst == c.dst
           written == new.dst
<1>3. Text(dst, cb) /\ written = CopyTo(dst, at, b) /\ (inPlace => \A i \in at + 1 .. cb : dst[i] = src[i])
  BY <1>1, <1>2
<1>4. g \in Nat /\ cb \in Nat
  BY <1>1, TextLen, Zenon
<1> HIDE DEF dst, written
<1>5. TextCopied(dst, at, b, cb, g)
  BY <1>3, TextCopy, Zenon
<1>6. Text(written, cb) /\ \A i \in 1 .. cb : i <= at \/ i > at + g => written[i] = dst[i]
  BY <1>3, <1>5, Zenon DEF TextCopied
<1>7. ASSUME inPlace, NEW i \in (at + g) + 1 .. cb PROVE written[i] = src[i]
  <2>1. i \in 1 .. cb /\ i > at + g /\ i \in at + 1 .. cb
    BY <1>4
  <2> QED BY <1>3, <1>6, <1>7, <2>1
<1>8. CopyHead(dst, at, b, g)
  BY <1>3, CopyHeadIs, Zenon
<1>9. Slice(written, 0, at + g) = Slice(dst, 0, at) \o b
  BY <1>3, <1>8, Zenon DEF CopyHead
<1>10. Frame(new, src, cb, inPlace, at + g)
  BY <1>1, <1>2, <1>6, <1>7 DEF Frame, written
<1> QED BY <1>9, <1>10 DEF dst, written, Moves
-----------------------------------------------------------------------------
(* What a step leaves of the record of the ran.                           *)
LEMMA PutIs ==
  ASSUME NEW c, DOMAIN c = CallFields, NEW at, NEW b, NEW y
  PROVE  /\ Writes(c, PutAt(c, at, b), at, b, c.chain)
         /\ Writes(c, [PutAt(c, at, b) EXCEPT !.chain = y], at, b, y)
  BY DEF CallFields, PutAt, Writes

(* The tweak of a block of a ran: from its batch, or counted through from *)
(* the first data unit of the message.                                     *)
TweakRight(t, q, units, i) ==
  TweakBlock(XtsTweak((t + (q \div UnitBlocks)) % TweakRange, units, i \div UnitBlocks), i % UnitBlocks)
    = Tweaked(t, q + i)

LEMMA XtsTweakRight ==
  ASSUME NEW t \in Nat, NEW q \in Nat, q % UnitBlocks = 0, NEW units \in Nat, NEW i \in Nat,
         i < units * UnitBlocks
  PROVE  TweakRight(t, q, units, i)
<1> DEFINE U == UnitBlocks
           P == ParallelTweaks
           R == TweakRange
           a == q \div U
           j == i \div U
           r == i % U
           e == j \div P
           f == j % P
           done == e * P
           tw == (t + a) % R
           n == SmallerOf(P, units - done)
<1>1. U \in Nat \ {0} /\ P \in Nat \ {0} /\ R \in Nat \ {0}
  BY ModesAssumption
<1>2. a \in Nat /\ q = a * U + (q % U)
  BY <1>1, Division, Zenon
<1>3. j \in Nat /\ r \in 0 .. U - 1 /\ i = j * U + r
  BY <1>1, Division, Zenon
<1> HIDE DEF j, r
<1>4. e \in Nat /\ f \in 0 .. P - 1 /\ j = e * P + f
  BY <1>1, <1>3, Division, Zenon
<1> HIDE DEF a, e, f
<1>5. q + i = (a + j) * U + r /\ q + i \in Nat /\ a + j \in Nat
  <2>1. q = a * U
    <3>1. a * U \in Nat /\ q % U = 0
      BY <1>1, <1>2
    <3> HIDE DEF U
    <3> QED BY <1>2, <3>1
  <2>2. (a + j) * U = a * U + j * U /\ a * U \in Nat /\ j * U \in Nat
    BY <1>1, <1>2, <1>3
  <2> HIDE DEF U
  <2> QED BY <1>2, <1>3, <2>1, <2>2
<1>6. (q + i) \div U = a + j /\ (q + i) % U = r
  <2> HIDE DEF U
  <2>1. DividesTo(q + i, U, a + j, r)
    BY <1>1, <1>3, <1>5, DivisionNamed, Zenon
  <2> QED BY <2>1, Zenon DEF DividesTo
<1>7. j < units
  <2> SUFFICES ASSUME units <= j PROVE FALSE
    BY <1>3
  <2>1. PICK k \in Nat : j = units + k
    <3>1. j - units \in Nat /\ j = units + (j - units)
      BY <1>3
    <3> QED BY <3>1
  <2>2. j * U = units * U + k * U /\ k * U \in Nat /\ units * U \in Nat
    BY <1>1, <2>1
  <2> QED BY <1>3, <2>2
<1>8. done \in Nat /\ j = done + f
  BY <1>1, <1>4
<1> HIDE DEF done
<1>9. n \in Nat /\ 1 + (j - done) \in 1 .. n /\ 1 + (j - done) = 1 + f
  BY <1>1, <1>4, <1>7, <1>8 DEF SmallerOf
<1>10. tw \in Nat /\ (tw + j) % R = ((t + a) + j) % R
  <2>1. t + a \in Nat
    BY <1>2
  <2> QED BY <1>1, <1>3, <2>1, ModSum, Zenon
<1> HIDE DEF tw, n
<1>11. XtsTweaks(tw, done, n)[1 + (j - done)] = (tw + j) % R
  <2>1. tw + done + (1 + (j - done)) - 1 = tw + j
    BY <1>3, <1>8, <1>10
  <2>2. XtsTweaks(tw, done, n)[1 + (j - done)] = (tw + done + (1 + (j - done)) - 1) % R
    BY <1>9 DEF XtsTweaks
  <2> QED BY <2>1, <2>2
<1>12. XtsTweak(tw, units, j) = (tw + j) % R
  <2>1. XtsTweak(tw, units, j) = XtsTweaks(tw, done, n)[1 + (j - done)]
    BY Zenon DEF XtsTweak, done, n, e
  <2> QED BY <1>11, <2>1
<1>13. (t + a) + j = t + (a + j)
  BY <1>2, <1>3
<1>14. XtsTweak(tw, units, j) = (t + ((q + i) \div U)) % R
  BY <1>6, <1>10, <1>12, <1>13
<1>15. Tweaked(t, q + i) = TweakBlock((t + ((q + i) \div U)) % R, (q + i) % U)
  BY DEF Tweaked
<1>16. TweakBlock(XtsTweak(tw, units, j), r) = Tweaked(t, q + i)
  BY <1>6, <1>14, <1>15
<1> QED BY <1>16 DEF TweakRight, tw, a, j, r

(* The chaining value at byte n of a text, in a ran that began q parts    *)
(* into the message: XTS counts on from ran to ran only.                 *)
LoopChain(m, t, text, q, n) ==
  IF m = "xts" THEN (t + (q \div UnitBlocks)) % TweakRange
  ELSE IF m = "ecb" THEN Iv ELSE Before(text, n)

(* The chaining value moves with the ciphertext.                           *)
LEMMA ChainGrows ==
  ASSUME NEW text, NEW n, Text(text, n), NEW g \in 1 .. ModeBlock, NEW b, Text(b, g)
  PROVE  Shifted(Before(text, n), b) = Before(text \o b, n + g)
<1>1. n \in Nat /\ n \in 0 .. n /\ g \in Nat /\ n + g <= n + g
  <2>1. n \in Nat
    BY TextLen, Zenon
  <2> QED BY <2>1, ModesAssumption
<1>2. Text(text \o b, n + g)
  <2>1. TextJoined(text, b, n, g)
    BY TextJoin, Zenon
  <2> QED BY <2>1, Zenon DEF TextJoined
<1>3. Before(text \o b, n) = Before(text, n)
  BY <1>1, BeforeSame, Zenon
<1>4. Slice(text \o b, n, g) = b
  BY SliceLast, Zenon
<1>5. Shifted(Before(text \o b, n), Slice(text \o b, n, g)) = Before(text \o b, n + g)
  BY <1>1, <1>2, BeforeMoves, Zenon
<1> QED BY <1>3, <1>4, <1>5

(* Step i of an encryption, of part s = q + i of the message: the part of  *)
(* the reference is written, and the chaining value is the next.           *)
LEMMA EncryptStep ==
  ASSUME NEW m \in Modes, NEW t \in Nat, NEW text, NEW q \in Nat, NEW i \in Nat, NEW s, s = q + i,
         Text(text, s * StepSize(m)), Plainly(text, s * StepSize(m)),
         NEW c, DOMAIN c = CallFields, SrcAt(c, i * StepSize(m), StepSize(m)) = Piece(m, s),
         c.chain = LoopChain(m, t, text, q, s * StepSize(m)),
         m = "xts" => q % UnitBlocks = 0 /\ Len(c.src) \in Nat /\ i < (Len(c.src) \div UnitSize) * UnitBlocks
  PROVE  Writes(c, Step(m, "encrypt", c, i), i * StepSize(m), ReferencePart(m, t, text, s),
                LoopChain(m, t, text \o ReferencePart(m, t, text, s), q, (s + 1) * StepSize(m)))
<1> DEFINE g == StepSize(m)
           n == s * g
           at == i * g
           u == Before(text, n)
           tw == Tweaked(t, s)
           ref == ReferencePart(m, t, text, s)
           new == Step(m, "encrypt", c, i)
           x == Piece(m, s)
<1>1. /\ s \in Nat /\ g \in 1 .. ModeBlock /\ g \in Nat /\ n \in Nat /\ n <= n /\ (s + 1) * g = n + g
      /\ (m # "cfb1" => g = ModeBlock) /\ ModeBlock \in Nat
  <2>1. s \in Nat
    OBVIOUS
  <2>2. g \in 1 .. ModeBlock /\ g \in Nat \ {0} /\ (m # "cfb1" => g = ModeBlock) /\ ModeBlock \in Nat
    BY StepIs, Zenon
  <2> HIDE DEF g
  <2> QED BY <2>1, <2>2
<1>2. RefForm(m, s, u, tw, ref)
  BY RefCases, Zenon
<1>3. Text(ref, g) /\ Plainly(ref, g)
  BY <1>1, RefIs, Zenon
<1>4. Text(u, ModeBlock) /\ Plainly(u, ModeBlock)
  BY <1>1, BeforePart, Zenon
<1>5. m \in {"cbc", "cfb", "cfb1"} => c.chain = u
  BY DEF LoopChain
<1>6. Shifted(u, ref) = Before(text \o ref, n + g)
  <2>1. Text(text, n)
    OBVIOUS
  <2> HIDE DEF ref, g, n
  <2> QED BY <1>1, <1>3, <2>1, ChainGrows, Zenon
<1>7. SrcAt(c, at, g) = x
  OBVIOUS
<1>8. m \notin {"xts", "ecb"} => LoopChain(m, t, text \o ref, q, n + g) = Shifted(u, ref)
  BY <1>6 DEF LoopChain
<1>9. m \in {"xts", "ecb"} => LoopChain(m, t, text \o ref, q, n + g) = c.chain
  BY DEF LoopChain
<1> DEFINE ch == LoopChain(m, t, text \o ref, q, n + g)
<1> SUFFICES Writes(c, new, at, ref, ch)
  BY <1>1
<1>10. CASE m = "ecb"
  <2>1. new = PutAt(c, at, BlockEncrypt(x))
    BY <1>1, <1>7, <1>10 DEF Step, EcbEncrypt
  <2>2. ref = BlockEncrypt(x)
    BY <1>2, <1>10, Zenon DEF RefForm
  <2> HIDE DEF new, at, ref, ch
  <2>3. Writes(c, PutAt(c, at, ref), at, ref, c.chain)
    BY PutIs, Zenon
  <2> QED BY <1>9, <1>10, <2>1, <2>2, <2>3 DEF ch
<1>11. CASE m = "cbc"
  <2> DEFINE y == BlockEncrypt(XorBytes(x, u))
  <2>1. new = [PutAt(c, at, y) EXCEPT !.chain = y]
    <3>1. new = CbcEncrypt(c, at)
      BY <1>11 DEF Step
    <3>2. SrcAt(c, at, ModeBlock) = x /\ c.chain = u
      BY <1>1, <1>5, <1>7, <1>11
    <3> HIDE DEF new, at, x, u
    <3> QED BY <3>1, <3>2 DEF CbcEncrypt
  <2>2. ref = y
    BY <1>2, <1>11, Zenon DEF RefForm
  <2>3. Shifted(u, ref) = ref
    <3>1. Text(ref, ModeBlock)
      BY <1>1, <1>3, <1>11
    <3> QED BY <1>4, <3>1, ShiftedOut, Zenon
  <2> HIDE DEF new, at, ref, ch, y
  <2>4. Writes(c, [PutAt(c, at, ref) EXCEPT !.chain = ref], at, ref, ref)
    BY PutIs, Zenon
  <2>5. ch = ref
    BY <1>8, <1>11, <2>3 DEF ch
  <2> QED BY <2>1, <2>2, <2>4, <2>5
<1>12. CASE m = "xts"
  <2> DEFINE units == Len(c.src) \div UnitSize
             y == XorBytes(tw, BlockEncrypt(XorBytes(tw, x)))
  <2>1. TweakBlock(XtsTweak(c.chain, units, i \div UnitBlocks), i % UnitBlocks) = tw
    <3>1. units \in Nat
      <4>1. UnitSize \in Nat \ {0} /\ Len(c.src) \in Nat
        BY <1>12, ModesAssumption DEF UnitSize
      <4> QED BY <4>1, Division, Zenon
    <3>2. q % UnitBlocks = 0 /\ i < units * UnitBlocks
      BY <1>12
    <3> HIDE DEF units
    <3>3. TweakRight(t, q, units, i)
      BY <3>1, <3>2, XtsTweakRight, Zenon
    <3>4. c.chain = (t + (q \div UnitBlocks)) % TweakRange
      BY <1>12 DEF LoopChain
    <3> QED BY <3>3, <3>4 DEF TweakRight
  <2>2. new = PutAt(c, at, y)
    <3>1. new = XtsBlock(c, at, XtsTweak(c.chain, units, i \div UnitBlocks), i % UnitBlocks, "encrypt")
      BY <1>12 DEF Step
    <3>2. SrcAt(c, at, ModeBlock) = x
      BY <1>1, <1>7, <1>12
    <3> HIDE DEF new, at, x, tw, units
    <3> QED BY <2>1, <3>1, <3>2 DEF XtsBlock
  <2>3. ref = y
    BY <1>2, <1>12, Zenon DEF RefForm
  <2> HIDE DEF new, at, ref, ch, y
  <2>4. Writes(c, PutAt(c, at, ref), at, ref, c.chain)
    BY PutIs, Zenon
  <2> QED BY <1>9, <1>12, <2>2, <2>3, <2>4 DEF ch
<1>13. CASE m \in {"cfb", "cfb1"}
  <2> DEFINE y == XorBytes(x, Slice(BlockEncrypt(u), 0, g))
  <2>1. new = [PutAt(c, at, y) EXCEPT !.chain = Shifted(u, y)]
    <3>1. new = CfbEncrypt(c, at, g)
      BY <1>13 DEF Step
    <3>2. c.chain = u /\ SrcAt(c, at, g) = x
      BY <1>5, <1>7, <1>13
    <3>3. [PutAt(c, at, y) EXCEPT !.chain = Shifted(@, y)] = [PutAt(c, at, y) EXCEPT !.chain = Shifted(u, y)]
      <4>1. PutAt(c, at, y).chain = c.chain
        BY DEF PutAt, CallFields
      <4> HIDE DEF y, u, at
      <4> QED BY <3>2, <4>1
    <3>4. CfbEncrypt(c, at, g) = [PutAt(c, at, y) EXCEPT !.chain = Shifted(@, y)]
      <4> HIDE DEF new, at, x, u, g
      <4> QED BY <3>2 DEF CfbEncrypt
    <3> QED BY <3>1, <3>3, <3>4
  <2>2. ref = y
    BY <1>2, <1>13, Zenon DEF RefForm
  <2>3. ch = Shifted(u, ref)
    BY <1>8, <1>13
  <2> HIDE DEF new, at, ref, ch, y, u
  <2>4. Writes(c, [PutAt(c, at, ref) EXCEPT !.chain = Shifted(u, ref)], at, ref, Shifted(u, ref))
    BY PutIs, Zenon
  <2> QED BY <2>1, <2>2, <2>3, <2>4
<1> QED BY <1>10, <1>11, <1>12, <1>13 DEF Modes

(* Step i of a decryption, of part s = q + i of a ciphertext: the          *)
(* plaintext is written, and the chaining value is the next.               *)
LEMMA DecryptStep ==
  ASSUME NEW m \in Modes, NEW t \in Nat, NEW text, NEW k \in Nat, Grown(m, t, text, k),
         NEW q \in Nat, NEW i \in Nat, NEW s, s = q + i, s < k,
         NEW c, DOMAIN c = CallFields,
         SrcAt(c, i * StepSize(m), StepSize(m)) = Slice(text, s * StepSize(m), StepSize(m)),
         c.chain = LoopChain(m, t, text, q, s * StepSize(m)),
         m = "xts" => q % UnitBlocks = 0 /\ Len(c.src) \in Nat /\ i < (Len(c.src) \div UnitSize) * UnitBlocks
  PROVE  Writes(c, Step(m, "decrypt", c, i), i * StepSize(m), Piece(m, s),
                LoopChain(m, t, text, q, (s + 1) * StepSize(m)))
<1> DEFINE g == StepSize(m)
           n == s * g
           at == i * g
           u == Before(text, n)
           tw == Tweaked(t, s)
           ref == ReferencePart(m, t, text, s)
           new == Step(m, "decrypt", c, i)
           x == Piece(m, s)
           ch == LoopChain(m, t, text, q, n + g)
<1>1. /\ s \in Nat /\ g \in 1 .. ModeBlock /\ g \in Nat /\ n \in Nat /\ k * g \in Nat /\ (s + 1) * g = n + g
      /\ n + g <= k * g /\ n <= k * g /\ (m # "cfb1" => g = ModeBlock) /\ ModeBlock \in Nat
  <2>1. s \in Nat
    OBVIOUS
  <2>2. g \in 1 .. ModeBlock /\ g \in Nat \ {0} /\ (m # "cfb1" => g = ModeBlock) /\ ModeBlock \in Nat
    BY StepIs, Zenon
  <2> HIDE DEF g
  <2>3. n \in Nat /\ n + g <= k * g /\ n <= k * g /\ k * g \in Nat
    BY <2>1, <2>2, Products
  <2>4. (s + 1) * g = n + g
    BY <2>1, <2>2
  <2> QED BY <2>1, <2>2, <2>3, <2>4
<1> SUFFICES Writes(c, new, at, x, ch)
  BY <1>1
<1>2. Text(text, k * g) /\ Plainly(text, k * g) /\ Slice(text, n, g) = ref
  <2>1. s \in 0 .. k - 1
    BY <1>1
  <2> QED BY <2>1 DEF Grown
<1>3. RefForm(m, s, u, tw, ref)
  BY RefCases, Zenon
<1>4. Text(ref, g) /\ Plainly(ref, g)
  BY <1>1, <1>2, RefIs, Zenon
<1>5. Text(u, ModeBlock) /\ Plainly(u, ModeBlock)
  BY <1>1, <1>2, BeforePart, Zenon
<1>6. m \in {"cbc", "cfb", "cfb1"} => c.chain = u
  BY DEF LoopChain
<1>7. Shifted(u, ref) = Before(text, n + g)
  <2> HIDE DEF ref, g, n
  <2>1. Shifted(u, Slice(text, n, g)) = Before(text, n + g)
    BY <1>1, <1>2, BeforeMoves, Zenon
  <2> QED BY <1>2, <2>1
<1>8. SrcAt(c, at, g) = ref
  BY <1>2
<1>9. m \notin {"xts", "ecb"} => ch = Shifted(u, ref)
  BY <1>7 DEF LoopChain
<1>10. m \in {"xts", "ecb"} => ch = c.chain
  BY DEF LoopChain
<1>11. CASE m = "ecb"
  <2>1. new = PutAt(c, at, BlockDecrypt(ref))
    BY <1>1, <1>8, <1>11 DEF Step, EcbDecrypt
  <2>2. BlockDecrypt(ref) = x
    <3>1. ref = BlockEncrypt(Piece("ecb", s)) /\ x = Piece("ecb", s)
      BY <1>3, <1>11, Zenon DEF RefForm
    <3>2. BlockDecrypt(BlockEncrypt(Piece("ecb", s))) = Piece("ecb", s)
      BY <1>1, EcbPart, Zenon
    <3> QED BY <3>1, <3>2, Zenon
  <2> HIDE DEF new, at, ref, ch, x
  <2>3. Writes(c, PutAt(c, at, x), at, x, c.chain)
    BY PutIs, Zenon
  <2> QED BY <1>10, <1>11, <2>1, <2>2, <2>3
<1>12. CASE m = "cbc"
  <2>1. new = [PutAt(c, at, XorBytes(BlockDecrypt(ref), u)) EXCEPT !.chain = ref]
    <3>1. new = CbcDecrypt(c, at)
      BY <1>12 DEF Step
    <3>2. SrcAt(c, at, ModeBlock) = ref /\ c.chain = u
      BY <1>1, <1>6, <1>8, <1>12
    <3> HIDE DEF new, at, ref, u
    <3> QED BY <3>1, <3>2 DEF CbcDecrypt
  <2>2. XorBytes(BlockDecrypt(ref), u) = x
    <3> DEFINE z == XorBytes(Piece("cbc", s), u)
    <3>1. ref = BlockEncrypt(z) /\ x = Piece("cbc", s)
      BY <1>3, <1>12, Zenon DEF RefForm
    <3>2. XorBytes(BlockDecrypt(BlockEncrypt(z)), u) = Piece("cbc", s)
      BY <1>1, <1>5, CbcPart, Zenon
    <3> QED BY <3>1, <3>2, Zenon
  <2>3. Shifted(u, ref) = ref
    <3>1. Text(ref, ModeBlock)
      BY <1>1, <1>4, <1>12
    <3> QED BY <1>5, <3>1, ShiftedOut, Zenon
  <2> HIDE DEF new, at, ref, ch, x
  <2>4. Writes(c, [PutAt(c, at, x) EXCEPT !.chain = ref], at, x, ref)
    BY PutIs, Zenon
  <2>5. ch = ref
    BY <1>9, <1>12, <2>3
  <2> QED BY <2>1, <2>2, <2>4, <2>5
<1>13. CASE m = "xts"
  <2> DEFINE units == Len(c.src) \div UnitSize
             y == XorBytes(tw, BlockDecrypt(XorBytes(tw, ref)))
  <2>1. TweakBlock(XtsTweak(c.chain, units, i \div UnitBlocks), i % UnitBlocks) = tw
    <3>1. units \in Nat
      <4>1. UnitSize \in Nat \ {0} /\ Len(c.src) \in Nat
        BY <1>13, ModesAssumption DEF UnitSize
      <4> QED BY <4>1, Division, Zenon
    <3>2. q % UnitBlocks = 0 /\ i < units * UnitBlocks
      BY <1>13
    <3> HIDE DEF units
    <3>3. TweakRight(t, q, units, i)
      BY <3>1, <3>2, XtsTweakRight, Zenon
    <3>4. c.chain = (t + (q \div UnitBlocks)) % TweakRange
      BY <1>13 DEF LoopChain
    <3> QED BY <3>3, <3>4 DEF TweakRight
  <2>2. new = PutAt(c, at, y)
    <3>1. new = XtsBlock(c, at, XtsTweak(c.chain, units, i \div UnitBlocks), i % UnitBlocks, "decrypt")
      BY <1>13 DEF Step
    <3>2. SrcAt(c, at, ModeBlock) = ref
      BY <1>1, <1>8, <1>13
    <3> HIDE DEF new, at, ref, tw, units
    <3> QED BY <2>1, <3>1, <3>2 DEF XtsBlock
  <2>3. y = x
    <3> DEFINE e == XorBytes(tw, BlockEncrypt(XorBytes(tw, Piece("xts", s))))
    <3>1. ref = e /\ x = Piece("xts", s)
      BY <1>3, <1>13, Zenon DEF RefForm
    <3>2. Text(tw, ModeBlock) /\ Plainly(tw, ModeBlock)
      BY TweakIs, Zenon DEF Tweaked
    <3> HIDE DEF tw
    <3>3. XorBytes(tw, BlockDecrypt(XorBytes(tw, e))) = Piece("xts", s)
      BY <1>1, <3>2, XtsPart, Zenon
    <3> QED BY <3>1, <3>3, Zenon
  <2> HIDE DEF new, at, x, ch, y
  <2>4. Writes(c, PutAt(c, at, x), at, x, c.chain)
    BY PutIs, Zenon
  <2> QED BY <1>10, <1>13, <2>2, <2>3, <2>4
<1>14. CASE m \in {"cfb", "cfb1"}
  <2> DEFINE key == Slice(BlockEncrypt(u), 0, g)
             w == Shifted(u, ref)
  <2>1. Slice(w, ModeBlock - g, g) = ref
    <3>1. /\ ModeBlock - g \in Nat /\ g + (ModeBlock - g) <= ModeBlock /\ Len(ref) = g
      <4>1. Len(ref) = g
        BY <1>4, TextLen, Zenon
      <4> HIDE DEF g
      <4> QED BY <1>1, <4>1
    <3> HIDE DEF g, u, ref
    <3>2. Text(Slice(u, g, ModeBlock - g), ModeBlock - g)
      <4>1. TextSliced(u, g, ModeBlock - g)
        BY <1>1, <1>5, <3>1, TextSlice, Zenon
      <4> QED BY <4>1, Zenon DEF TextSliced
    <3>3. w = Slice(u, g, ModeBlock - g) \o ref
      BY <3>1 DEF Shifted
    <3> HIDE DEF w
    <3>4. Slice(Slice(u, g, ModeBlock - g) \o ref, ModeBlock - g, g) = ref
      BY <1>4, <3>2, SliceLast, Zenon
    <3> QED BY <3>3, <3>4
  <2>2. new = [PutAt(c, at, XorBytes(ref, key)) EXCEPT !.chain = w]
    <3>1. new = CfbDecrypt(c, at, g)
      BY <1>14 DEF Step
    <3>2. c.chain = u /\ SrcAt(c, at, g) = ref
      BY <1>6, <1>8, <1>14
    <3> HIDE DEF new, at, ref, u, g
    <3>3. CfbDecrypt(c, at, g) = [PutAt(c, at, XorBytes(Slice(w, ModeBlock - g, g), key)) EXCEPT !.chain = w]
      BY <3>2 DEF CfbDecrypt
    <3> QED BY <2>1, <3>1, <3>3
  <2>3. XorBytes(ref, key) = x
    <3>1. ref = XorBytes(x, key)
      BY <1>3, <1>14, Zenon DEF RefForm
    <3>2. XorBytes(XorBytes(x, key), key) = x
      BY <1>1, <1>5, <1>14, CfbPart, Zenon
    <3> QED BY <3>1, <3>2, Zenon
  <2>4. ch = w
    BY <1>9, <1>14
  <2> HIDE DEF new, at, x, ch, w
  <2>5. Writes(c, [PutAt(c, at, x) EXCEPT !.chain = w], at, x, w)
    BY PutIs, Zenon
  <2> QED BY <2>2, <2>3, <2>4, <2>5
<1> QED BY <1>11, <1>12, <1>13, <1>14 DEF Modes
-----------------------------------------------------------------------------
(* The steps that a ran may take on cb bytes.                             *)
Within(m, q, cb, n) ==
  /\ n * StepSize(m) <= cb
  /\ m = "xts" => q % UnitBlocks = 0 /\ n <= (cb \div UnitSize) * UnitBlocks

(* An encryption after i steps, q parts into the message.                  *)
Made(m, text, c, i) == text \o Slice(c.dst, 0, i * StepSize(m))

EncAt(c, m, t, text, q, cb, inPlace, i) ==
  /\ Frame(c, PlainBytes(q * StepSize(m), q * StepSize(m) + cb), cb, inPlace, i * StepSize(m))
  /\ Grown(m, t, Made(m, text, c, i), q + i)
  /\ c.chain = LoopChain(m, t, Made(m, text, c, i), q, (q + i) * StepSize(m))

LEMMA Sums ==
  ASSUME NEW q \in Nat, NEW i \in Nat, NEW g \in Nat
  PROVE  /\ (q + i) * g = q * g + i * g /\ (i + 1) * g = i * g + g /\ (q + i) + 1 = q + (i + 1)
         /\ q * g \in Nat /\ i * g \in Nat
  OBVIOUS

(* One more step keeps it.                                                 *)
LEMMA EncAdvances ==
  ASSUME NEW m \in Modes, NEW t \in Nat, NEW text, NEW q \in Nat, Text(text, q * StepSize(m)),
         NEW cb \in Nat, NEW inPlace \in BOOLEAN, NEW i \in Nat, NEW n \in Nat, i < n,
         Within(m, q, cb, n), NEW c, EncAt(c, m, t, text, q, cb, inPlace, i)
  PROVE  EncAt(Step(m, "encrypt", c, i), m, t, text, q, cb, inPlace, i + 1)
<1> DEFINE g == StepSize(m)
           s == q + i
           at == i * g
           a == q * g
           src == PlainBytes(a, a + cb)
           h == Slice(c.dst, 0, at)
           O == text \o h
           ref == ReferencePart(m, t, O, s)
           new == Step(m, "encrypt", c, i)
           ch == LoopChain(m, t, O \o ref, q, (s + 1) * g)
<1>1. g \in Nat /\ g \in 1 .. ModeBlock
  BY StepIs
<1>2. /\ s * g = a + at /\ (i + 1) * g = at + g /\ s + 1 = q + (i + 1) /\ a \in Nat /\ at \in Nat
  <2> HIDE DEF g
  <2> QED BY <1>1, Sums
<1>3. s \in Nat /\ at + g <= cb
  <2>1. at + g <= n * g /\ n * g \in Nat
    <3> HIDE DEF g
    <3> QED BY <1>1, Products
  <2>2. n * g <= cb
    BY DEF Within
  <2> HIDE DEF g
  <2> QED BY <1>1, <1>2, <2>1, <2>2
<1>4. Frame(c, src, cb, inPlace, at) /\ Grown(m, t, O, s) /\ c.chain = LoopChain(m, t, O, q, s * g)
  BY DEF EncAt, Made
<1>5. Text(src, cb)
  BY <1>2, PlainIs, Zenon
<1>6. SrcAt(c, at, g) = Piece(m, s)
  <2>1. SrcAt(c, at, g) = Slice(src, at, g)
    <3>1. Frame(c, src, cb, inPlace, at)
      BY <1>4, Zenon
    <3> HIDE DEF g, at, src
    <3>2. Reads(c, src, at, g)
      BY <1>1, <1>2, <1>3, <1>5, <3>1, SrcIs, Zenon
    <3> QED BY <3>2, Zenon DEF Reads
  <2>2. PlainPart(a, cb, at, g)
    <3> HIDE DEF g, at, a
    <3> QED BY <1>1, <1>2, <1>3, PlainSlice, Zenon
  <2>3. Slice(src, at, g) = PlainBytes(s * g, s * g + g)
    <3>1. Slice(src, at, g) = PlainBytes(a + at, a + at + g)
      BY <2>2, Zenon DEF PlainPart
    <3> QED BY <1>2, <3>1
  <2> QED BY <2>1, <2>3 DEF Piece
<1>7. Text(O, s * g) /\ Plainly(O, s * g)
  BY <1>4, Zenon DEF Grown
<1>8. DOMAIN c = CallFields /\ c.src = src /\ Text(c.dst, cb)
  BY <1>4, Zenon DEF Frame
<1>9. m = "xts" => q % UnitBlocks = 0 /\ Len(c.src) \in Nat /\ i < (Len(c.src) \div UnitSize) * UnitBlocks
  <2> SUFFICES ASSUME m = "xts"
               PROVE  q % UnitBlocks = 0 /\ Len(c.src) \in Nat /\ i < (Len(c.src) \div UnitSize) * UnitBlocks
    OBVIOUS
  <2>1. Len(c.src) = cb
    BY <1>5, <1>8, TextLen, Zenon
  <2> DEFINE z == (cb \div UnitSize) * UnitBlocks
  <2>2. q % UnitBlocks = 0 /\ n <= z
    BY DEF Within
  <2>3. z \in Int
    <3>1. UnitSize \in Nat \ {0} /\ UnitBlocks \in Nat
      BY ModesAssumption DEF UnitSize
    <3>2. cb \div UnitSize \in Nat
      BY <3>1, Division, Zenon
    <3> QED BY <3>1, <3>2
  <2> HIDE DEF z
  <2>4. i < z
    BY <2>2, <2>3
  <2> QED BY <2>1, <2>2, <2>4 DEF z
<1>10. Writes(c, new, at, ref, ch)
  <2>1. s = q + i
    OBVIOUS
  <2> HIDE DEF O, s
  <2> QED BY <1>4, <1>6, <1>7, <1>8, <1>9, <2>1, EncryptStep, Zenon
<1>11. NextPart(m, t, O, s, ref)
  BY DEF NextPart
<1>12. Grown(m, t, O \o ref, s + 1)
  <2> HIDE DEF O, s, ref
  <2> QED BY <1>3, <1>4, <1>11, Grows, Zenon
<1>13. Text(ref, g)
  <2>1. s * g <= s * g
    <3> HIDE DEF s, g
    <3> QED BY <1>2
  <2> HIDE DEF O, s
  <2> QED BY <1>3, <1>7, <2>1, RefIs, Zenon
<1> HIDE DEF new, ref, src
<1>14. /\ Frame(new, src, cb, inPlace, at + g)
       /\ Slice(new.dst, 0, at + g) = h \o ref
  <2>1. Frame(c, src, cb, inPlace, at)
    BY <1>4, Zenon
  <2> HIDE DEF at, g, ch
  <2>2. Moves(c, new, src, cb, inPlace, at, ref, g)
    BY <1>2, <1>3, <1>10, <1>13, <2>1, FrameMoves, Zenon
  <2> QED BY <2>2, Zenon DEF Moves
<1>15. Text(h, at)
  <2>1. 0 + at <= cb /\ 0 \in Nat
    <3> HIDE DEF g, at
    <3> QED BY <1>1, <1>2, <1>3
  <2>2. TextSliced(c.dst, 0, at)
    <3> HIDE DEF g, at
    <3> QED BY <1>2, <1>8, <2>1, TextSlice, Zenon
  <2> QED BY <2>2, Zenon DEF TextSliced
<1>16. Made(m, text, new, i + 1) = O \o ref
  <2>1. Regroups(text, h, ref)
    <3> HIDE DEF h
    <3> QED BY <1>13, <1>15, TextRegroup, Zenon
  <2>2. (text \o h) \o ref = text \o (h \o ref)
    BY <2>1, Zenon DEF Regroups
  <2>3. Slice(new.dst, 0, (i + 1) * g) = h \o ref
    BY <1>2, <1>14
  <2> QED BY <2>2, <2>3 DEF Made
<1>17. new.chain = ch
  BY <1>10, Zenon DEF Writes
<1>18. Frame(new, src, cb, inPlace, (i + 1) * g)
  BY <1>2, <1>14
<1>19. /\ Grown(m, t, Made(m, text, new, i + 1), q + (i + 1))
       /\ new.chain = LoopChain(m, t, Made(m, text, new, i + 1), q, (q + (i + 1)) * g)
  BY <1>2, <1>12, <1>16, <1>17
<1> QED BY <1>18, <1>19 DEF EncAt, new, src

(* The loop as a predicate, and what its first ran has and each step      *)
(* keeps, its last has.                                                    *)
LoopSteps(f, m, d, start, n) ==
  f[0] = start /\ \A i \in 0 .. n - 1 : f[i + 1] = Step(m, d, f[i], i)

LEMMA LoopStepwise ==
  ASSUME NEW m, NEW d, NEW start, NEW n \in Nat
  PROVE  LoopSteps(ModeLoop(m, d, start, n), m, d, start, n)
  BY LoopIs DEF LoopSteps

(* What the first ran has and each step keeps, the last has.              *)
LEMMA AllSteps ==
  ASSUME NEW n \in Nat, NEW S, S \subseteq 0 .. n, 0 \in S, \A i \in 0 .. n - 1 : i \in S => i + 1 \in S
  PROVE  n \in S
<1> DEFINE T == (0 .. n) \ S
<1>1. T = {}
  <2> SUFFICES ASSUME T # {} PROVE FALSE
    OBVIOUS
  <2>1. T \in SUBSET Nat
    OBVIOUS
  <2>2. PICK k \in T : \A j \in T : k <= j
    <3> HIDE DEF T
    <3> QED BY <2>1, LeastNatural
  <2>3. k \in 0 .. n /\ k \notin S /\ k # 0
    OBVIOUS
  <2>4. k - 1 \in 0 .. n - 1 /\ k - 1 \in 0 .. n /\ (k - 1) + 1 = k /\ ~(k <= k - 1)
    BY <2>3
  <2>5. k - 1 \in S
    BY <2>2, <2>4
  <2> QED BY <2>3, <2>4, <2>5
<1>2. n \in 0 .. n
  OBVIOUS
<1> QED BY <1>1, <1>2

(* Before its first step a ran has done nothing.                          *)
LEMMA StartIs ==
  ASSUME NEW chain, NEW src, NEW cb, Text(src, cb), NEW inPlace \in BOOLEAN
  PROVE  LET c == ModeStart(chain, src, inPlace)
         IN Frame(c, src, cb, inPlace, 0) /\ c.chain = chain /\ Slice(c.dst, 0, 0) = <<>>
<1> DEFINE c == ModeStart(chain, src, inPlace)
<1>1. cb \in Nat /\ Len(src) = cb
  BY TextLen, Zenon
<1>2. DOMAIN c = CallFields /\ c.src = src /\ c.inPlace = inPlace /\ c.chain = chain
  BY DEF ModeStart, CallFields
<1>3. c.dst = IF inPlace THEN src ELSE Zeroes(cb)
  BY <1>1 DEF ModeStart
<1> HIDE DEF c
<1>4. Text(c.dst, cb)
  BY <1>1, <1>3, TextZeroes
<1>5. inPlace => \A i \in 0 + 1 .. cb : c.dst[i] = src[i]
  BY <1>3
<1>6. Slice(c.dst, 0, 0) = <<>>
  <2>1. 0 \in Nat /\ 0 + 0 <= cb
    BY <1>1
  <2>2. TextSliced(c.dst, 0, 0)
    BY <1>4, <2>1, TextSlice, Zenon
  <2> QED BY <2>2, TextEmpty, Zenon DEF TextSliced
<1>7. Frame(c, src, cb, inPlace, 0)
  BY <1>2, <1>4, <1>5 DEF Frame
<1> QED BY <1>2, <1>6, <1>7 DEF c

(* All the steps of an encryption.                                         *)
EncDone(m, t, text, q, cb, inPlace, n) ==
  LET start == ModeStart(LoopChain(m, t, text, q, q * StepSize(m)),
                         PlainBytes(q * StepSize(m), q * StepSize(m) + cb), inPlace)
  IN EncAt(ModeLoop(m, "encrypt", start, n)[n], m, t, text, q, cb, inPlace, n)

LEMMA EncLoop ==
  ASSUME NEW m \in Modes, NEW t \in Nat, NEW text, NEW q \in Nat, Grown(m, t, text, q),
         NEW cb \in Nat, NEW inPlace \in BOOLEAN, NEW n \in Nat, Within(m, q, cb, n)
  PROVE  EncDone(m, t, text, q, cb, inPlace, n)
<1> DEFINE g == StepSize(m)
           src == PlainBytes(q * g, q * g + cb)
           start == ModeStart(LoopChain(m, t, text, q, q * g), src, inPlace)
           f == ModeLoop(m, "encrypt", start, n)
           Stays(i) == EncAt(f[i], m, t, text, q, cb, inPlace, i)
           S == {i \in 0 .. n : Stays(i)}
<1>1. g \in Nat /\ q * g \in Nat /\ 0 * g = 0 /\ q + 0 = q
  BY StepIs
<1>2. Text(src, cb)
  BY <1>1, PlainIs, Zenon
<1>3. Text(text, q * g)
  BY Zenon DEF Grown
<1>4. f[0] = start /\ \A i \in 0 .. n - 1 : f[i + 1] = Step(m, "encrypt", f[i], i)
  <2> HIDE DEF start
  <2>1. LoopSteps(f, m, "encrypt", start, n)
    BY LoopStepwise, Zenon
  <2> HIDE DEF f
  <2> QED BY <2>1, Zenon DEF LoopSteps
<1>5. Stays(0)
  <2>1. /\ Frame(start, src, cb, inPlace, 0) /\ start.chain = LoopChain(m, t, text, q, q * g)
        /\ Slice(start.dst, 0, 0) = <<>>
    <3> HIDE DEF src
    <3> QED BY <1>2, StartIs, Zenon
  <2> HIDE DEF start, src, f
  <2>2. Made(m, text, start, 0) = text
    <3>1. text \o <<>> = text
      BY <1>3, TextAndEmpty, Zenon
    <3>2. Slice(start.dst, 0, 0 * g) = <<>>
      BY <1>1, <2>1
    <3> QED BY <3>1, <3>2 DEF Made
  <2>3. Frame(start, src, cb, inPlace, 0 * g) /\ Grown(m, t, Made(m, text, start, 0), q + 0)
        /\ start.chain = LoopChain(m, t, Made(m, text, start, 0), q, (q + 0) * g)
    BY <1>1, <2>1, <2>2
  <2> QED BY <1>4, <2>3 DEF EncAt, src
<1>6. ASSUME NEW i \in 0 .. n - 1, Stays(i)
      PROVE  Stays(i + 1)
  <2>1. i \in Nat /\ i < n
    OBVIOUS
  <2> HIDE DEF f
  <2> DEFINE c == f[i]
  <2>2. EncAt(c, m, t, text, q, cb, inPlace, i) /\ Within(m, q, cb, n)
    BY <1>6
  <2> HIDE DEF c, start, src, S
  <2>3. EncAt(Step(m, "encrypt", c, i), m, t, text, q, cb, inPlace, i + 1)
    BY <1>3, <2>1, <2>2, EncAdvances
  <2> QED BY <1>4, <2>3 DEF c
<1>7. n \in S
  <2>1. 0 \in S /\ S \subseteq 0 .. n
    BY <1>5
  <2>2. \A i \in 0 .. n - 1 : i \in S => i + 1 \in S
    <3> HIDE DEF Stays
    <3> QED BY <1>6
  <2> HIDE DEF S
  <2> QED BY <2>1, <2>2, AllSteps, Zenon
<1> QED BY <1>7 DEF EncDone
-----------------------------------------------------------------------------
(* Plaintext behind plaintext.                                             *)
PlainJoined(a, b, n) == PlainBytes(a, a + b) \o PlainBytes(a + b, a + b + n) = PlainBytes(a, a + b + n)

LEMMA PlainJoin ==
  ASSUME NEW a \in Nat, NEW b \in Nat, NEW n \in Nat
  PROVE  PlainJoined(a, b, n)
<1>1. \A x, y : PlainBytes(x, y) = DataBytes(x, y)
  BY DEF PlainBytes, DataBytes
<1>2. a + b \in Nat /\ a + b + n \in Nat /\ a <= a + b /\ a + b <= a + b + n
  OBVIOUS
<1>3. DataBytes(a, a + b) \o DataBytes(a + b, a + b + n) = DataBytes(a, a + b + n)
  BY <1>2, MessageJoins, Zenon
<1> QED BY <1>1, <1>3, Zenon DEF PlainJoined

(* Part of a part.                                                         *)
InPart(x, a, b, at, cb) == Slice(Slice(x, a, b), at, cb) = Slice(x, a + at, cb)

LEMMA PartOfPart ==
  ASSUME NEW x, NEW n, Text(x, n), NEW a \in Nat, NEW b \in Nat, a + b <= n,
         NEW at \in Nat, NEW cb \in Nat, at + cb <= b
  PROVE  InPart(x, a, b, at, cb)
<1> DEFINE y == Slice(x, a, b)
           v == Slice(y, at, cb)
           w == Slice(x, a + at, cb)
<1>1. n \in Nat
  BY TextLen, Zenon
<1>2. a + at \in Nat /\ (a + at) + cb <= n
  BY <1>1
<1>3. TextSliced(x, a, b) /\ TextSliced(x, a + at, cb)
  BY <1>2, TextSlice, Zenon
<1>4. /\ Text(y, b) /\ \A i \in 1 .. b : y[i] = x[a + i]
      /\ Text(w, cb) /\ \A i \in 1 .. cb : w[i] = x[(a + at) + i]
  BY <1>3, Zenon DEF TextSliced
<1> HIDE DEF y, w
<1>5. TextSliced(y, at, cb)
  BY <1>4, TextSlice, Zenon
<1>6. Text(v, cb) /\ \A i \in 1 .. cb : v[i] = y[at + i]
  BY <1>5, Zenon DEF TextSliced
<1> HIDE DEF v
<1>7. ASSUME NEW i \in 1 .. cb PROVE v[i] = w[i]
  <2>1. at + i \in 1 .. b /\ a + (at + i) = (a + at) + i
    OBVIOUS
  <2> QED BY <1>4, <1>6, <2>1
<1>8. v = w
  BY <1>4, <1>6, <1>7, TextSame, Zenon
<1> QED BY <1>8 DEF InPart, v, w, y

(* A decryption after i steps, q parts into the message.                   *)
DecAt(c, m, t, text, q, cb, inPlace, i) ==
  /\ Frame(c, Slice(text, q * StepSize(m), cb), cb, inPlace, i * StepSize(m))
  /\ Slice(c.dst, 0, i * StepSize(m)) = PlainBytes(q * StepSize(m), q * StepSize(m) + i * StepSize(m))
  /\ c.chain = LoopChain(m, t, text, q, (q + i) * StepSize(m))

(* The data of the ran, and the parts it does, are within the ciphertext. *)
Inside(m, q, cb, n, k) == q * StepSize(m) + cb <= k * StepSize(m) /\ q + n <= k

LEMMA DecAdvances ==
  ASSUME NEW m \in Modes, NEW t \in Nat, NEW text, NEW k \in Nat, Grown(m, t, text, k),
         NEW q \in Nat, NEW cb \in Nat, NEW inPlace \in BOOLEAN,
         NEW i \in Nat, NEW n \in Nat, i < n, Inside(m, q, cb, n, k),
         Within(m, q, cb, n), NEW c, DecAt(c, m, t, text, q, cb, inPlace, i)
  PROVE  DecAt(Step(m, "decrypt", c, i), m, t, text, q, cb, inPlace, i + 1)
<1> DEFINE g == StepSize(m)
           s == q + i
           at == i * g
           a == q * g
           src == Slice(text, a, cb)
           x == Piece(m, s)
           new == Step(m, "decrypt", c, i)
           ch == LoopChain(m, t, text, q, (s + 1) * g)
<1>1. g \in Nat /\ g \in 1 .. ModeBlock
  BY StepIs
<1>2. /\ s * g = a + at /\ (i + 1) * g = at + g /\ s + 1 = q + (i + 1) /\ a \in Nat /\ at \in Nat
  <2> HIDE DEF g
  <2> QED BY <1>1, Sums
<1>3. s \in Nat /\ s < k /\ at + g <= cb /\ a + cb <= k * g
  <2>1. at + g <= n * g /\ n * g \in Nat
    <3> HIDE DEF g
    <3> QED BY <1>1, Products
  <2>2. n * g <= cb
    BY DEF Within
  <2>3. a + cb <= k * g /\ q + n <= k
    BY DEF Inside
  <2> HIDE DEF g, a
  <2> QED BY <1>1, <1>2, <2>1, <2>2, <2>3
<1>4. /\ Frame(c, src, cb, inPlace, at) /\ Slice(c.dst, 0, at) = PlainBytes(a, a + at)
      /\ c.chain = LoopChain(m, t, text, q, s * g)
  BY DEF DecAt
<1>5. Text(text, k * g)
  BY Zenon DEF Grown
<1>6. Text(src, cb)
  <2>1. TextSliced(text, a, cb)
    <3> HIDE DEF g, a
    <3> QED BY <1>2, <1>3, <1>5, TextSlice, Zenon
  <2> QED BY <2>1, Zenon DEF TextSliced
<1>7. SrcAt(c, at, g) = Slice(text, s * g, g)
  <2>1. SrcAt(c, at, g) = Slice(src, at, g)
    <3>1. Frame(c, src, cb, inPlace, at)
      BY <1>4, Zenon
    <3> HIDE DEF g, at, src
    <3>2. Reads(c, src, at, g)
      BY <1>1, <1>2, <1>3, <1>6, <3>1, SrcIs, Zenon
    <3> QED BY <3>2, Zenon DEF Reads
  <2>2. InPart(text, a, cb, at, g)
    <3> HIDE DEF g, at, a
    <3> QED BY <1>1, <1>2, <1>3, <1>5, PartOfPart, Zenon
  <2>3. Slice(src, at, g) = Slice(text, a + at, g)
    BY <2>2, Zenon DEF InPart
  <2> QED BY <1>2, <2>1, <2>3
<1>8. DOMAIN c = CallFields /\ c.src = src /\ Text(c.dst, cb)
  BY <1>4, Zenon DEF Frame
<1>9. m = "xts" => q % UnitBlocks = 0 /\ Len(c.src) \in Nat /\ i < (Len(c.src) \div UnitSize) * UnitBlocks
  <2> SUFFICES ASSUME m = "xts"
               PROVE  q % UnitBlocks = 0 /\ Len(c.src) \in Nat /\ i < (Len(c.src) \div UnitSize) * UnitBlocks
    OBVIOUS
  <2>1. Len(c.src) = cb
    BY <1>6, <1>8, TextLen, Zenon
  <2> DEFINE z == (cb \div UnitSize) * UnitBlocks
  <2>2. q % UnitBlocks = 0 /\ n <= z
    BY DEF Within
  <2>3. z \in Int
    <3>1. UnitSize \in Nat \ {0} /\ UnitBlocks \in Nat
      BY ModesAssumption DEF UnitSize
    <3>2. cb \div UnitSize \in Nat
      BY <3>1, Division, Zenon
    <3> QED BY <3>1, <3>2
  <2> HIDE DEF z
  <2>4. i < z
    BY <2>2, <2>3
  <2> QED BY <2>1, <2>2, <2>4 DEF z
<1>10. Writes(c, new, at, x, ch)
  <2>1. s = q + i
    OBVIOUS
  <2> HIDE DEF s
  <2> QED BY <1>3, <1>4, <1>7, <1>8, <1>9, <2>1, DecryptStep, Zenon
<1>11. Text(x, g) /\ x = PlainBytes(a + at, a + at + g)
  <2>1. Text(x, g)
    BY <1>3, PieceIs, Zenon
  <2>2. x = PlainBytes(s * g, s * g + g)
    BY DEF Piece
  <2> QED BY <1>2, <2>1, <2>2
<1> HIDE DEF new, src, x
<1>12. /\ Frame(new, src, cb, inPlace, at + g)
       /\ Slice(new.dst, 0, at + g) = Slice(c.dst, 0, at) \o x
  <2>1. Frame(c, src, cb, inPlace, at)
    BY <1>4, Zenon
  <2> HIDE DEF at, g, ch
  <2>2. Moves(c, new, src, cb, inPlace, at, x, g)
    BY <1>2, <1>3, <1>10, <1>11, <2>1, FrameMoves, Zenon
  <2> QED BY <2>2, Zenon DEF Moves
<1>13. Slice(new.dst, 0, at + g) = PlainBytes(a, a + at + g)
  <2>1. PlainJoined(a, at, g)
    <3> HIDE DEF a, at, g
    <3> QED BY <1>1, <1>2, PlainJoin, Zenon
  <2> HIDE DEF a, at, g
  <2> QED BY <1>4, <1>11, <1>12, <2>1, Zenon DEF PlainJoined
<1>14. new.chain = ch
  BY <1>10, Zenon DEF Writes
<1>15. Frame(new, src, cb, inPlace, (i + 1) * g)
  BY <1>2, <1>12
<1>16. Slice(new.dst, 0, (i + 1) * g) = PlainBytes(a, a + (i + 1) * g)
  <2>1. a + at + g = a + (i + 1) * g
    <3> HIDE DEF a, at, g
    <3> QED BY <1>1, <1>2
  <2>2. at + g = (i + 1) * g
    BY <1>2, Zenon
  <2> QED BY <1>13, <2>1, <2>2
<1>17. new.chain = LoopChain(m, t, text, q, (q + (i + 1)) * g)
  BY <1>2, <1>14
<1> QED BY <1>15, <1>16, <1>17 DEF DecAt, new, src

(* All the steps of a decryption.                                          *)
DecDone(m, t, text, q, cb, inPlace, n) ==
  LET start == ModeStart(LoopChain(m, t, text, q, q * StepSize(m)), Slice(text, q * StepSize(m), cb), inPlace)
  IN DecAt(ModeLoop(m, "decrypt", start, n)[n], m, t, text, q, cb, inPlace, n)

LEMMA DecLoop ==
  ASSUME NEW m \in Modes, NEW t \in Nat, NEW text, NEW k \in Nat, Grown(m, t, text, k),
         NEW q \in Nat, NEW cb \in Nat, NEW inPlace \in BOOLEAN,
         NEW n \in Nat, Inside(m, q, cb, n, k), Within(m, q, cb, n)
  PROVE  DecDone(m, t, text, q, cb, inPlace, n)
<1> DEFINE g == StepSize(m)
           src == Slice(text, q * g, cb)
           start == ModeStart(LoopChain(m, t, text, q, q * g), src, inPlace)
           f == ModeLoop(m, "decrypt", start, n)
           Stays(i) == DecAt(f[i], m, t, text, q, cb, inPlace, i)
           S == {i \in 0 .. n : Stays(i)}
<1>1. g \in Nat /\ q * g \in Nat /\ 0 * g = 0 /\ q + 0 = q /\ q * g + cb <= k * g
  BY StepIs DEF Inside
<1>2. Text(src, cb)
  <2>1. Text(text, k * g)
    BY Zenon DEF Grown
  <2>2. TextSliced(text, q * g, cb)
    <3> HIDE DEF g
    <3> QED BY <1>1, <2>1, TextSlice, Zenon
  <2> QED BY <2>2, Zenon DEF TextSliced
<1>4. f[0] = start /\ \A i \in 0 .. n - 1 : f[i + 1] = Step(m, "decrypt", f[i], i)
  <2> HIDE DEF start
  <2>1. LoopSteps(f, m, "decrypt", start, n)
    BY LoopStepwise, Zenon
  <2> HIDE DEF f
  <2> QED BY <2>1, Zenon DEF LoopSteps
<1>5. Stays(0)
  <2>1. /\ Frame(start, src, cb, inPlace, 0) /\ start.chain = LoopChain(m, t, text, q, q * g)
        /\ Slice(start.dst, 0, 0) = <<>>
    <3> HIDE DEF src
    <3> QED BY <1>2, StartIs, Zenon
  <2>2. PlainBytes(q * g, q * g + 0) = <<>>
    <3>1. 0 \in Nat
      OBVIOUS
    <3>2. Text(PlainBytes(q * g, q * g + 0), 0)
      BY <1>1, <3>1, PlainIs, Zenon
    <3> QED BY <3>2, TextEmpty, Zenon
  <2> HIDE DEF start, src, f
  <2>3. Frame(start, src, cb, inPlace, 0 * g) /\ Slice(start.dst, 0, 0 * g) = PlainBytes(q * g, q * g + 0 * g)
        /\ start.chain = LoopChain(m, t, text, q, (q + 0) * g)
    <3> HIDE DEF g
    <3>1. 0 * g = 0 /\ q + 0 = q
      BY <1>1
    <3>2. Slice(start.dst, 0, 0) = PlainBytes(q * g, q * g + 0)
      BY <2>1, <2>2, Zenon
    <3> QED BY <2>1, <3>1, <3>2, Zenon
  <2> QED BY <1>4, <2>3 DEF DecAt, src
<1>6. ASSUME NEW i \in 0 .. n - 1, Stays(i)
      PROVE  Stays(i + 1)
  <2>1. i \in Nat /\ i < n
    OBVIOUS
  <2>2. DecAt(f[i], m, t, text, q, cb, inPlace, i)
    BY <1>6
  <2> HIDE DEF f
  <2> DEFINE c == f[i]
  <2>3. DecAt(c, m, t, text, q, cb, inPlace, i) /\ Inside(m, q, cb, n, k) /\ Within(m, q, cb, n)
        /\ Grown(m, t, text, k)
    BY <2>2
  <2> HIDE DEF c, g, start, src, S
  <2>4. DecAt(Step(m, "decrypt", c, i), m, t, text, q, cb, inPlace, i + 1)
    BY <2>1, <2>3, DecAdvances
  <2> QED BY <1>4, <2>4 DEF c
<1>7. n \in S
  <2>1. 0 \in S /\ S \subseteq 0 .. n
    BY <1>5
  <2>2. \A i \in 0 .. n - 1 : i \in S => i + 1 \in S
    <3> HIDE DEF Stays
    <3> QED BY <1>6
  <2> HIDE DEF S
  <2> QED BY <2>1, <2>2, AllSteps, Zenon
<1> QED BY <1>7 DEF DecDone
-----------------------------------------------------------------------------
(* The sizes of a ran on cb bytes, size bytes into the message: a granule *)
(* is f steps, l granules come before the ran and it does e.              *)
CallSizes(m, size, cb, l, e, f) ==
  LET g    == StepSize(m)
      done == RoundDown(cb, Granule(m))
  IN /\ size \div g = l * f /\ size = (l * f) * g
     /\ ModeSteps(m, cb) = e * f /\ done = (e * f) * g /\ done <= cb
     /\ (size + done) % Granule(m) = 0 /\ (size + done) \div g = l * f + e * f
     /\ m = "xts" => /\ f = UnitBlocks
                     /\ size \div UnitSize = l /\ cb \div UnitSize = e /\ (size + done) \div UnitSize = l + e

(* A granule is a whole number of steps.                                   *)
LEMMA GranuleIs ==
  ASSUME NEW m \in Modes
  PROVE  \E f \in Nat \ {0} : Granule(m) = f * StepSize(m) /\ (m = "xts" => f = UnitBlocks /\ Granule(m) = UnitSize)
<1>1. StepSize(m) \in Nat /\ 1 * StepSize(m) = StepSize(m)
  BY StepIs
<1>2. CASE m = "xts"
  <2>1. Granule(m) = UnitBlocks * StepSize(m) /\ UnitBlocks \in Nat \ {0} /\ Granule(m) = UnitSize
    BY <1>2, ModesAssumption DEF Granule, UnitSize, StepSize
  <2> QED BY <2>1
<1>3. CASE m # "xts"
  BY <1>1, <1>3 DEF Granule
<1> QED BY <1>2, <1>3

(* Products and sums, for the leaves below.                                *)
LEMMA Regroup3 ==
  ASSUME NEW a \in Nat, NEW f \in Nat, NEW g \in Nat
  PROVE  a * (f * g) = (a * f) * g /\ a * f \in Nat /\ a * (f * g) \in Nat
  BY SMTT(30)

(* The same of a sum.                                                      *)
LEMMA SumOfTwo ==
  ASSUME NEW a \in Nat, NEW b \in Nat, NEW G \in Nat
  PROVE  (a + b) * G = a * G + b * G /\ a * G \in Nat /\ b * G \in Nat
  BY SMTT(30)

(* The whole quotient of a multiple.                                       *)
LEMMA WholeQuotient ==
  ASSUME NEW q \in Nat, NEW b \in Nat \ {0}
  PROVE  DividesTo(q * b, b, q, 0)
<1>1. q * b \in Nat /\ q * b = q * b + 0 /\ 0 \in 0 .. b - 1
  OBVIOUS
<1> QED BY <1>1, DivisionNamed, Zenon

(* Every ran has such sizes.                                              *)
LEMMA SizesOfCall ==
  ASSUME NEW m \in Modes, NEW size \in Nat, NEW cb \in Nat, size % Granule(m) = 0
  PROVE  \E l \in Nat, e \in Nat, f \in Nat \ {0} : CallSizes(m, size, cb, l, e, f)
<1> DEFINE g == StepSize(m)
           G == Granule(m)
           l == size \div G
           e == cb \div G
           r == cb % G
           done == RoundDown(cb, G)
<1>1. g \in Nat \ {0}
  BY StepIs
<1>2. PICK f \in Nat \ {0} : G = f * g /\ (m = "xts" => f = UnitBlocks /\ G = UnitSize)
  BY GranuleIs
<1>3. G \in Nat \ {0}
  <2> HIDE DEF g, G
  <2> QED BY <1>1, <1>2
<1>4. l \in Nat /\ size = l * G + (size % G) /\ e \in Nat /\ r \in 0 .. G - 1 /\ cb = e * G + r
  <2> HIDE DEF G
  <2> QED BY <1>3, Division, Zenon
<1>5. size % G = 0 /\ done = cb - r
  BY DEF RoundDown
<1> HIDE DEF g, G, l, e, r, done
<1>6. size = l * G /\ done = e * G /\ done <= cb /\ l * G \in Nat /\ e * G \in Nat
  <2>1. l * G \in Nat /\ e * G \in Nat
    BY <1>3, <1>4, SumOfTwo
  <2> QED BY <1>4, <1>5, <2>1
<1>7. /\ size = (l * f) * g /\ done = (e * f) * g /\ l * f \in Nat /\ e * f \in Nat
  BY <1>1, <1>2, <1>4, <1>6, Regroup3
<1>8. size + done = (l + e) * G /\ l + e \in Nat
  BY <1>3, <1>4, <1>6, SumOfTwo
<1>9. size + done = (l * f + e * f) * g /\ l * f + e * f \in Nat
  BY <1>1, <1>7, SumOfTwo
<1>10. DividesTo((l * f) * g, g, l * f, 0) /\ DividesTo((e * f) * g, g, e * f, 0)
       /\ DividesTo((l * f + e * f) * g, g, l * f + e * f, 0)
  BY <1>1, <1>7, <1>9, WholeQuotient, Zenon
<1>11. DividesTo((l + e) * G, G, l + e, 0) /\ DividesTo(l * G, G, l, 0)
  BY <1>3, <1>4, <1>8, WholeQuotient, Zenon
<1>12. size \div g = l * f /\ done \div g = e * f /\ (size + done) \div g = l * f + e * f
  BY <1>7, <1>9, <1>10, Zenon DEF DividesTo
<1>13. (size + done) % G = 0 /\ (size + done) \div G = l + e /\ size \div G = l /\ cb \div G = e
  <2>1. cb \div G = e
    BY DEF e
  <2> QED BY <1>6, <1>8, <1>11, <2>1, Zenon DEF DividesTo
<1>14. ModeSteps(m, cb) = e * f
  BY <1>12 DEF ModeSteps, done, g, G
<1>15. m = "xts" => /\ f = UnitBlocks
                    /\ size \div UnitSize = l /\ cb \div UnitSize = e /\ (size + done) \div UnitSize = l + e
  BY <1>2, <1>13
<1>16. CallSizes(m, size, cb, l, e, f)
  BY <1>6, <1>7, <1>12, <1>13, <1>14, <1>15, Zenon DEF CallSizes, g, G, done
<1> QED BY <1>4, <1>16

(* The steps are those that a ran may take.                               *)
LEMMA StepsWithin ==
  ASSUME NEW m \in Modes, NEW size \in Nat, NEW cb \in Nat, NEW l \in Nat, NEW e \in Nat, NEW f \in Nat \ {0},
         CallSizes(m, size, cb, l, e, f)
  PROVE  Within(m, l * f, cb, e * f)
<1>1. (e * f) * StepSize(m) <= cb
  BY DEF CallSizes
<1>2. m = "xts" => (l * f) % UnitBlocks = 0 /\ e * f <= (cb \div UnitSize) * UnitBlocks
  <2> SUFFICES ASSUME m = "xts" PROVE (l * f) % UnitBlocks = 0 /\ e * f <= (cb \div UnitSize) * UnitBlocks
    OBVIOUS
  <2>1. f = UnitBlocks /\ cb \div UnitSize = e
    BY DEF CallSizes
  <2>2. DividesTo(l * f, f, l, 0)
    BY WholeQuotient, Zenon
  <2>3. (l * f) % UnitBlocks = 0
    BY <2>1, <2>2, Zenon DEF DividesTo
  <2>4. e * f \in Nat /\ e * f <= e * f
    OBVIOUS
  <2> QED BY <2>1, <2>3, <2>4
<1> QED BY <1>1, <1>2 DEF Within

(* The chaining value of the state is that with which the loop starts.     *)
StartsAt(m, t, text, size, q) == ChainAt(m, t, text, size) = LoopChain(m, t, text, q, q * StepSize(m))

LEMMA ChainAtStart ==
  ASSUME NEW m \in Modes, NEW t, NEW text, NEW size \in Nat, NEW cb \in Nat, NEW l \in Nat, NEW e \in Nat,
         NEW f \in Nat \ {0}, CallSizes(m, size, cb, l, e, f)
  PROVE  StartsAt(m, t, text, size, l * f)
<1> SUFFICES ChainAt(m, t, text, size) = LoopChain(m, t, text, l * f, (l * f) * StepSize(m))
  BY Zenon DEF StartsAt
<1>1. size = (l * f) * StepSize(m)
  BY Zenon DEF CallSizes
<1>2. CASE m = "xts"
  <2>1. size \div UnitSize = l /\ f = UnitBlocks
    BY <1>2, Zenon DEF CallSizes
  <2>2. DividesTo(l * f, f, l, 0)
    BY WholeQuotient, Zenon
  <2>3. (l * f) \div UnitBlocks = l
    BY <2>1, <2>2, Zenon DEF DividesTo
  <2> QED BY <1>2, <2>1, <2>3, Zenon DEF ChainAt, LoopChain
<1>3. CASE m # "xts"
  BY <1>1, <1>3, Zenon DEF ChainAt, LoopChain, Before
<1> QED BY <1>2, <1>3

(* And the one after a ran, with the tweaks of its data units behind it,  *)
(* is that of the state.                                                   *)
EndsAt(m, t, text, size, cb, q, n) ==
  LET after == LoopChain(m, t, text, q, (q + n) * StepSize(m))
  IN ChainAt(m, t, text, size + RoundDown(cb, Granule(m)))
       = IF m = "xts" THEN (after + (cb \div UnitSize)) % TweakRange ELSE after

LEMMA ChainAtEnd ==
  ASSUME NEW m \in Modes, NEW t \in Nat, NEW text, NEW size \in Nat, NEW cb \in Nat, NEW l \in Nat, NEW e \in Nat,
         NEW f \in Nat \ {0}, CallSizes(m, size, cb, l, e, f)
  PROVE  EndsAt(m, t, text, size, cb, l * f, e * f)
<1> DEFINE after == LoopChain(m, t, text, l * f, (l * f + e * f) * StepSize(m))
           end == size + RoundDown(cb, Granule(m))
<1> SUFFICES ChainAt(m, t, text, end) = IF m = "xts" THEN (after + (cb \div UnitSize)) % TweakRange ELSE after
  BY Zenon DEF EndsAt
<1>1. end = (l * f + e * f) * StepSize(m)
  <2>1. size = (l * f) * StepSize(m) /\ RoundDown(cb, Granule(m)) = (e * f) * StepSize(m)
    BY Zenon DEF CallSizes
  <2>2. l * f \in Nat /\ e * f \in Nat /\ StepSize(m) \in Nat
    BY StepIs
  <2>3. (l * f + e * f) * StepSize(m) = (l * f) * StepSize(m) + (e * f) * StepSize(m)
    BY <2>2, SumOfTwo
  <2> QED BY <2>1, <2>3, Zenon
<1>2. CASE m = "xts"
  <2>1. f = UnitBlocks /\ cb \div UnitSize = e /\ end \div UnitSize = l + e
    BY <1>2, Zenon DEF CallSizes
  <2>2. DividesTo(l * f, f, l, 0)
    BY WholeQuotient, Zenon
  <2>3. (l * f) \div UnitBlocks = l
    BY <2>1, <2>2, Zenon DEF DividesTo
  <2>4. after = (t + l) % TweakRange
    BY <1>2, <2>3, Zenon DEF LoopChain
  <2>5. TweakRange \in Nat \ {0} /\ t + l \in Nat /\ (t + l) + e = t + (l + e)
    BY ModesAssumption
  <2>6. (((t + l) % TweakRange) + e) % TweakRange = ((t + l) + e) % TweakRange
    BY <2>5, ModSum, Zenon
  <2>7. ChainAt(m, t, text, end) = (t + (l + e)) % TweakRange
    BY <1>2, <2>1, Zenon DEF ChainAt
  <2> HIDE DEF after, end
  <2>8. (after + (cb \div UnitSize)) % TweakRange = (t + (l + e)) % TweakRange
    BY <2>1, <2>4, <2>5, <2>6
  <2> QED BY <1>2, <2>7, <2>8, Zenon
<1>3. CASE m # "xts"
  <2>1. after = ChainAt(m, t, text, end)
    BY <1>1, <1>3, Zenon DEF ChainAt, LoopChain, Before
  <2> QED BY <1>3, <2>1, Zenon
<1> QED BY <1>2, <1>3
-----------------------------------------------------------------------------
(* A ran: the loop, and for XTS the tweak of the next data unit.          *)
Looped(m, d, chain, src, inPlace, n, c) == c = ModeLoop(m, d, ModeStart(chain, src, inPlace), n)[n]

Ended(m, cb, c, new) ==
  /\ new.dst = c.dst
  /\ new.chain = IF m = "xts" THEN (c.chain + (cb \div UnitSize)) % TweakRange ELSE c.chain

LEMMA CallIs ==
  ASSUME NEW m, NEW d, NEW chain, NEW src, NEW cb, Text(src, cb), NEW inPlace,
         NEW c, Looped(m, d, chain, src, inPlace, ModeSteps(m, cb), c), DOMAIN c = CallFields
  PROVE  Ended(m, cb, c, ModeCall(m, d, chain, src, inPlace))
<1> DEFINE new == ModeCall(m, d, chain, src, inPlace)
<1>1. Len(src) = cb
  BY TextLen, Zenon
<1>2. new = IF m = "xts" THEN [c EXCEPT !.chain = (@ + (cb \div UnitSize)) % TweakRange] ELSE c
  BY <1>1 DEF ModeCall, Looped
<1> HIDE DEF new
<1>3. /\ new.dst = c.dst
      /\ new.chain = IF m = "xts" THEN (c.chain + (cb \div UnitSize)) % TweakRange ELSE c.chain
  BY <1>2 DEF CallFields
<1> QED BY <1>3 DEF Ended, new

(* What an encryption adds to the message, and the chaining value it       *)
(* leaves.                                                                 *)
Adds(m, t, text, size, cb, q, n, new) ==
  LET done == RoundDown(cb, Granule(m))
      next == text \o Slice(new.dst, 0, done)
  IN Text(Slice(new.dst, 0, done), done) /\ Grown(m, t, next, q + n) /\ new.chain = ChainAt(m, t, next, size + done)

LEMMA EncCall ==
  ASSUME NEW m \in Modes, NEW t \in Nat, NEW text, NEW size \in Nat, NEW cb \in Nat, NEW inPlace \in BOOLEAN,
         NEW l \in Nat, NEW e \in Nat, NEW f \in Nat \ {0}, CallSizes(m, size, cb, l, e, f),
         Grown(m, t, text, l * f)
  PROVE  Adds(m, t, text, size, cb, l * f, e * f,
              ModeCall(m, "encrypt", ChainAt(m, t, text, size), PlainBytes(size, size + cb), inPlace))
<1> DEFINE g == StepSize(m)
           q == l * f
           n == e * f
           a == q * g
           src == PlainBytes(a, a + cb)
           chain == LoopChain(m, t, text, q, a)
           c == ModeLoop(m, "encrypt", ModeStart(chain, src, inPlace), n)[n]
           new == ModeCall(m, "encrypt", chain, src, inPlace)
           done == RoundDown(cb, Granule(m))
           next == text \o Slice(new.dst, 0, done)
<1>1. q \in Nat /\ n \in Nat
  OBVIOUS
<1>2. size = a /\ ModeSteps(m, cb) = n /\ done = n * g /\ done <= cb
  BY Zenon DEF CallSizes
<1>3. ChainAt(m, t, text, size) = chain
  <2>1. StartsAt(m, t, text, size, q)
    BY ChainAtStart, Zenon
  <2> QED BY <2>1, Zenon DEF StartsAt
<1>4. Within(m, q, cb, n)
  BY StepsWithin, Zenon
<1>5. Grown(m, t, text, q)
  OBVIOUS
<1>6. EncAt(c, m, t, text, q, cb, inPlace, n)
  <2> HIDE DEF q, n
  <2>1. EncDone(m, t, text, q, cb, inPlace, n)
    <3> HIDE DEF src, chain, c, new, done, next, a, g
    <3> QED BY <1>1, <1>4, <1>5, EncLoop
  <2> QED BY <2>1, Zenon DEF EncDone
<1>7. /\ DOMAIN c = CallFields
      /\ Text(c.dst, cb) /\ Grown(m, t, text \o Slice(c.dst, 0, n * g), q + n)
      /\ c.chain = LoopChain(m, t, text \o Slice(c.dst, 0, n * g), q, (q + n) * g)
  <2> HIDE DEF c, q, n
  <2> QED BY <1>6, Zenon DEF EncAt, Frame, Made
<1>8. Text(src, cb)
  <2>1. a \in Nat
    BY <1>2
  <2> HIDE DEF a
  <2> QED BY <2>1, PlainIs, Zenon
<1>9. /\ new.dst = c.dst
      /\ new.chain = IF m = "xts" THEN (c.chain + (cb \div UnitSize)) % TweakRange ELSE c.chain
  <2>1. Looped(m, "encrypt", chain, src, inPlace, ModeSteps(m, cb), c)
    BY <1>2 DEF Looped
  <2> HIDE DEF c, src, chain, n
  <2>2. Ended(m, cb, c, new)
    BY <1>7, <1>8, <2>1, CallIs, Zenon
  <2> HIDE DEF new
  <2> QED BY <2>2, Zenon DEF Ended
<1> HIDE DEF new, c, src
<1>10. next = text \o Slice(c.dst, 0, n * g)
  BY <1>2, <1>9
<1>11. Grown(m, t, next, q + n)
  BY <1>7, <1>10, Zenon
<1>12. c.chain = LoopChain(m, t, next, q, (q + n) * g)
  BY <1>7, <1>10, Zenon
<1> HIDE DEF next
<1>13. EndsAt(m, t, next, size, cb, q, n)
  BY ChainAtEnd, Zenon
<1>14. new.chain = ChainAt(m, t, next, size + done)
  <2> DEFINE after == LoopChain(m, t, next, q, (q + n) * g)
             end == ChainAt(m, t, next, size + done)
  <2>1. end = IF m = "xts" THEN (after + (cb \div UnitSize)) % TweakRange ELSE after
    BY <1>13, Zenon DEF EndsAt
  <2> HIDE DEF after, end
  <2>3. c.chain = after
    BY <1>12 DEF after
  <2>4. new.chain = end
    BY <1>9, <2>1, <2>3
  <2> QED BY <2>4 DEF end
<1>15. Text(Slice(new.dst, 0, done), done)
  <2>1. n * g \in Nat /\ 0 \in Nat /\ 0 + done <= cb
    <3>1. g \in Nat
      BY StepIs
    <3>2. n * g \in Nat
      <4> HIDE DEF n, g
      <4> QED BY <1>1, <3>1
    <3> HIDE DEF n, g, done
    <3> QED BY <1>2, <3>2
  <2>2. TextSliced(c.dst, 0, done)
    <3>1. done \in Nat /\ Text(c.dst, cb)
      BY <1>2, <1>7, <2>1
    <3> HIDE DEF done
    <3> QED BY <2>1, <3>1, TextSlice, Zenon
  <2> QED BY <1>9, <2>2, Zenon DEF TextSliced
<1>16. Adds(m, t, text, size, cb, q, n, new)
  BY <1>11, <1>14, <1>15 DEF Adds, next
<1> QED BY <1>2, <1>3, <1>16 DEF new, src

(* What a decryption gives, and the chaining value it leaves.              *)
Gives(m, t, text, size, cb, new) ==
  LET done == RoundDown(cb, Granule(m))
  IN Slice(new.dst, 0, done) = PlainBytes(size, size + done) /\ new.chain = ChainAt(m, t, text, size + done)

LEMMA DecCall ==
  ASSUME NEW m \in Modes, NEW t \in Nat, NEW text, NEW size \in Nat, NEW cb \in Nat, NEW inPlace \in BOOLEAN,
         NEW l \in Nat, NEW e \in Nat, NEW f \in Nat \ {0}, CallSizes(m, size, cb, l, e, f),
         NEW k \in Nat, Grown(m, t, text, k), size + cb <= k * StepSize(m)
  PROVE  Gives(m, t, text, size, cb,
               ModeCall(m, "decrypt", ChainAt(m, t, text, size), Slice(text, size, cb), inPlace))
<1> DEFINE g == StepSize(m)
           q == l * f
           n == e * f
           a == q * g
           src == Slice(text, a, cb)
           chain == LoopChain(m, t, text, q, a)
           c == ModeLoop(m, "decrypt", ModeStart(chain, src, inPlace), n)[n]
           new == ModeCall(m, "decrypt", chain, src, inPlace)
           done == RoundDown(cb, Granule(m))
<1>1. q \in Nat /\ n \in Nat
  OBVIOUS
<1>2. size = a /\ ModeSteps(m, cb) = n /\ done = n * g /\ done <= cb
  BY Zenon DEF CallSizes
<1>3. ChainAt(m, t, text, size) = chain
  <2>1. StartsAt(m, t, text, size, q)
    BY ChainAtStart, Zenon
  <2> QED BY <2>1, Zenon DEF StartsAt
<1>4. Within(m, q, cb, n)
  BY StepsWithin, Zenon
<1>5. Inside(m, q, cb, n, k)
  <2>1. a + cb <= k * g
    BY <1>2
  <2>2. g \in Nat \ {0}
    BY StepIs
  <2>3. n * g <= cb
    BY <1>2
  <2> HIDE DEF q, n, g
  <2>4. q + n <= k
    <3> SUFFICES ASSUME k < q + n PROVE FALSE
      BY <1>1
    <3>1. q + n \in Nat
      BY <1>1
    <3>2. k * g + g <= (q + n) * g /\ k * g \in Nat
      BY <2>2, <3>1, Products
    <3>3. (q + n) * g = q * g + n * g /\ q * g \in Nat /\ n * g \in Nat
      BY <1>1, <2>2, SumOfTwo
    <3>4. q * g + cb <= k * g
      BY <2>1
    <3> QED BY <2>2, <2>3, <3>2, <3>3, <3>4
  <2> QED BY <2>1, <2>4 DEF Inside, g
<1>6. DecAt(c, m, t, text, q, cb, inPlace, n)
  <2> HIDE DEF q, n
  <2>1. DecDone(m, t, text, q, cb, inPlace, n)
    <3> HIDE DEF src, chain, c, new, done, a, g
    <3> QED BY <1>1, <1>4, <1>5, DecLoop
  <2> QED BY <2>1, Zenon DEF DecDone
<1>7. /\ DOMAIN c = CallFields
      /\ Slice(c.dst, 0, n * g) = PlainBytes(a, a + n * g)
      /\ c.chain = LoopChain(m, t, text, q, (q + n) * g)
  <2> HIDE DEF c, q, n
  <2> QED BY <1>6, Zenon DEF DecAt, Frame
<1>8. Text(src, cb)
  <2>1. a \in Nat /\ a + cb <= k * g
    BY <1>2
  <2>2. Text(text, k * g)
    BY Zenon DEF Grown
  <2>3. TextSliced(text, a, cb)
    <3> HIDE DEF a
    <3> QED BY <2>1, <2>2, TextSlice, Zenon
  <2> QED BY <2>3, Zenon DEF TextSliced
<1>9. /\ new.dst = c.dst
      /\ new.chain = IF m = "xts" THEN (c.chain + (cb \div UnitSize)) % TweakRange ELSE c.chain
  <2>1. Looped(m, "decrypt", chain, src, inPlace, ModeSteps(m, cb), c)
    BY <1>2 DEF Looped
  <2> HIDE DEF c, src, chain, n
  <2>2. Ended(m, cb, c, new)
    BY <1>7, <1>8, <2>1, CallIs, Zenon
  <2> HIDE DEF new
  <2> QED BY <2>2, Zenon DEF Ended
<1> HIDE DEF new, c, src
<1>10. EndsAt(m, t, text, size, cb, q, n)
  BY ChainAtEnd, Zenon
<1>11. new.chain = ChainAt(m, t, text, size + done)
  <2>1. c.chain = LoopChain(m, t, text, q, (q + n) * g)
    BY <1>7, Zenon
  <2> DEFINE after == LoopChain(m, t, text, q, (q + n) * g)
             end == ChainAt(m, t, text, size + done)
  <2>2. end = IF m = "xts" THEN (after + (cb \div UnitSize)) % TweakRange ELSE after
    BY <1>10, Zenon DEF EndsAt
  <2>3. c.chain = after
    BY <2>1
  <2> HIDE DEF after, end
  <2>4. new.chain = end
    BY <1>9, <2>2, <2>3
  <2> QED BY <2>4 DEF end
<1>12. Slice(new.dst, 0, done) = PlainBytes(size, size + done)
  BY <1>2, <1>7, <1>9, Zenon
<1>13. Gives(m, t, text, size, cb, new)
  BY <1>11, <1>12 DEF Gives
<1> QED BY <1>2, <1>3, <1>13 DEF new, src
-----------------------------------------------------------------------------
(* The invariant of any values of the variables, and what it comes to.     *)
InvOf(m, t, ec, dc, text, opened) ==
  /\ m \in Modes /\ t \in FirstTweaks
  /\ Text(text, Len(text))
  /\ Len(opened) \in 0 .. Len(text) /\ Len(opened) % Granule(m) = 0
  /\ ec = ChainAt(m, t, text, Len(text)) /\ dc = ChainAt(m, t, text, Len(opened))
  /\ NoInverse(text)
  /\ IsCiphertext(m, t, text) /\ opened = PlainBytes(0, Len(opened))

ModesGood(m, t, ec, dc, text, opened, size, done) ==
  /\ m \in Modes /\ t \in FirstTweaks /\ size \in Nat /\ done \in 0 .. size
  /\ size % Granule(m) = 0 /\ done % Granule(m) = 0
  /\ Grown(m, t, text, size \div StepSize(m)) /\ opened = PlainBytes(0, done)
  /\ ec = ChainAt(m, t, text, size) /\ dc = ChainAt(m, t, text, done)

(* The bytes of a number of granules are whole steps.                      *)
LEMMA WholeSteps ==
  ASSUME NEW m \in Modes, NEW size \in Nat, size % Granule(m) = 0
  PROVE  size \div StepSize(m) \in Nat /\ (size \div StepSize(m)) * StepSize(m) = size
<1>1. 0 \in Nat
  OBVIOUS
<1>2. PICK l \in Nat, e \in Nat, f \in Nat \ {0} : CallSizes(m, size, 0, l, e, f)
  BY <1>1, SizesOfCall
<1>3. size \div StepSize(m) = l * f /\ size = (l * f) * StepSize(m)
  BY <1>2, Zenon DEF CallSizes
<1>4. l * f \in Nat
  OBVIOUS
<1> QED BY <1>3, <1>4

(* From the property to the law.                                           *)
LEMMA InvGood ==
  ASSUME NEW m, NEW t, NEW ec, NEW dc, NEW text, NEW opened, InvOf(m, t, ec, dc, text, opened)
  PROVE  ModesGood(m, t, ec, dc, text, opened, Len(text), Len(opened)) /\ Text(opened, Len(opened))
<1> DEFINE size == Len(text)
           g == StepSize(m)
           k == size \div g
<1>1. /\ m \in Modes /\ t \in FirstTweaks /\ Text(text, size) /\ Len(opened) \in 0 .. size
      /\ Len(opened) % Granule(m) = 0 /\ ec = ChainAt(m, t, text, size) /\ dc = ChainAt(m, t, text, Len(opened))
      /\ NoInverse(text) /\ IsCiphertext(m, t, text) /\ opened = PlainBytes(0, Len(opened))
  BY DEF InvOf
<1>2. size \in Nat /\ DOMAIN text = 1 .. size
  <2>1. size \in Nat /\ text = [i \in 1 .. size |-> text[i]]
    BY <1>1, Zenon DEF Text
  <2> HIDE DEF size
  <2> QED BY <2>1
<1>3. size % Granule(m) = 0 /\ \A i \in 0 .. k - 1 : Slice(text, i * g, g) = ReferencePart(m, t, text, i)
  BY <1>1, Zenon DEF IsCiphertext
<1> HIDE DEF size
<1>4. k \in Nat /\ k * g = size
  BY <1>1, <1>2, <1>3, WholeSteps, Zenon
<1>5. Plainly(text, size)
  BY <1>1, <1>2, Zenon DEF NoInverse, Plainly
<1>6. Grown(m, t, text, k)
  BY <1>1, <1>3, <1>4, <1>5, Zenon DEF Grown
<1>7. ModesGood(m, t, ec, dc, text, opened, size, Len(opened))
  BY <1>1, <1>2, <1>3, <1>6 DEF ModesGood
<1>8. Text(opened, Len(opened))
  <2>1. Len(opened) \in Nat /\ 0 \in Nat /\ 0 + Len(opened) = Len(opened)
    BY <1>1, <1>2
  <2>2. Text(PlainBytes(0, 0 + Len(opened)), Len(opened))
    BY <2>1, PlainIs, Zenon
  <2> QED BY <1>1, <2>1, <2>2
<1> QED BY <1>7, <1>8 DEF size

(* And back.                                                               *)
LEMMA GoodInv ==
  ASSUME NEW m, NEW t, NEW ec, NEW dc, NEW text, NEW opened, NEW size, NEW done,
         ModesGood(m, t, ec, dc, text, opened, size, done)
  PROVE  InvOf(m, t, ec, dc, text, opened)
<1> DEFINE g == StepSize(m)
           k == size \div g
<1>1. /\ m \in Modes /\ t \in FirstTweaks /\ size \in Nat /\ done \in 0 .. size
      /\ size % Granule(m) = 0 /\ done % Granule(m) = 0 /\ Grown(m, t, text, k) /\ opened = PlainBytes(0, done)
      /\ ec = ChainAt(m, t, text, size) /\ dc = ChainAt(m, t, text, done)
  BY DEF ModesGood
<1>2. k \in Nat /\ k * g = size
  BY <1>1, WholeSteps, Zenon
<1>3. Text(text, k * g) /\ Plainly(text, k * g)
      /\ \A i \in 0 .. k - 1 : Slice(text, i * g, g) = ReferencePart(m, t, text, i)
  BY <1>1, Zenon DEF Grown
<1> HIDE DEF k
<1>4. Text(text, size) /\ Plainly(text, size)
  BY <1>2, <1>3
<1>5. Len(text) = size
  BY <1>4, TextLen, Zenon
<1>6. done \in Nat /\ 0 \in Nat /\ 0 + done = done
  BY <1>1
<1>7. Len(opened) = done
  <2>1. Text(PlainBytes(0, 0 + done), done)
    BY <1>6, PlainIs, Zenon
  <2>2. Text(opened, done)
    BY <1>1, <1>6, <2>1
  <2> QED BY <2>2, TextLen, Zenon
<1>8. NoInverse(text)
  <2>1. DOMAIN text = 1 .. size
    <3>1. text = [i \in 1 .. size |-> text[i]]
      BY <1>4, Zenon DEF Text
    <3> QED BY <3>1
  <2> QED BY <1>4, <2>1, Zenon DEF NoInverse, Plainly
<1>9. IsCiphertext(m, t, text)
  BY <1>1, <1>3, <1>5, Zenon DEF IsCiphertext, k
<1> QED BY <1>1, <1>4, <1>5, <1>7, <1>8, <1>9 DEF InvOf

(* A message is begun.                                                     *)
LEMMA GoodBegin ==
  ASSUME NEW m \in Modes, NEW t \in FirstTweaks, NEW ec, ec = IF m = "xts" THEN t ELSE Iv
  PROVE  ModesGood(m, t, ec, ec, <<>>, <<>>, 0, 0)
<1>1. Granule(m) \in Nat \ {0} /\ StepSize(m) \in Nat \ {0}
  <2>1. StepSize(m) \in Nat \ {0}
    BY StepIs
  <2> QED BY <2>1, GranuleIs
<1>2. 0 % Granule(m) = 0 /\ 0 \div StepSize(m) = 0
  <2>1. 0 \in Nat /\ 0 * Granule(m) = 0 /\ 0 * StepSize(m) = 0
    BY <1>1
  <2>2. DividesTo(0 * Granule(m), Granule(m), 0, 0) /\ DividesTo(0 * StepSize(m), StepSize(m), 0, 0)
    BY <1>1, <2>1, WholeQuotient, Zenon
  <2> QED BY <2>1, <2>2 DEF DividesTo
<1>3. Grown(m, t, <<>>, 0)
  <2>1. 0 * StepSize(m) = 0 /\ 0 .. 0 - 1 = {}
    BY <1>1
  <2>2. Text(<<>>, 0) /\ Plainly(<<>>, 0)
    <3>1. 1 .. 0 = {}
      OBVIOUS
    <3> QED BY <3>1, TextEmpty DEF Plainly
  <2> QED BY <2>1, <2>2 DEF Grown
<1>4. ec = ChainAt(m, t, <<>>, 0)
  <2>1. CASE m = "xts"
    <3>1. UnitSize \in Nat \ {0} /\ TweakRange \in Nat \ {0} /\ t \in 0 .. TweakRange - 1
      BY ModesAssumption DEF UnitSize
    <3>2. DividesTo(0 * UnitSize, UnitSize, 0, 0) /\ 0 * UnitSize = 0
      BY <3>1, WholeQuotient
    <3>3. 0 \div UnitSize = 0
      BY <3>2 DEF DividesTo
    <3>4. (t + 0) % TweakRange = t
      BY <3>1
    <3> QED BY <2>1, <3>3, <3>4 DEF ChainAt
  <2>2. CASE m # "xts"
    <3>1. Iv \o <<>> = Iv
      BY IvIs, TextAndEmpty, Zenon
    <3>2. Slice(Iv, 0, ModeBlock) = Iv
      BY IvIs, TextAll, Zenon
    <3>3. ChainAt(m, t, <<>>, 0) = Iv
      BY <2>2, <3>1, <3>2, Zenon DEF ChainAt
    <3> QED BY <2>2, <3>3
  <2> QED BY <2>1, <2>2
<1>5. PlainBytes(0, 0) = <<>>
  <2>1. 0 \in Nat /\ 0 + 0 = 0
    OBVIOUS
  <2>2. Text(PlainBytes(0, 0 + 0), 0)
    BY <2>1, PlainIs, Zenon
  <2> QED BY <2>1, <2>2, TextEmpty
<1> QED BY <1>2, <1>3, <1>4, <1>5 DEF ModesGood

(* The chaining value at a place does not change when the text grows.      *)
ChainKept(m, t, text, b, p) == ChainAt(m, t, text \o b, p) = ChainAt(m, t, text, p)

LEMMA ChainAtSame ==
  ASSUME NEW m, NEW t, NEW text, NEW n, Text(text, n), NEW b, NEW k, Text(b, k), NEW p \in 0 .. n
  PROVE  ChainKept(m, t, text, b, p)
<1>1. Before(text \o b, p) = Before(text, p)
  BY BeforeSame, Zenon
<1> QED BY <1>1, Zenon DEF ChainKept, ChainAt, Before

(* An encryption of more of the message.                                   *)
LEMMA GoodEncrypt ==
  ASSUME NEW m, NEW t, NEW ec, NEW dc, NEW text, NEW opened, NEW size, NEW done,
         ModesGood(m, t, ec, dc, text, opened, size, done), NEW cb \in Nat, NEW inPlace \in BOOLEAN,
         NEW c, c = ModeCall(m, "encrypt", ec, PlainBytes(size, size + cb), inPlace)
  PROVE  ModesGood(m, t, c.chain, dc, text \o Slice(c.dst, 0, RoundDown(cb, Granule(m))), opened,
                   size + RoundDown(cb, Granule(m)), done)
<1> DEFINE g == StepSize(m)
           k == size \div g
           new == RoundDown(cb, Granule(m))
           b == Slice(c.dst, 0, new)
           next == text \o b
<1>1. /\ m \in Modes /\ t \in FirstTweaks /\ size \in Nat /\ done \in 0 .. size
      /\ size % Granule(m) = 0 /\ done % Granule(m) = 0 /\ Grown(m, t, text, k) /\ opened = PlainBytes(0, done)
      /\ ec = ChainAt(m, t, text, size) /\ dc = ChainAt(m, t, text, done)
  BY DEF ModesGood
<1>2. t \in Nat
  BY <1>1, ModesAssumption
<1>3. PICK l \in Nat, e \in Nat, f \in Nat \ {0} : CallSizes(m, size, cb, l, e, f)
  BY <1>1, SizesOfCall
<1>4. /\ k = l * f /\ size = (l * f) * g /\ new = (e * f) * g
      /\ (size + new) % Granule(m) = 0 /\ (size + new) \div g = l * f + e * f
  BY <1>3, Zenon DEF CallSizes
<1>5. Adds(m, t, text, size, cb, l * f, e * f, c)
  <2>1. Grown(m, t, text, l * f)
    BY <1>1, <1>4
  <2>2. c = ModeCall(m, "encrypt", ChainAt(m, t, text, size), PlainBytes(size, size + cb), inPlace)
    BY <1>1
  <2>3. Adds(m, t, text, size, cb, l * f, e * f,
             ModeCall(m, "encrypt", ChainAt(m, t, text, size), PlainBytes(size, size + cb), inPlace))
    BY <1>1, <1>2, <1>3, <2>1, EncCall
  <2> QED BY <2>2, <2>3
<1>6. Text(b, new) /\ Grown(m, t, next, l * f + e * f) /\ c.chain = ChainAt(m, t, next, size + new)
  BY <1>5, Zenon DEF Adds
<1>7. new \in Nat
  BY <1>6, TextLen, Zenon
<1>8. size + new \in Nat /\ done \in 0 .. size + new
  <2> HIDE DEF new
  <2> QED BY <1>1, <1>7
<1>9. dc = ChainAt(m, t, next, done)
  <2>1. Text(text, size)
    BY <1>1, <1>4, Zenon DEF Grown
  <2> HIDE DEF b, new
  <2>2. ChainAt(m, t, text \o b, done) = ChainAt(m, t, text, done)
    <3>1. ChainKept(m, t, text, b, done)
      BY <1>1, <1>6, <2>1, ChainAtSame, Zenon
    <3> QED BY <3>1, Zenon DEF ChainKept
  <2> QED BY <1>1, <2>2
<1>10. Grown(m, t, next, (size + new) \div g)
  BY <1>4, <1>6, Zenon
<1> HIDE DEF next, new, g
<1>11. ModesGood(m, t, c.chain, dc, next, opened, size + new, done)
  BY <1>1, <1>4, <1>6, <1>8, <1>9, <1>10 DEF ModesGood, g
<1> QED BY <1>11 DEF next, new

(* A decryption of more of the ciphertext.                                 *)
LEMMA GoodDecrypt ==
  ASSUME NEW m, NEW t, NEW ec, NEW dc, NEW text, NEW opened, NEW size, NEW done,
         ModesGood(m, t, ec, dc, text, opened, size, done), NEW cb \in Nat, done + cb <= size,
         NEW inPlace \in BOOLEAN, NEW c, c = ModeCall(m, "decrypt", dc, Slice(text, done, cb), inPlace)
  PROVE  ModesGood(m, t, ec, c.chain, text, opened \o Slice(c.dst, 0, RoundDown(cb, Granule(m))),
                   size, done + RoundDown(cb, Granule(m)))
<1> DEFINE g == StepSize(m)
           k == size \div g
           new == RoundDown(cb, Granule(m))
           b == Slice(c.dst, 0, new)
           next == opened \o b
<1>1. /\ m \in Modes /\ t \in FirstTweaks /\ size \in Nat /\ done \in 0 .. size
      /\ size % Granule(m) = 0 /\ done % Granule(m) = 0 /\ Grown(m, t, text, k) /\ opened = PlainBytes(0, done)
      /\ ec = ChainAt(m, t, text, size) /\ dc = ChainAt(m, t, text, done)
  BY DEF ModesGood
<1>2. t \in Nat /\ done \in Nat
  BY <1>1, ModesAssumption
<1>3. PICK l \in Nat, e \in Nat, f \in Nat \ {0} : CallSizes(m, done, cb, l, e, f)
  BY <1>1, <1>2, SizesOfCall
<1>4. new = (e * f) * g /\ new <= cb /\ (done + new) % Granule(m) = 0
  BY <1>3, Zenon DEF CallSizes
<1>5. k \in Nat /\ k * g = size
  BY <1>1, WholeSteps, Zenon
<1>6. Gives(m, t, text, done, cb, c)
  <2>1. done + cb <= k * g
    BY <1>5
  <2> DEFINE ran == ModeCall(m, "decrypt", ChainAt(m, t, text, done), Slice(text, done, cb), inPlace)
  <2>2. c = ran
    BY <1>1
  <2> HIDE DEF k
  <2>3. Gives(m, t, text, done, cb, ran)
    BY <1>1, <1>2, <1>3, <1>5, <2>1, DecCall
  <2> QED BY <2>2, <2>3
<1>7. b = PlainBytes(done, done + new) /\ c.chain = ChainAt(m, t, text, done + new)
  BY <1>6, Zenon DEF Gives
<1>8. new \in Nat
  <2>1. g \in Nat /\ e * f \in Nat
    BY StepIs, <1>1
  <2> HIDE DEF g, new
  <2>2. (e * f) * g \in Nat
    BY <2>1
  <2> QED BY <1>4, <2>2
<1>9. next = PlainBytes(0, done + new)
  <2>1. 0 \in Nat /\ 0 + done = done
    BY <1>2
  <2> HIDE DEF new, b
  <2>2. PlainJoined(0, done, new)
    BY <1>2, <1>8, <2>1, PlainJoin, Zenon
  <2>3. PlainBytes(0, 0 + done) \o PlainBytes(0 + done, 0 + done + new) = PlainBytes(0, 0 + done + new)
    BY <2>2, Zenon DEF PlainJoined
  <2> QED BY <1>1, <1>7, <2>1, <2>3
<1>10. done + new \in 0 .. size
  <2> HIDE DEF new
  <2> QED BY <1>1, <1>2, <1>4, <1>8
<1> HIDE DEF next, new, g
<1>11. ModesGood(m, t, ec, c.chain, text, next, size, done + new)
  BY <1>1, <1>4, <1>7, <1>9, <1>10 DEF ModesGood, g, k
<1> QED BY <1>11 DEF next, new
-----------------------------------------------------------------------------
(* In every state the chaining values are those of the standard at the     *)
(* bytes encrypted and decrypted so far (encChain, decChain against        *)
(* cipher and plain, ModesInv), whatever the sizes of the calls, in place  *)
(* or not, and wherever the tweak of XTS wraps around.                     *)
THEOREM ModesInvariance == ModesSpec => []ModesInv
<1>1. ModesInv <=> InvOf(mode, first, encChain, decChain, cipher, plain)
  BY DEF ModesInv, InvOf, ModesAreReference
<1>2. ModesInv' <=> InvOf(mode', first', encChain', decChain', cipher', plain')
  BY DEF ModesInv, InvOf, ModesAreReference, ChainAt, NoInverse, IsCiphertext, ReferencePart
<1>3. ModesInit => ModesInv
  <2> SUFFICES ASSUME ModesInit PROVE ModesInv
    OBVIOUS
  <2>1. /\ mode \in Modes /\ first \in FirstTweaks /\ encChain = (IF mode = "xts" THEN first ELSE Iv)
        /\ decChain = encChain /\ cipher = <<>> /\ plain = <<>>
    BY DEF ModesInit
  <2>2. ModesGood(mode, first, encChain, encChain, <<>>, <<>>, 0, 0)
    BY <2>1, GoodBegin
  <2>3. InvOf(mode, first, encChain, decChain, cipher, plain)
    BY <2>1, <2>2, GoodInv
  <2> QED BY <1>1, <2>3
<1>4. ModesInv /\ [ModesNext]_modeVars => ModesInv'
  <2> SUFFICES ASSUME ModesInv, [ModesNext]_modeVars PROVE ModesInv'
    OBVIOUS
  <2>1. InvOf(mode, first, encChain, decChain, cipher, plain)
    BY <1>1
  <2>2. ModesGood(mode, first, encChain, decChain, cipher, plain, Len(cipher), Len(plain))
    BY <2>1, InvGood, Zenon
  <2>3. mode \in Modes /\ first \in FirstTweaks
    BY <2>2, Zenon DEF ModesGood
  <2>4. CASE ModeBegin
    <3>1. /\ mode' = mode /\ first' = first /\ encChain' = (IF mode = "xts" THEN first ELSE Iv)
          /\ decChain' = encChain' /\ cipher' = <<>> /\ plain' = <<>>
      BY <2>4 DEF ModeBegin
    <3>2. ModesGood(mode, first, encChain', encChain', <<>>, <<>>, 0, 0)
      BY <2>3, <3>1, GoodBegin
    <3>3. InvOf(mode', first', encChain', decChain', cipher', plain')
      BY <3>1, <3>2, GoodInv
    <3> QED BY <1>2, <3>3
  <2>5. ASSUME NEW cbData \in ModeSizes, NEW inPlace \in BOOLEAN, ModeEncrypt(cbData, inPlace)
        PROVE  ModesInv'
    <3> DEFINE c == ModeCall(mode, "encrypt", encChain, PlainBytes(Len(cipher), Len(cipher) + cbData), inPlace)
               done == RoundDown(cbData, Granule(mode))
    <3>1. cbData \in Nat
      BY ModesAssumption
    <3>2. /\ cipher' = cipher \o Slice(c.dst, 0, done) /\ encChain' = c.chain
          /\ mode' = mode /\ first' = first /\ decChain' = decChain /\ plain' = plain
      BY <2>5, Zenon DEF ModeEncrypt
    <3>3. ModesGood(mode, first, c.chain, decChain, cipher \o Slice(c.dst, 0, done), plain,
                    Len(cipher) + done, Len(plain))
      BY <2>2, <3>1, GoodEncrypt
    <3> HIDE DEF c, done
    <3>4. InvOf(mode, first, c.chain, decChain, cipher \o Slice(c.dst, 0, done), plain)
      BY <3>3, GoodInv
    <3> QED BY <1>2, <3>2, <3>4
  <2>6. ASSUME NEW cbData \in ModeSizes, NEW inPlace \in BOOLEAN, ModeDecrypt(cbData, inPlace)
        PROVE  ModesInv'
    <3> DEFINE c == ModeCall(mode, "decrypt", decChain, Slice(cipher, Len(plain), cbData), inPlace)
               done == RoundDown(cbData, Granule(mode))
    <3>1. cbData \in Nat /\ Len(plain) + cbData <= Len(cipher)
      BY <2>6, ModesAssumption DEF ModeDecrypt
    <3>2. /\ plain' = plain \o Slice(c.dst, 0, done) /\ decChain' = c.chain
          /\ mode' = mode /\ first' = first /\ encChain' = encChain /\ cipher' = cipher
      BY <2>6, Zenon DEF ModeDecrypt
    <3>3. ModesGood(mode, first, encChain, c.chain, cipher, plain \o Slice(c.dst, 0, done),
                    Len(cipher), Len(plain) + done)
      BY <2>2, <3>1, GoodDecrypt
    <3> HIDE DEF c, done
    <3>4. InvOf(mode, first, encChain, c.chain, cipher, plain \o Slice(c.dst, 0, done))
      BY <3>3, GoodInv
    <3> QED BY <1>2, <3>2, <3>4
  <2>7. CASE UNCHANGED modeVars
    BY <1>2, <2>1, <2>7 DEF modeVars
  <2> QED BY <2>4, <2>5, <2>6, <2>7 DEF ModesNext
<1> QED BY <1>3, <1>4, PTL DEF ModesSpec

(* Every mode gives the standard's ciphertext for the message as a whole,  *)
(* and decryption gives the plaintext back: for all block sizes, sizes of  *)
(* data units, batches of tweaks and sizes of calls (ModeCall).            *)
THEOREM ModesReference == ModesSpec => []ModesAreReference
<1>1. ModesInv => ModesAreReference
  BY DEF ModesInv
<1> QED BY <1>1, ModesInvariance, PTL

(* The same in all that the objects do that take a message in parts.       *)
THEOREM MessagesModesAreReference == MCMessagesSpec => []ModesAreReference
<1>1. MCMessagesInit => ModesInit
  BY DEF MCMessagesInit
<1>2. [MCMessagesNext]_<<part, objectVars, hmacVars, macVars, modeVars, vars>> => [ModesNext]_modeVars
  BY DEF MCMessagesNext
<1>3. MCMessagesSpec => ModesSpec
  BY <1>1, <1>2, PTL DEF MCMessagesSpec, ModesSpec
<1> QED BY <1>3, ModesReference, PTL
=============================================================================
