----------------------------- MODULE CipherModes -----------------------------
(***************************************************************************)
(* The modes of operation over any block cipher (lib/blockciphermodes.c):  *)
(* ECB, CBC and CFB with a feedback of one byte or one block, and XTS      *)
(* (lib/xtsaes.c).  A message is encrypted and decrypted in calls of any   *)
(* sizes, the chaining value carrying over, each call in place or from one *)
(* buffer to another.  Counter mode is in CipherBytes.                     *)
(*                                                                         *)
(* The cipher is a permutation and nothing more: byte j of the encryption  *)
(* of a block is an atom that names the block, and decrypting the bytes of *)
(* such a block gives the block back.                                      *)
(***************************************************************************)
EXTENDS CipherBytes

CONSTANTS
  ModeBlock,       \* blockSize
  UnitBlocks,      \* the blocks of an XTS data unit: cbDataUnit / 16
  ParallelTweaks,  \* N_PARALLEL_TWEAKS: 16
  TweakRange,      \* 2^64: the values of tweak
  FirstTweaks,     \* the tweaks of the first data unit
  ModeSizes,       \* cbData of the calls
  ModeMax          \* bound: the bytes of a message

ASSUME ModesAssumption ==
  /\ ModeBlock \in Nat /\ ModeBlock >= 2
  /\ UnitBlocks \in Nat \ {0} /\ ParallelTweaks \in Nat \ {0} /\ TweakRange \in Nat \ {0}
  /\ FirstTweaks \subseteq 0 .. TweakRange - 1 /\ ModeSizes \subseteq Nat

VARIABLES
  mode,        \* the mode of this message
  first,       \* XTS: the first tweak
  encChain,    \* pbChainingValue of the encryption; XTS: the next tweak
  decChain,    \* the same of the decryption
  cipher,      \* the ciphertext so far
  plain        \* what has been decrypted of it so far

modeVars == <<mode, first, encChain, decChain, cipher, plain>>

Modes == {"ecb", "cbc", "cfb1", "cfb", "xts"}
Iv == [j \in 1 .. ModeBlock |-> Atom("iv", 0, j)]
PlainBytes(from, to) == [i \in 1 .. to - from |-> Atom("data", from + i, 0)]

(* encryptFunc and decryptFunc, inverse to each other.                     *)
IsOutput(kind, block) ==
  /\ \A j \in 1 .. ModeBlock : \E atom \in block[j] :
       block[j] = {atom} /\ atom[1] = kind /\ atom[3] = j
  /\ \E b \in {atom[2] : atom \in block[1]} : \A j \in 1 .. ModeBlock : block[j] = Atom(kind, b, j)

InputOf(block) == (CHOOSE atom \in block[1] : TRUE)[2]

BlockEncrypt(block) ==
  IF IsOutput("dec", block) THEN InputOf(block) ELSE [j \in 1 .. ModeBlock |-> Atom("enc", block, j)]
BlockDecrypt(block) ==
  IF IsOutput("enc", block) THEN InputOf(block) ELSE [j \in 1 .. ModeBlock |-> Atom("dec", block, j)]
-----------------------------------------------------------------------------
(* A call: src and dst are the two buffers, or one.  A step of its loop    *)
(* reads and writes at an offset and moves the chaining value.             *)
SrcAt(c, at, cb) == Slice(IF c.inPlace THEN c.dst ELSE c.src, at, cb)
PutAt(c, at, data) == [c EXCEPT !.dst = CopyTo(@, at, data)]

EcbEncrypt(c, at) == PutAt(c, at, BlockEncrypt(SrcAt(c, at, ModeBlock)))
EcbDecrypt(c, at) == PutAt(c, at, BlockDecrypt(SrcAt(c, at, ModeBlock)))

CbcEncrypt(c, at) ==
  LET buf == BlockEncrypt(XorBytes(SrcAt(c, at, ModeBlock), c.chain))
  IN [PutAt(c, at, buf) EXCEPT !.chain = buf]

(* Mutant: the chaining value is read from pbSrc after pbDst was written.  *)
CbcDecryptReadsBack(c, at) ==
  LET done == PutAt(c, at, XorBytes(BlockDecrypt(SrcAt(c, at, ModeBlock)), c.chain))
  IN [done EXCEPT !.chain = SrcAt(done, at, ModeBlock)]

(* "Make sure it works with pbSrc == pbDst": the ciphertext is copied out. *)
CbcDecrypt(c, at) ==
  LET ciphertext == SrcAt(c, at, ModeBlock)
  IN [PutAt(c, at, XorBytes(BlockDecrypt(ciphertext), c.chain)) EXCEPT !.chain = ciphertext]

(* The chaining value shifted by cbShift bytes.                            *)
Shifted(chain, bytes) == Slice(chain, Len(bytes), ModeBlock - Len(bytes)) \o bytes

CfbEncrypt(c, at, cbShift) ==
  LET tmp == XorBytes(SrcAt(c, at, cbShift), Slice(BlockEncrypt(c.chain), 0, cbShift))
  IN [PutAt(c, at, tmp) EXCEPT !.chain = Shifted(@, tmp)]

CfbDecrypt(c, at, cbShift) ==
  LET tmp   == BlockEncrypt(c.chain)
      chain == Shifted(c.chain, SrcAt(c, at, cbShift))
  IN [PutAt(c, at, XorBytes(Slice(chain, ModeBlock - cbShift, cbShift), Slice(tmp, 0, cbShift)))
        EXCEPT !.chain = chain]

(* The tweak of a data unit encrypted under the second key, times alpha^b. *)
TweakBlock(tweak, b) == [j \in 1 .. ModeBlock |-> Atom("tweak", tweak, b * ModeBlock + j)]

(* SymCryptXtsEncryptDataUnit and SymCryptXtsDecryptDataUnit, one block.   *)
XtsBlock(c, at, tweak, b, dir) ==
  LET buf == XorBytes(TweakBlock(tweak, b), SrcAt(c, at, ModeBlock))
  IN PutAt(c, at, XorBytes(TweakBlock(tweak, b),
                           IF dir = "encrypt" THEN BlockEncrypt(buf) ELSE BlockDecrypt(buf)))

UnitSize == UnitBlocks * ModeBlock

(* The tweaks of a batch of n data units behind done units of the call.    *)
XtsTweaks(tweak, done, n) == [i \in 1 .. n |-> (tweak + done + i - 1) % TweakRange]

(* Tweaks are made for a batch of data units, then the units of the batch  *)
(* are done: the tweak of unit u, counted from 0, of all units of a call.  *)
XtsTweak(tweak, units, u) ==
  LET done == (u \div ParallelTweaks) * ParallelTweaks
  IN XtsTweaks(tweak, done, SmallerOf(ParallelTweaks, units - done))[1 + (u - done)]

(* The bytes of a step of the loop, and those that a mode does at a time;  *)
(* a rest of cbData is left alone.                                         *)
StepSize(m) == IF m = "cfb1" THEN 1 ELSE ModeBlock
Granule(m) == IF m = "xts" THEN UnitSize ELSE StepSize(m)

(* Step i of the loop, counted from 0.                                     *)
Step(m, dir, c, i) ==
  LET at == i * StepSize(m)
  IN CASE m = "ecb" -> IF dir = "encrypt" THEN EcbEncrypt(c, at) ELSE EcbDecrypt(c, at)
       [] m = "cbc" -> IF dir = "encrypt" THEN CbcEncrypt(c, at) ELSE CbcDecrypt(c, at)
       [] m = "xts" -> XtsBlock(c, at, XtsTweak(c.chain, Len(c.src) \div UnitSize, i \div UnitBlocks),
                                i % UnitBlocks, dir)
       [] OTHER     -> IF dir = "encrypt" THEN CfbEncrypt(c, at, StepSize(m))
                       ELSE CfbDecrypt(c, at, StepSize(m))

ModeStart(chain, data, inPlace) ==
  [src |-> data, dst |-> IF inPlace THEN data ELSE Zeroes(Len(data)), inPlace |-> inPlace, chain |-> chain]

ModeSteps(m, cbData) == RoundDown(cbData, Granule(m)) \div StepSize(m)

(* The call after each of its n steps.                                     *)
ModeLoop(m, dir, start, n) ==
  LET after[i \in 0 .. n] == IF i = 0 THEN start ELSE Step(m, dir, after[i - 1], i - 1)
  IN after

(* With XTS the next call is for the next data unit.                       *)
ModeCall(m, dir, chain, data, inPlace) ==
  LET n == ModeSteps(m, Len(data))
      c == ModeLoop(m, dir, ModeStart(chain, data, inPlace), n)[n]
  IN IF m = "xts" THEN [c EXCEPT !.chain = (@ + (Len(data) \div UnitSize)) % TweakRange] ELSE c
-----------------------------------------------------------------------------
ModesInit ==
  /\ mode \in Modes
  /\ first \in FirstTweaks
  /\ encChain = (IF mode = "xts" THEN first ELSE Iv)
  /\ decChain = encChain
  /\ cipher = <<>> /\ plain = <<>>

(* XTS takes whole data units; of the others, what is not a whole number   *)
(* of granules is not written and is passed again with the next call.      *)
SizeAllowed(cbData) == (mode = "xts") => cbData % UnitSize = 0

ModeEncrypt(cbData, inPlace) ==
  /\ SizeAllowed(cbData)
  /\ Len(cipher) + cbData <= ModeMax
  /\ LET done == RoundDown(cbData, Granule(mode))
         c == ModeCall(mode, "encrypt", encChain, PlainBytes(Len(cipher), Len(cipher) + cbData), inPlace)
     IN /\ cipher' = cipher \o Slice(c.dst, 0, done)
        /\ encChain' = c.chain
  /\ UNCHANGED <<mode, first, decChain, plain>>

ModeDecrypt(cbData, inPlace) ==
  /\ SizeAllowed(cbData)
  /\ Len(plain) + cbData <= Len(cipher)
  /\ LET done == RoundDown(cbData, Granule(mode))
         c == ModeCall(mode, "decrypt", decChain, Slice(cipher, Len(plain), cbData), inPlace)
     IN /\ plain' = plain \o Slice(c.dst, 0, done)
        /\ decChain' = c.chain
  /\ UNCHANGED <<mode, first, encChain, cipher>>

(* The caller starts again with the first chaining value.                  *)
ModeBegin ==
  /\ encChain' = (IF mode = "xts" THEN first ELSE Iv) /\ decChain' = encChain'
  /\ cipher' = <<>> /\ plain' = <<>>
  /\ UNCHANGED <<mode, first>>

ModesNext ==
  \/ ModeBegin
  \/ \E cbData \in ModeSizes, inPlace \in BOOLEAN :
       ModeEncrypt(cbData, inPlace) \/ ModeDecrypt(cbData, inPlace)

ModesSpec == ModesInit /\ [][ModesNext]_modeVars
-----------------------------------------------------------------------------
(* SP 800-38A and IEEE 1619: part i, counted from 0, of the ciphertext.    *)
(* The chaining modes go by the block before it in IV and ciphertext.      *)
ReferencePart(m, tweak, text, i) ==
  LET g       == StepSize(m)
      data    == PlainBytes(i * g, i * g + g)
      before  == Slice(Iv \o text, i * g, ModeBlock)
      tweaked == TweakBlock((tweak + (i \div UnitBlocks)) % TweakRange, i % UnitBlocks)
  IN CASE m = "ecb" -> BlockEncrypt(data)
       [] m = "cbc" -> BlockEncrypt(XorBytes(data, before))
       [] m = "xts" -> XorBytes(tweaked, BlockEncrypt(XorBytes(tweaked, data)))
       [] OTHER     -> XorBytes(data, Slice(BlockEncrypt(before), 0, g))

IsCiphertext(m, tweak, text) ==
  LET g == StepSize(m)
  IN /\ Len(text) % Granule(m) = 0
     /\ \A i \in 0 .. (Len(text) \div g) - 1 : Slice(text, i * g, g) = ReferencePart(m, tweak, text, i)

(* The ciphertext of a message does not depend on how it was cut into      *)
(* calls, on which of them worked in place, or for XTS on where the        *)
(* batches of tweaks ended: it is the standard's, also when the tweak      *)
(* wraps around.  Decryption in calls of other sizes, in place or not,     *)
(* gives the plaintext back.                                               *)
ModesAreReference ==
  /\ IsCiphertext(mode, first, cipher)
  /\ plain = PlainBytes(0, Len(plain))
-----------------------------------------------------------------------------
(* The inductive invariant behind it.  The chaining value n bytes into the *)
(* message is the block before them; XTS counts data units.                *)
ChainAt(m, tweak, text, n) ==
  IF m = "xts" THEN (tweak + (n \div UnitSize)) % TweakRange
  ELSE IF m = "ecb" THEN Iv ELSE Slice(Iv \o text, n, ModeBlock)

(* The inverse of the cipher was never applied to make the ciphertext, so  *)
(* that what goes into the cipher is never what came out of its inverse.   *)
NoInverse(text) == \A k \in DOMAIN text : \A atom \in text[k] : atom[1] # "dec"

ModesInv ==
  /\ mode \in Modes /\ first \in FirstTweaks
  /\ Text(cipher, Len(cipher))
  /\ Len(plain) \in 0 .. Len(cipher) /\ Len(plain) % Granule(mode) = 0
  /\ encChain = ChainAt(mode, first, cipher, Len(cipher))
  /\ decChain = ChainAt(mode, first, cipher, Len(plain))
  /\ NoInverse(cipher)
  /\ ModesAreReference
=============================================================================
