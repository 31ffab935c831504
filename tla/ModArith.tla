------------------------------ MODULE ModArith -------------------------------
(***************************************************************************)
(* Arithmetic that the models of keys and signatures share: powers and     *)
(* inverses modulo a number, and the sizes of a number in bits, bytes and  *)
(* digits.  A byte and a digit may be narrower than the code's, so that    *)
(* small numbers have interesting sizes.                                   *)
(***************************************************************************)
EXTENDS Integers

CONSTANTS
  ByteBits,   \* 8 in the code
  DigitBits   \* 512 or 384 in the code

ASSUME SizeAssumption == ByteBits \in Nat \ {0} /\ DigitBits \in Nat \ {0}

NumberBits(n) == CHOOSE k \in 0 .. n : n < 2 ^ k /\ (k = 0 \/ n >= 2 ^ (k - 1))
BytesOf(bits) == (bits + ByteBits - 1) \div ByteBits
DigitsOf(bits) == (bits + DigitBits - 1) \div DigitBits

PowMod(b, e, m) ==
  LET f[i \in 0 .. e] ==
        IF i = 0 THEN 1 % m
        ELSE LET half == f[i \div 2]
             IN (((half * half) % m) * (IF i % 2 = 1 THEN b ELSE 1)) % m
  IN f[e]

(* SymCryptModExp reads nBitsExp bits of the exponent.                     *)
ModExp(b, e, nBitsExp, m) == PowMod(b, e % 2 ^ nBitsExp, m)

InvMod(a, m) == CHOOSE x \in 1 .. m - 1 : (a * x) % m = 1
=============================================================================
