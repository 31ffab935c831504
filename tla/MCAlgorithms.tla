----------------------------- MODULE MCAlgorithms -----------------------------
(***************************************************************************)
(* Small operands, keys, records and functions for the models of the       *)
(* algorithms.  A behaviour is one of one kind of object.                  *)
(***************************************************************************)
EXTENDS Modular, TrialDivision, TlsCbc, KeyDerivation, RsaPadding

VARIABLE object
-----------------------------------------------------------------------------
(* Numbers of up to three digits of one word of three bits: values at the  *)
(* ends of words, and with quotients that are estimated too high.          *)
Operand(v, digits) == [v |-> v, digits |-> digits]
MCOperands ==
  {Operand(v, 1) : v \in {0, 1, 7}}
    \cup {Operand(v, 2) : v \in {9, 35, 63}} \cup {Operand(v, 3) : v \in {5, 65}}

(* Moduli of all three kinds of reduction: odd for Montgomery form if they *)
(* are used often enough, powers of two, and the others.                   *)
AModulus(v, digits, prime, operations) ==
  [v |-> v, digits |-> digits, prime |-> prime, operations |-> operations, parityPublic |-> TRUE]
MCModuli ==
  {AModulus(1, 1, FALSE, 10), AModulus(2, 1, TRUE, 10), AModulus(7, 1, TRUE, 10), AModulus(5, 2, TRUE, 10),
   AModulus(35, 2, FALSE, 10), AModulus(13, 2, TRUE, 1), AModulus(12, 2, FALSE, 10), AModulus(61, 3, TRUE, 10)}
Exponent(v, bits) == [v |-> v, bits |-> bits]
MCExponents == {Exponent(0, 1), Exponent(5, 3), Exponent(45, 6)}

(* Trial division by the primes up to 60 in words of 12 bits.              *)
MCSpecial == <<3, 5, 7>>
MCGroupSpec == <<[nPrimes |-> 2, nGroups |-> 2, maxPrime |-> 19], [nPrimes |-> 1, nGroups |-> 0, maxPrime |-> 0]>>
Filled(n, low, mid, top, fill) ==
  [i \in 1 .. n |-> IF i = 1 THEN low ELSE IF i = n THEN top ELSE IF i = 9 THEN mid ELSE fill]
MCSources ==
  {Filled(n, low, mid, top, fill) :
     n \in {8, 16}, low \in {2 * k + 1 : k \in 0 .. 59} \cup {0, 4, 4095}, mid \in {1, 4095}, top \in {0, 4095, 77},
     fill \in {0, 4095}}
-----------------------------------------------------------------------------
MCPadded ==
  {<<7, 7, 7, 7>> \o t :
     t \in {<<1, 2, 2, 2>>, <<1, 3, 3, 3>>, <<4, 4, 4, 4>>, <<2, 4, 4, 4>>, <<1, 1, 1, 1>>, <<1, 1, 1, 8>>,
            <<8, 8, 8, 8>>, <<0, 0, 0, 0>>}}
    \cup {<<a, b, c, d>> : a \in {1, 4}, b \in {3, 4}, c \in {2, 3, 4}, d \in 0 .. 5}

(* A MAC and a hash function on bytes of two and of four bits.             *)
MCSizes == [mac |-> 3, md5 |-> 2, sha1 |-> 3]
Mixed(bytes, start, factor, range) ==
  LET mixed[i \in 0 .. Len(bytes)] ==
        IF i = 0 THEN start ELSE LET before == mixed[i - 1] IN (before * factor + bytes[i] + 11) % range
  IN mixed[Len(bytes)]
MCMac(alg, key, message) ==
  LET v == Mixed(Append(key, 3) \o message, MCSizes[alg] * 5, 29, 4099)
  IN SubSeq([j \in 1 .. MCSizes[alg] |-> (v \div 4 ^ j) % 4], 1, MCSizes[alg])
MCHash(message) == LET v == Mixed(message, 7, 37, 4093) IN <<(v \div 16) % 16, v \div 256>>

MCKdKeys == {<<1>>, <<2, 3>>, <<1, 0, 2>>}
MCSalts == {<<>>, <<2>>}
MCKdLabels == {<<>>, <<1>>, <<2, 1, 3>>}
MCContexts == {<<>>, <<1, 2>>, <<1, 2, 3>>}

MCRpKeys == {[nBitsOfModulus |-> n, hasPrivateKey |-> TRUE] : n \in {35, 61, 136}}
              \cup {[nBitsOfModulus |-> 64, hasPrivateKey |-> FALSE]}
MCMessages == {<<>>, <<0, 1, 2, 9>>}
MCLabels == {<<>>, <<6>>}
MCHashes == {<<5, 6>>, <<5, 6, 1>>}
MCOids == {<<1>>, <<1, 2>>}
MCOidLists == {<<>>, <<<<1>>>>, <<<<1, 2>>, <<1>>>>}
MCSeeds == {<<3, 8>>}
(* Of 9, 16 or 34 bytes: the first, those around the ends, and the zero in *)
(* front of a message.                                                     *)
MCPlaces == (1 .. 12) \cup {15, 16, 30, 33, 34}
-----------------------------------------------------------------------------
(* The objects that a behaviour leaves alone.                              *)
IdleNumbers == nmA = <<>> /\ nmB = <<0>>
IdleModular ==
  /\ mmMod = IntToModulus(<<1>>, 1, TRUE, FALSE)
  /\ mmX = <<>> /\ mmY = <<0>> /\ mmValue = [m |-> 1, x |-> 0, y |-> 0]
IdleTrial == tdContext = CreateTrialDivisionContext(1) /\ tdSource = <<>> /\ tdDivisor = 0
IdleTlsCbc ==
  tcSize = 5 /\ tcState = TcHeaderAppended(3) /\ tcSent = <<>> /\ tcRecord = <<0>> /\ tcVerdict = "none"
IdleRsa ==
  /\ rpKey = [nBitsOfModulus |-> 64, hasPrivateKey |-> FALSE]
  /\ rpScheme = [scheme |-> "none"] /\ rpText = <<>> /\ rpDone = [op |-> "none"]

MCAlgorithmsInit ==
  /\ object \in {"number", "modulus", "trial division", "constant time", "record", "derived key", "rsa"}
  /\ IF object = "number" THEN NumbersInit ELSE IdleNumbers
  /\ IF object = "modulus" THEN ModularInit ELSE IdleModular
  /\ IF object = "trial division" THEN TrialInit ELSE IdleTrial
  /\ IF object = "record" THEN TlsCbcInit ELSE IdleTlsCbc
  /\ IF object = "rsa" THEN RsaPaddingInit ELSE IdleRsa
  /\ ConstantTimeInit /\ KeyDerivationInit

MCAlgorithmsNext ==
  /\ UNCHANGED object
  /\ \/ object = "number" /\ NumbersNext /\ UNCHANGED <<mmVars, tdVars, ctVars, tcVars, kdVars, rpVars>>
     \/ object = "modulus" /\ ModularNext /\ UNCHANGED <<nmVars, tdVars, ctVars, tcVars, kdVars, rpVars>>
     \/ object = "trial division" /\ TrialNext /\ UNCHANGED <<nmVars, mmVars, ctVars, tcVars, kdVars, rpVars>>
     \/ object = "constant time" /\ ConstantTimeNext /\ UNCHANGED <<nmVars, mmVars, tdVars, tcVars, kdVars, rpVars>>
     \/ object = "record" /\ TlsCbcNext /\ UNCHANGED <<nmVars, mmVars, tdVars, ctVars, kdVars, rpVars>>
     \/ object = "derived key" /\ KeyDerivationNext /\ UNCHANGED <<nmVars, mmVars, tdVars, ctVars, tcVars, rpVars>>
     \/ object = "rsa" /\ RsaPaddingNext /\ UNCHANGED <<nmVars, mmVars, tdVars, ctVars, tcVars, kdVars>>

MCAlgorithmsSpec ==
  MCAlgorithmsInit /\ [][MCAlgorithmsNext]_<<object, nmVars, mmVars, tdVars, ctVars, tcVars, kdVars, rpVars>>
=============================================================================
