------------------------------- MODULE EcKeys --------------------------------
(***************************************************************************)
(* Keys over an elliptic curve (eckey.c), ECDSA (ec_dsa.c) and ECDH        *)
(* (ec_dh.c), on the points and multiples of EcPoints.  A private key is   *)
(* kept divided by the cofactor and imported in the format of its curve:   *)
(* "canonical", "divh", or "timesh" for the multiple of the cofactor that  *)
(* Curve25519 has.  The curves here have the further fields format, cb     *)
(* (the size of a private key), hbBits, hbPos and hbVal (the bits that     *)
(* every private key has at its high end).                                 *)
(***************************************************************************)
EXTENDS EcPoints

CONSTANTS
  EkPrivates,    \* private keys to import, for each curve
  EkPublics,     \* public keys to import, for each curve: pairs of coordinates
  EkHashes       \* hash values to sign: [v |-> value, cb |-> bytes]

ASSUME EkAssumption ==
  \A c \in EcCurves :
    /\ NumberBits(c.gOrd) <= c.cb * ByteBits
    /\ EkPrivates[c] \subseteq 0 .. 2 ^ (c.cb * ByteBits) - 1
    /\ EkPublics[c] \subseteq Nat \X Nat

VARIABLES
  ekCurve,    \* the curve
  ekKey,      \* the key object
  ekStatus    \* what the last call returned

ekVars == <<ekCurve, ekKey, ekStatus>>

EkAbsent == -1
EkNoPoint == <<>>
EkFactor == 2 ^ ekCurve.coFactorPower
Generator == EcpointSetValue(ekCurve, ekCurve.g)

(* made is not in the code: how the last call that had the key for its     *)
(* destination left it.  "no": it failed; "public": with a public key      *)
(* only; "plain": its halves were not related or zero was not excluded;    *)
(* "pair": they were.  order: the order of the public key was validated.   *)
EckeyCreate == [has |-> FALSE, priv |-> 0, pub |-> EkNoPoint, made |-> "no", order |-> FALSE]

EkInit == ekCurve \in EcCurves /\ ekKey = EckeyCreate /\ ekStatus = "NO_ERROR"
-----------------------------------------------------------------------------
(* SymCryptEckeyPerformPublicKeyValidation                                 *)
EckeyPublicKeyValid(pub, validation) ==
  /\ ~EcpointIsZero(ekCurve, pub)
  /\ ekCurve.type = "mont" \/ EcpointOnCurve(ekCurve, pub)
  /\ (validation = "order" /\ EkFactor # 1) =>
       EcpointIsZero(ekCurve, EcpointScalarMul(ekCurve, ekCurve.gOrd, pub, FALSE))

(* The multiple of the generator that a private key stands for.            *)
EckeyPublicOf(priv) == EcpointScalarMul(ekCurve, priv, Generator, TRUE)

HighBits(x, pos) == (x \div 2 ^ pos) % 2 ^ ekCurve.hbBits

(* The checks of SymCryptEckeySetValue on a private key as it is imported. *)
EckeyPrivateAllowed(x, validation) ==
  /\ (validation \in {"range", "order"} /\ ekCurve.format = "canonical") => x < ekCurve.gOrd
  /\ (ekCurve.format = "timesh") => x % EkFactor = 0
  /\ (ekCurve.hbBits > 0) => HighBits(x, ekCurve.hbPos) = ekCurve.hbVal

(* Mutant: a canonical private key is kept as it is.                       *)
EckeyToDivHOnlyTimes(x) ==
  (IF ekCurve.format = "timesh" THEN x \div EkFactor ELSE x) % ekCurve.gOrd

(* From the format of the curve to the one that keys have, and back.       *)
EckeyToDivH(x) ==
  LET n == ekCurve.gOrd
  IN (CASE ekCurve.format = "timesh" -> x \div EkFactor
        [] ekCurve.format = "canonical" -> (x % n) * InvMod(EkFactor % n, n)
        [] OTHER -> x) % n

EckeyFromDivH(x) ==
  CASE ekCurve.format = "timesh" -> x * EkFactor
    [] ekCurve.format = "canonical" -> (x * EkFactor) % ekCurve.gOrd
    [] OTHER -> x

EkFailed(k, status) == [key |-> [k EXCEPT !.made = "no", !.order = FALSE], status |-> status]
EkSucceeded(k, how, order) == [key |-> [k EXCEPT !.made = how, !.order = order], status |-> "NO_ERROR"]

(* SymCryptEckeySetValue: the private key is in the object before anything *)
(* is known of the public one.                                             *)
EckeySetPublicResult(k1, given, A, computed, validation, regenerate) ==
  LET minimal == validation = "minimal"
      k2 == [k1 EXCEPT !.pub = IF A = EkNoPoint THEN computed ELSE EcpointSetValue(ekCurve, A)]
      how == IF ~given THEN "public"
             ELSE IF ~minimal /\ (A = EkNoPoint \/ regenerate) THEN "pair" ELSE "plain"
  IN IF A # EkNoPoint /\ ~(A[1] < ekCurve.p /\ A[2] < ekCurve.p) THEN EkFailed(k1, "INVALID_ARGUMENT")
     ELSE IF \/ ~minimal /\ ~EckeyPublicKeyValid(k2.pub, validation)
             \/ given /\ regenerate /\ ~EcpointIsEqual(ekCurve, k2.pub, computed, 1)
     THEN EkFailed(k2, "INVALID_ARGUMENT")
     ELSE EkSucceeded(k2, how, validation = "order")

EckeySetValueResult(key, x, A, validation, regenerate) ==
  LET given == x # EkAbsent
      imported(k1) == EckeySetPublicResult(k1, given, A, EckeyPublicOf(k1.priv), validation, regenerate)
      kept(priv) ==
        IF given /\ validation # "minimal" /\ (~EckeyPrivateAllowed(x, validation) \/ priv = 0)
        THEN EkFailed(key, "INVALID_ARGUMENT")
        ELSE imported(IF given THEN [key EXCEPT !.priv = priv, !.has = TRUE] ELSE key)
  IN kept(EckeyToDivH(x))

EckeySetValue ==
  \E x \in {EkAbsent} \cup EkPrivates[ekCurve], A \in {EkNoPoint} \cup EkPublics[ekCurve],
     validation \in {"none", "minimal", "range", "order"}, regenerate \in BOOLEAN :
    /\ regenerate => x # EkAbsent /\ A # EkNoPoint
    /\ x # EkAbsent \/ A # EkNoPoint
    /\ \E r \in {EckeySetValueResult(ekKey, x, A, validation, regenerate)} :
         ekKey' = r.key /\ ekStatus' = r.status
    /\ UNCHANGED ekCurve
-----------------------------------------------------------------------------
(* SymCryptEckeySetRandom: a random number with the high bits of the       *)
(* format put into it, drawn again while it exceeds the order.             *)
RandomScalar(x) ==
  LET pos == IF ekCurve.format = "timesh" THEN ekCurve.hbPos - ekCurve.coFactorPower ELSE ekCurve.hbPos
      y == IF ekCurve.format = "canonical" THEN (x * EkFactor) % ekCurve.gOrd ELSE x
  IN IF ekCurve.hbBits = 0 THEN y
     ELSE y + (ekCurve.hbVal - HighBits(y, pos)) * 2 ^ pos

Draws == {RandomScalar(x) : x \in 1 .. ekCurve.gOrd - 1}

FromRandomScalar(y) ==
  IF ekCurve.format = "canonical" THEN (y * InvMod(EkFactor % ekCurve.gOrd, ekCurve.gOrd)) % ekCurve.gOrd
  ELSE y % ekCurve.gOrd

EckeySetRandomResults(key, validation) ==
  LET keyed(priv) == [key EXCEPT !.priv = priv, !.pub = EckeyPublicOf(priv)]
      tested(k) == IF validation = "order" /\ ~EckeyPublicKeyValid(k.pub, validation)
                   THEN EkFailed(k, "INVALID_ARGUMENT")
                   ELSE EkSucceeded([k EXCEPT !.has = TRUE], "pair", validation = "order")
  IN {tested(keyed(FromRandomScalar(y))) : y \in {d \in Draws : d < ekCurve.gOrd}}
     \cup (IF \E d \in Draws : d >= ekCurve.gOrd THEN {EkFailed(key, "INVALID_ARGUMENT")} ELSE {})

EckeySetRandom ==
  /\ \E validation \in {"none", "order"} : \E r \in EckeySetRandomResults(ekKey, validation) :
       ekKey' = r.key /\ ekStatus' = r.status
  /\ UNCHANGED ekCurve

EkNext == EckeySetValue \/ EckeySetRandom

EkSpec == EkInit /\ [][EkNext]_ekVars
-----------------------------------------------------------------------------
(* SymCryptEcDsaTruncateHash: the leftmost bytes, then the leftmost bits   *)
(* unless the caller wants whole bytes.                                    *)
EcDsaTruncateHash(h, whole) ==
  LET bits == NumberBits(ekCurve.gOrd)
      cb == IF h.cb * ByteBits > bits THEN BytesOf(bits) ELSE h.cb
      v == h.v \div 2 ^ ((h.cb - cb) * ByteBits)
      excess == cb * ByteBits - bits
  IN (IF ~whole /\ excess > 0 THEN v \div 2 ^ excess ELSE v) % ekCurve.gOrd

(* One round of SymCryptEcDsaSignEx, for a nonce drawn or given.           *)
EcDsaRound(k, h, whole, nonce) ==
  LET n == ekCurve.gOrd
      C == EcpointGetValue(ekCurve, EcpointScalarMul(ekCurve, nonce, Generator, FALSE))[1] % n
      s == (k.priv * EkFactor) % n
  IN <<C, (InvMod(nonce, n) * (EcDsaTruncateHash(h, whole) + C * s)) % n>>

EcDsaSignatures(k, h, whole) ==
  {sig \in {EcDsaRound(k, h, whole, nonce) : nonce \in 1 .. ekCurve.gOrd - 1} : sig[1] # 0 /\ sig[2] # 0}

(* SymCryptEcDsaVerify                                                     *)
EcDsaVerify(pub, h, whole, sig) ==
  LET n == ekCurve.gOrd
      w == InvMod(sig[2], n)
  IN /\ sig[1] \in 1 .. n - 1 /\ sig[2] \in 1 .. n - 1
     /\ \E Q \in {MultiScalarMul(ekCurve, <<(EcDsaTruncateHash(h, whole) * w) % n, (sig[1] * w) % n>>,
                                  <<Generator, pub>>, FALSE)} :
          ~EcpointIsZero(ekCurve, Q) /\ EcpointGetValue(ekCurve, Q)[1] % n = sig[1]

(* SymCryptEcDhSecretAgreement                                             *)
EcDhSecretAgreement(k, pub) ==
  LET secretOf(Q) == IF EcpointIsZero(ekCurve, Q) THEN [status |-> "INVALID_BLOB", secret |-> 0]
                     ELSE [status |-> "NO_ERROR", secret |-> EcpointGetValue(ekCurve, Q)[1]]
  IN IF EcpointIsZero(ekCurve, pub) THEN [status |-> "INVALID_ARGUMENT", secret |-> 0]
     ELSE secretOf(EcpointScalarMul(ekCurve, k.priv, pub, TRUE))
-----------------------------------------------------------------------------
EkPair == ekKey.made = "pair"

(* The affine public key, and the multiple of the generator it should be.  *)
EkPublic == EcpointGetValue(ekCurve, ekKey.pub)
EkExact(priv) == EcRefMul(ekCurve, (priv * EkFactor) % ekCurve.gOrd, ekCurve.g)

(* A sound pair agrees with every other one on the x coordinate of the     *)
(* product, with the cofactor in it once for each; its signatures, made    *)
(* with any nonce and for hashes of any length, verify on the curves that  *)
(* have ECDSA.                                                             *)
EkWorksTogether ==
  EkPair =>
    /\ \A other \in 1 .. ekCurve.gOrd - 1 :
         LET peer == [EckeyCreate EXCEPT !.priv = other, !.pub = EckeyPublicOf(other)]
             agreed == [status |-> "NO_ERROR",
                        secret |-> EcRefMul(ekCurve, (ekKey.priv * EkFactor * other * EkFactor) % ekCurve.gOrd,
                                            ekCurve.g)[1]]
         IN EcDhSecretAgreement(ekKey, peer.pub) = agreed /\ EcDhSecretAgreement(peer, ekKey.pub) = agreed
    /\ (ekCurve.type # "mont") =>
         \A h \in EkHashes, whole \in BOOLEAN : \A sig \in EcDsaSignatures(ekKey, h, whole) :
           EcDsaVerify(ekKey.pub, h, whole, sig)

(* A pair that was generated, or imported with its halves related, is one, *)
(* whatever the object went through before: the private key is in its      *)
(* range and the public key is its multiple of the generator.  Exported in *)
(* the format of the curve it fits its size, and a fresh key that imports  *)
(* it with every check on is the same pair.  A public key whose order was  *)
(* validated has that order, also on curves with a cofactor (inc/          *)
(* symcrypt.h of the flag: "Verify that GOrd*(Public key) == O").  And the *)
(* pair works with others (EkWorksTogether).                               *)
EkPairIsSound ==
  /\ EkPair =>
       LET x == EckeyFromDivH(ekKey.priv)
       IN /\ ekKey.has /\ ekKey.priv \in 1 .. ekCurve.gOrd - 1
          /\ EkPublic = EkExact(ekKey.priv)
          /\ x < 2 ^ (ekCurve.cb * ByteBits)
          /\ \A r \in {EckeySetValueResult(EckeyCreate, x, EkPublic, "order", TRUE)} :
               r.status = "NO_ERROR" /\ r.key.priv = ekKey.priv
  /\ ekKey.order => EcRefMul(ekCurve, ekCurve.gOrd, EkPublic) = RefZero(ekCurve)
  /\ EkWorksTogether
=============================================================================
