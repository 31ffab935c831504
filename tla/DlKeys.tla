------------------------------- MODULE DlKeys --------------------------------
(***************************************************************************)
(* Keys over a discrete logarithm group (dlkey.c), and what is done with   *)
(* them: DSA signatures (dsa.c) and Diffie-Hellman (dh.c).  The group is   *)
(* set up before its keys are made and stays as it is.  Numbers are        *)
(* numbers, but an imported one comes with its size in bytes.              *)
(***************************************************************************)
EXTENDS ModArith, Sequences, FiniteSets

CONSTANTS
  DlGroups,        \* the groups: [p, q, g, bitsP, bitsQ, hasQ, safe, minBits, defaultBits]
  DlPrivates,      \* private keys to import: [v |-> value, cb |-> bytes]
  DlPublics,       \* public keys to import
  DlHashes,        \* hash values to sign: [v |-> value, cb |-> bytes]
  DlAnyLength      \* SetPrivateKeyLength is called for every group, not only
                   \* for the named safe-prime groups that use the length

ASSUME DlAssumption ==
  /\ DlAnyLength \in BOOLEAN
  /\ \A h \in DlGroups : h.bitsP = NumberBits(h.p) /\ h.bitsQ = NumberBits(h.q)
  /\ \A h \in DlGroups : h.hasQ => (h.p - 1) % h.q = 0 /\ PowMod(h.g, h.q, h.p) = 1

VARIABLES
  dlGroup,   \* the group
  dlKey,     \* the key object
  dlStatus   \* what the last call returned

dlVars == <<dlGroup, dlKey, dlStatus>>

Absent == [v |-> 0, cb |-> 0]     \* a NULL pointer and size 0
NoKey == -1                       \* piPrivateKey == NULL, pePublicKey not set

(* The validation flags; no flag and minimal validation are the same here. *)
Validations == {"minimal", "range", "order"}
Checked(validation) == validation \in {"range", "order"}

nBitsOfP == dlGroup.bitsP
nBitsOfQ == dlGroup.bitsQ
cbPrimeP == BytesOf(nBitsOfP)
cbPrimeQ == BytesOf(nBitsOfQ)

(* made is not in the code.  It says how the last call that had the key    *)
(* for its destination left it: "no" if it failed or changed the length,   *)
(* "plain" if it did not relate the two halves, "pair" if it did, and did  *)
(* what the code can do to keep the private half in its range.             *)
DlkeyCreate(g) ==
  [has |-> FALSE, modQ |-> FALSE, nBitsPriv |-> g.defaultBits,
   priv |-> NoKey, pub |-> NoKey, made |-> "no"]

DlInit ==
  /\ dlGroup \in DlGroups
  /\ dlKey = DlkeyCreate(dlGroup)
  /\ dlStatus = "NO_ERROR"

-----------------------------------------------------------------------------
DlkeySetPrivateKeyLength ==
  /\ DlAnyLength \/ dlGroup.safe
  /\ \E n \in 0 .. nBitsOfP :
       IF n > nBitsOfQ \/ n < dlGroup.minBits
       THEN /\ dlStatus' = "INVALID_ARGUMENT"
            /\ UNCHANGED dlKey
       ELSE /\ dlStatus' = "NO_ERROR"
            /\ dlKey' = [dlKey EXCEPT !.nBitsPriv = n,
                                      !.made = IF dlGroup.safe THEN "no" ELSE @]
  /\ UNCHANGED dlGroup

DlkeySizeofPrivateKey(k) ==
  IF ~k.modQ \/ ~dlGroup.hasQ THEN cbPrimeP
  ELSE IF k.nBitsPriv # nBitsOfQ THEN BytesOf(k.nBitsPriv) ELSE cbPrimeQ

(* SymCryptDlkeyPerformPublicKeyValidation.                                *)
PublicKeyValid(pub, validation) ==
  /\ pub \notin {0, dlGroup.p - 1, 1}
  /\ (validation = "order") => dlGroup.hasQ /\ ModExp(pub, dlGroup.q, nBitsOfQ, dlGroup.p) = 1
-----------------------------------------------------------------------------
(* A key object after a call, and what the call returned.                  *)
Failed(k, status) == [key |-> [k EXCEPT !.made = "no"], status |-> status]
Succeeded(k, how) == [key |-> [k EXCEPT !.made = how], status |-> "NO_ERROR"]

(* The private keys that SymCryptDlkeyGenerate can draw, and how many bits *)
(* of them it uses.                                                        *)
Short(k) == dlGroup.safe /\ k.nBitsPriv # nBitsOfQ

GeneratedPrivate(k) ==
  IF ~k.modQ THEN 1 .. dlGroup.p - 2
  ELSE IF Short(k) THEN 1 .. 2 ^ k.nBitsPriv - 1 ELSE 1 .. dlGroup.q - 1

GeneratedBits(k) ==
  IF ~k.modQ THEN nBitsOfP ELSE IF Short(k) THEN k.nBitsPriv ELSE nBitsOfQ

(* SymCryptDlkeyGenerate.  fPrivateModQ is set before the call can still   *)
(* fail.                                                                   *)
DlkeyGenerateResults(key, modP, validation, alloc) ==
  LET k == [key EXCEPT !.modQ = ~modP /\ dlGroup.hasQ]
      keyed(x) == [k EXCEPT !.priv = x,
                            !.pub = ModExp(dlGroup.g, x, GeneratedBits(k), dlGroup.p)]
  IN IF validation = "range" THEN {[key |-> key, status |-> "INVALID_ARGUMENT"]}
     ELSE IF ~k.modQ /\ validation = "order" THEN {Failed(k, "INVALID_ARGUMENT")}
     ELSE IF ~alloc THEN {Failed(k, "MEMORY_ALLOCATION_FAILURE")}
     ELSE {IF validation = "order" /\ ~PublicKeyValid(keyed(x).pub, validation)
           THEN Failed(keyed(x), "INVALID_ARGUMENT")
           ELSE Succeeded([keyed(x) EXCEPT !.has = TRUE], "pair") : x \in GeneratedPrivate(k)}

(* Mutant: the length of the private key is not looked at.                 *)
PrivateInRangeAnyLength(x, bits) == dlGroup.hasQ /\ x # 0 /\ x < dlGroup.q

(* The range validation of an imported private key.                        *)
PrivateInRange(x, bits) ==
  /\ dlGroup.hasQ
  /\ x # 0
  /\ IF bits < nBitsOfQ THEN NumberBits(x) <= bits ELSE x < dlGroup.q

(* SymCryptDlkeySetValue.  A private key of as many bytes as Q may have is *)
(* taken modulo Q, unless P has no more bytes than Q.                      *)
ImportedModQ(cb) ==
  /\ dlGroup.hasQ
  /\ cb < cbPrimeQ \/ (cb = cbPrimeQ /\ cbPrimeQ < cbPrimeP)

ImportedBits(k) ==
  IF ~k.modQ THEN nBitsOfP ELSE IF dlGroup.safe THEN k.nBitsPriv ELSE nBitsOfQ

DlkeyImportPrivate(key, priv) ==
  LET modQ == ImportedModQ(priv.cb)
      digits == DigitsOf(IF modQ THEN nBitsOfQ ELSE nBitsOfP)
  IN [key EXCEPT !.modQ = modQ, !.priv = priv.v % 2 ^ (digits * DigitBits)]

DlkeySetValueResult(key, priv, pub, validation, regenerate) ==
  LET k1 == IF priv = Absent THEN key ELSE DlkeyImportPrivate(key, priv)
      bits == ImportedBits(k1)
      k2 == IF priv = Absent THEN k1 ELSE [k1 EXCEPT !.has = TRUE]
      k3 == IF pub = Absent THEN k2 ELSE [k2 EXCEPT !.pub = pub.v % dlGroup.p]
      computed == ModExp(dlGroup.g, k3.priv, bits, dlGroup.p)
      k4 == [k3 EXCEPT !.pub = computed]
      how == IF Checked(validation) /\ priv # Absent /\ (pub = Absent \/ regenerate)
             THEN "pair" ELSE "plain"
  IN IF priv # Absent /\ k1.priv # priv.v THEN Failed(k1, "BUFFER_TOO_SMALL")
     ELSE IF priv # Absent /\ Checked(validation) /\ ~PrivateInRange(k1.priv, bits)
     THEN Failed(k1, "INVALID_ARGUMENT")
     ELSE IF pub = Absent
     THEN IF Checked(validation) /\ ~PublicKeyValid(computed, validation)
          THEN Failed(k4, "INVALID_ARGUMENT") ELSE Succeeded(k4, how)
     ELSE IF Checked(validation) /\ ~PublicKeyValid(k3.pub, validation)
     THEN Failed(k3, "INVALID_ARGUMENT")
     ELSE IF priv # Absent /\ regenerate /\ k3.pub # computed
     THEN Failed(k3, "AUTHENTICATION_FAILURE")
     ELSE Succeeded(k3, how)
-----------------------------------------------------------------------------
(* SymCryptDsaTruncateHash: shifts by the size of the value, not of the    *)
(* buffer.                                                                 *)
DsaTruncateHash(h) ==
  LET excess == NumberBits(h.v) - nBitsOfQ
  IN (IF excess > 0 THEN h.v \div 2 ^ excess ELSE h.v) % dlGroup.q

DsaUsable(k) == dlGroup.hasQ /\ ~dlGroup.safe /\ k.has /\ k.modQ

(* One round of SymCryptDsaSignEx: the signature for a nonce.              *)
DsaRound(k, h, nonce) ==
  LET r == ModExp(dlGroup.g, nonce, nBitsOfQ, dlGroup.p) % dlGroup.q
  IN <<r, (InvMod(nonce, dlGroup.q) * (k.priv * r + DsaTruncateHash(h))) % dlGroup.q>>

(* What the loop of SymCryptDsaSignEx can end with.                        *)
DsaSignatures(k, h) ==
  {sig \in {DsaRound(k, h, nonce) : nonce \in 1 .. dlGroup.q - 1} : sig[1] # 0 /\ sig[2] # 0}

DsaVerify(k, h, sig) ==
  LET w == InvMod(sig[2], dlGroup.q)
      u1 == (DsaTruncateHash(h) * w) % dlGroup.q
      u2 == (sig[1] * w) % dlGroup.q
      v == (ModExp(dlGroup.g, u1, nBitsOfQ, dlGroup.p) * ModExp(k.pub, u2, nBitsOfQ, dlGroup.p))
             % dlGroup.p
  IN IF /\ dlGroup.hasQ /\ ~dlGroup.safe
        /\ sig[1] \in 1 .. dlGroup.q - 1 /\ sig[2] \in 1 .. dlGroup.q - 1
        /\ v % dlGroup.q = sig[1]
     THEN "NO_ERROR" ELSE "SIGNATURE_VERIFICATION_FAILURE"

(* Mutant: nBitsPriv whatever the key is modulo.                           *)
DhExponentBitsAlwaysShort(k) == k.nBitsPriv

DhExponentBits(k) == IF k.modQ THEN k.nBitsPriv ELSE nBitsOfP

(* SymCryptDhSecretAgreement, keys of the one group.                       *)
DhSecret(k, other) == ModExp(other.pub, k.priv, DhExponentBits(k), dlGroup.p)

DhSecretAgreement(k, other) ==
  IF ~k.has THEN [status |-> "INVALID_ARGUMENT", secret |-> 0]
  ELSE IF DhSecret(k, other) = 0 THEN [status |-> "INVALID_BLOB", secret |-> 0]
  ELSE [status |-> "NO_ERROR", secret |-> DhSecret(k, other)]
-----------------------------------------------------------------------------
(* The tests that a key's flags ask for.  The test of a generated key uses *)
(* that key; a failure is fatal.                                           *)
DsaTestPasses(k) ==
  /\ DsaUsable(k)
  /\ \A sig \in DsaSignatures(k, [v |-> 1, cb |-> 1]) :
       /\ BytesOf(k.nBitsPriv) >= BytesOf(NumberBits(sig[1]))
       /\ BytesOf(k.nBitsPriv) >= BytesOf(NumberBits(sig[2]))
       /\ DsaVerify(k, [v |-> 1, cb |-> 1], sig) = "NO_ERROR"

DhTestPasses(k) ==
  \A r \in DlkeyGenerateResults(DlkeyCreate(dlGroup), FALSE, "minimal", TRUE) :
    LET mine == DhSecretAgreement(k, r.key)
        theirs == DhSecretAgreement(r.key, k)
    IN mine = theirs /\ mine.status = "NO_ERROR"

TestPasses(k, test) == IF test = "dsa" THEN DsaTestPasses(k) ELSE DhTestPasses(k)

(* The callers ask for the test of DSA only in groups that have DSA.       *)
Tests == {{}, {"dh"}} \cup (IF dlGroup.hasQ /\ ~dlGroup.safe THEN {{"dsa"}} ELSE {})

DlkeyGenerate ==
  /\ \E modP \in BOOLEAN, validation \in Validations, alloc \in BOOLEAN, tests \in Tests :
       \E r \in DlkeyGenerateResults(dlKey, modP, validation, alloc) :
      /\ ("dsa" \in tests) => ~modP
      /\ dlKey' = r.key
      /\ dlStatus' = (IF r.status = "NO_ERROR" /\ \E t \in tests : ~TestPasses(r.key, t)
                            THEN "FATAL" ELSE r.status)
      /\ UNCHANGED dlGroup

DlkeySetValue ==
  \E priv \in DlPrivates \cup {Absent}, pub \in DlPublics \cup {Absent},
     validation \in Validations, regenerate \in BOOLEAN :
    /\ regenerate => priv # Absent /\ pub # Absent
    /\ pub.cb * ByteBits <= DigitsOf(nBitsOfP) * DigitBits
    /\ IF priv = Absent /\ pub = Absent
       THEN /\ dlStatus' = "INVALID_ARGUMENT"
            /\ UNCHANGED dlKey
       ELSE LET r == DlkeySetValueResult(dlKey, priv, pub, validation, regenerate)
            IN /\ dlKey' = r.key
               /\ dlStatus' = r.status
    /\ UNCHANGED dlGroup

DlNext == DlkeySetPrivateKeyLength \/ DlkeyGenerate \/ DlkeySetValue

DlSpec == DlInit /\ [][DlNext]_dlVars
-----------------------------------------------------------------------------
Pair(k) == k.made = "pair"

(* The keys that another party can generate in the group.                  *)
Peers ==
  {r.key : r \in UNION {DlkeyGenerateResults(DlkeyCreate(dlGroup), modP, "minimal", TRUE) : modP \in BOOLEAN}}

(* A key pair that was generated, or imported with its range validated and *)
(* its halves related, is a pair: whatever calls, failed ones included,    *)
(* the object went through before, the private key is in its range, has    *)
(* the length the key is used with, and the public key is its power.  The  *)
(* private key fits in the size that SymCryptDlkeySizeofPrivateKey gives,  *)
(* and a fresh key of the same length that imports the export with every   *)
(* check on is the same pair again.                                        *)
DlPairIsSound ==
  LET cb == DlkeySizeofPrivateKey(dlKey)
      fresh == [DlkeyCreate(dlGroup) EXCEPT !.nBitsPriv = dlKey.nBitsPriv]
      r == DlkeySetValueResult(fresh, [v |-> dlKey.priv, cb |-> cb],
             [v |-> dlKey.pub, cb |-> cbPrimeP],
             IF dlKey.modQ THEN "order" ELSE "minimal", TRUE)
  IN Pair(dlKey) =>
       /\ dlKey.has
       /\ dlKey.priv \in 1 .. (IF dlKey.modQ THEN dlGroup.q - 1 ELSE dlGroup.p - 2)
       /\ (dlGroup.safe /\ dlKey.modQ) => dlKey.priv < 2 ^ dlKey.nBitsPriv
       /\ dlKey.pub = PowMod(dlGroup.g, dlKey.priv, dlGroup.p)
       /\ BytesOf(NumberBits(dlKey.priv)) <= cb
       /\ r.status = "NO_ERROR" /\ r.key.priv = dlKey.priv /\ r.key.pub = dlKey.pub

(* Such a pair agrees on a secret with every other party, and it is the    *)
(* power of the generator that Diffie-Hellman has, also when one private   *)
(* key is short or modulo P and the other is not.  Every signature it      *)
(* makes, with any nonce, is accepted by the holders of its public key.    *)
(* So no pairwise test of a generated key ends the process.                *)
DlPairsWorkTogether ==
  /\ Pair(dlKey) =>
       \A peer \in Peers :
         LET agreed == [status |-> "NO_ERROR",
                        secret |-> PowMod(dlGroup.g, dlKey.priv * peer.priv, dlGroup.p)]
         IN DhSecretAgreement(dlKey, peer) = agreed /\ DhSecretAgreement(peer, dlKey) = agreed
  /\ (Pair(dlKey) /\ DsaUsable(dlKey)) =>
       \A h \in DlHashes : \A sig \in DsaSignatures(dlKey, h) : DsaVerify(dlKey, h, sig) = "NO_ERROR"
  /\ dlStatus # "FATAL"

(* inc/symcrypt.h of SymCryptDlkeySetPrivateKeyLength: the length "is only *)
(* used for when the dlkey is a named safe-prime dlgroup, otherwise the    *)
(* value is ignored".                                                      *)
DlLengthIgnored ==
  (Pair(dlKey) /\ ~dlGroup.safe) =>
    \A peer \in Peers :
      DhSecretAgreement(dlKey, peer).secret = PowMod(peer.pub, dlKey.priv, dlGroup.p)
=============================================================================
