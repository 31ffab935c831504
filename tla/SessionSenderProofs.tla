------------------------- MODULE SessionSenderProofs -------------------------
(***************************************************************************)
(* For every number of threads below the head room above the maximum       *)
(* message number, SymCryptSessionGcmEncrypt never uses a nonce twice,     *)
(* leaves no gap in the message numbers and never recovers from            *)
(* exhaustion.  The argument is the inductive invariant SenderInv: the     *)
(* counter equals the numbers issued plus one for every thread that is     *)
(* about to undo its increment, so with fewer such threads than head room  *)
(* the counter cannot wrap.                                                *)
(***************************************************************************)
EXTENDS SessionSender, FiniteSetTheorems, TLAPS

(* A set of threads has a cardinality, bounded by the number of threads.   *)
LEMMA ThreadSetCardinality ==
  ASSUME NEW S \in SUBSET Callers
  PROVE  /\ IsFiniteSet(S)
         /\ Cardinality(S) \in Nat
         /\ Cardinality(S) <= Cardinality(Callers)
         /\ Cardinality(S) = 0 <=> S = {}
         /\ S # Callers => Cardinality(S) < Cardinality(Callers)
         /\ Cardinality(Callers) \in Nat
<1>1. IsFiniteSet(S) /\ Cardinality(S) <= Cardinality(Callers)
       /\ (Cardinality(Callers) = Cardinality(S) => Callers = S)
  BY FS_Subset, SenderAssumption
<1>2. Cardinality(S) \in Nat /\ Cardinality(Callers) \in Nat
  BY <1>1, FS_CardinalityType, SenderAssumption
<1>3. Cardinality(S) = 0 <=> S = {}
  BY <1>1, FS_EmptySet
<1> QED BY <1>1, <1>2, <1>3

(* A thread entering the error path adds one to the overshoot.             *)
LEMMA OvershotGrows ==
  ASSUME TypeOK, NEW t \in Callers, phase[t] # "undo", phase' = [phase EXCEPT ![t] = "undo"]
  PROVE  /\ Cardinality(Overshot') = Cardinality(Overshot) + 1
         /\ Overshot # Callers
<1>1. Overshot' = Overshot \cup {t} /\ t \notin Overshot
  BY DEF Overshot, TypeOK
<1>2. IsFiniteSet(Overshot)
  BY ThreadSetCardinality DEF Overshot
<1> QED BY <1>1, <1>2, FS_AddElement

(* A thread leaving the error path takes one away.                         *)
LEMMA OvershotShrinks ==
  ASSUME TypeOK, NEW t \in Callers, phase[t] = "undo", phase' = [phase EXCEPT ![t] = "idle"]
  PROVE  /\ Cardinality(Overshot') = Cardinality(Overshot) - 1
         /\ Overshot # {}
<1>1. Overshot' = Overshot \ {t} /\ t \in Overshot
  BY DEF Overshot, TypeOK
<1>2. IsFiniteSet(Overshot)
  BY ThreadSetCardinality DEF Overshot
<1> QED BY <1>1, <1>2, FS_RemoveElement

(* Any other move of a thread leaves it alone.                             *)
LEMMA OvershotSame ==
  ASSUME TypeOK, NEW t \in Callers, NEW q, phase[t] # "undo", q # "undo", phase' = [phase EXCEPT ![t] = q]
  PROVE  Overshot' = Overshot
BY DEF Overshot, TypeOK

(* The raw structure satisfies the invariant.                              *)
LEMMA SenderInitially == Init => SenderInv
<1> SUFFICES ASSUME Init PROVE SenderInv
  OBVIOUS
<1>1. Overshot = {} /\ Cardinality(Overshot) = 0 /\ Issued = 0
  BY FS_EmptySet DEF Init, Overshot, Issued
<1>2. TypeOK
  <2>1. 0 \in UInt64
    BY SenderAssumption DEF UInt64
  <2>2. live \in BOOLEAN /\ exhausted \in BOOLEAN
    BY DEF Init
  <2>3. uses \in [Nonce -> Nat]
    BY DEF Init
  <2> QED BY <2>1, <2>2, <2>3 DEF Init, TypeOK, Results
<1>3. CounterLaw
  BY <1>1, SenderAssumption DEF Init, CounterLaw, Idle
<1>4. HeldNumbersFresh /\ UsedNumbersIssued /\ NonceUnique
  BY <1>1 DEF Init, HeldNumbersFresh, UsedNumbersIssued, NonceUnique, Nonce
<1> QED BY <1>2, <1>3, <1>4 DEF SenderInv

(* Every step keeps it, when there are fewer threads than head room.       *)
LEMMA SenderStep ==
  ASSUME Cardinality(Callers) < Slack, SenderInv, [Next]_vars
  PROVE  SenderInv'
<1> USE DEF SenderInv
<1>a. /\ Cardinality(Overshot) \in Nat /\ Cardinality(Overshot) <= Cardinality(Callers)
      /\ Cardinality(Callers) \in Nat /\ (Cardinality(Overshot) = 0 <=> Overshot = {})
      /\ (Overshot # Callers => Cardinality(Overshot) < Cardinality(Callers))
  BY ThreadSetCardinality DEF Overshot
<1>b. messageNumber \in Int /\ Modulus \in Nat /\ MaxMessageNumber \in Nat /\ MaxMessageNumber < Modulus
  BY SenderAssumption DEF TypeOK, UInt64
<1>1. ASSUME NEW id \in SenderIds, SenderInit(id)
      PROVE  SenderInv'
  <2>1. Overshot' = {} /\ Issued' = 0
    <3>1. phase' = phase /\ messageNumber' = 0 /\ \A t \in Callers : phase[t] = "idle"
      BY <1>1 DEF SenderInit, CounterLaw, Idle
    <3>2. Overshot' = {}
      BY <3>1 DEF Overshot
    <3> QED BY <3>1, <3>2, FS_EmptySet DEF Issued
  <2>2. TypeOK'
    <3>1. live' \in BOOLEAN /\ exhausted' \in BOOLEAN
      BY <1>1 DEF SenderInit
    <3>2. 0 \in UInt64
      BY SenderAssumption DEF UInt64
    <3> QED BY <1>1, <3>1, <3>2 DEF SenderInit, TypeOK
  <2>3. CounterLaw'
    BY <1>1, <1>b, <2>1 DEF SenderInit, CounterLaw, Idle
  <2>4. HeldNumbersFresh'
    BY <1>1 DEF SenderInit, HeldNumbersFresh, CounterLaw, Idle
  <2>5. UsedNumbersIssued'
    BY <1>1, <2>1 DEF SenderInit, UsedNumbersIssued
  <2>6. NonceUnique'
    BY <1>1 DEF SenderInit, NonceUnique
  <2> QED BY <2>2, <2>3, <2>4, <2>5, <2>6
<1>2. ASSUME NEW t \in Callers, TakeNumber(t)
      PROVE  SenderInv'
  <2> DEFINE n == messageNumber + 1
  <2>1. IncrementedNumber = n /\ n \in UInt64 /\ n \in Nat
    <3>1. Overshot # Callers
      BY <1>2 DEF TakeNumber, Overshot
    <3>2. n < Modulus
      BY <3>1, <1>a, <1>b DEF CounterLaw, Issued, Slack
    <3> QED BY <3>2, <1>b DEF IncrementedNumber, UInt64, TypeOK
  <2>2. TypeOK'
    <3>1. live' \in BOOLEAN /\ exhausted' \in BOOLEAN
      BY <1>2 DEF TakeNumber, TypeOK, AboveMaximum
    <3> QED BY <1>2, <2>1, <3>1 DEF TakeNumber, TypeOK, Results
  <2>3. CASE n > MaxMessageNumber
    <3>1. phase' = [phase EXCEPT ![t] = "undo"] /\ phase[t] = "idle"
      BY <1>2, <2>1, <2>3 DEF TakeNumber, AboveMaximum
    <3>2. Issued' = Issued /\ Issued = MaxMessageNumber
      <4>1. Cardinality(Overshot') = Cardinality(Overshot) + 1
        BY <3>1, OvershotGrows
      <4>2. messageNumber' = messageNumber + 1
        BY <1>2, <2>1 DEF TakeNumber
      <4>3. Issued = MaxMessageNumber
        BY <2>3, <1>a, <1>b DEF Issued, CounterLaw
      <4> QED BY <4>1, <4>2, <4>3, <1>a, <1>b DEF Issued
    <3>3. CounterLaw'
      BY <1>2, <3>1, <3>2 DEF TakeNumber, CounterLaw, Idle
    <3>4. HeldNumbersFresh'
      BY <1>2, <3>1, <3>2 DEF TakeNumber, HeldNumbersFresh, TypeOK
    <3>5. UsedNumbersIssued'
      BY <1>2, <3>1, <3>2 DEF TakeNumber, UsedNumbersIssued, TypeOK
    <3>6. NonceUnique'
      BY <1>2 DEF TakeNumber, NonceUnique
    <3> QED BY <2>2, <3>3, <3>4, <3>5, <3>6
  <2>4. CASE ~(n > MaxMessageNumber)
    <3>1. phase' = [phase EXCEPT ![t] = "encrypt"] /\ phase[t] = "idle"
      BY <1>2, <2>1, <2>4 DEF TakeNumber, AboveMaximum
    <3>2. Overshot' = Overshot /\ Overshot = {}
      <4>1. Overshot' = Overshot
        BY <3>1, OvershotSame
      <4> QED BY <4>1, <2>4, <1>a, <1>b DEF Issued, CounterLaw
    <3>3. Issued' = n /\ Issued = messageNumber
      BY <1>2, <2>1, <3>2, <1>a, <1>b DEF TakeNumber, Issued
    <3>4. CounterLaw'
      <4>1. ~(live /\ exhausted)
        BY <3>3, <2>4, <1>b DEF CounterLaw
      <4>2. live' /\ ~exhausted'
        BY <1>2, <2>1, <2>4, <4>1 DEF TakeNumber, AboveMaximum
      <4> QED BY <1>2, <2>1, <2>4, <3>1, <3>2, <3>3, <4>2, <1>b DEF TakeNumber, CounterLaw
    <3>5. uses[<<senderId, n>>] = 0
      <4>1. ~(uses[<<senderId, n>>] > 0)
        BY <1>2, <2>1, <3>3, <1>b DEF TakeNumber, UsedNumbersIssued
      <4>2. uses[<<senderId, n>>] \in Nat
        BY <2>1 DEF TypeOK, Nonce
      <4> QED BY <4>1, <4>2
    <3>6. HeldNumbersFresh'
      <4>1. num' = [num EXCEPT ![t] = n] /\ UNCHANGED <<uses, senderId>>
        BY <1>2, <2>1 DEF TakeNumber
      <4>2. n \in 1 .. Issued'
        BY <3>3, <2>1, <1>b DEF TypeOK, UInt64
      <4>3. \A u \in Callers : phase[u] = "encrypt" => num[u] \in 1 .. Issued' /\ num[u] # n
        <5> SUFFICES ASSUME NEW u \in Callers, phase[u] = "encrypt"
                     PROVE  num[u] \in 1 .. Issued' /\ num[u] # n
          OBVIOUS
        <5>1. num[u] \in 1 .. messageNumber
          BY <3>3 DEF HeldNumbersFresh
        <5>2. Issued' = messageNumber + 1
          BY <3>3
        <5> QED BY <5>1, <5>2, <1>b
      <4> QED BY <3>1, <3>5, <4>1, <4>2, <4>3 DEF HeldNumbersFresh, TypeOK
    <3>7. UsedNumbersIssued'
      BY <1>2, <2>1, <3>1, <3>3, <1>b DEF TakeNumber, UsedNumbersIssued, TypeOK, UInt64
    <3>8. NonceUnique'
      BY <1>2 DEF TakeNumber, NonceUnique
    <3> QED BY <2>2, <3>4, <3>6, <3>7, <3>8
  <2> QED BY <2>3, <2>4
<1>3. ASSUME NEW t \in Callers, UndoNumber(t)
      PROVE  SenderInv'
  <2>1. messageNumber >= 1 /\ (messageNumber - 1) % Modulus = messageNumber - 1
    <3>1. messageNumber >= 1
      <4>1. Overshot # {}
        BY <1>3, OvershotShrinks DEF UndoNumber
      <4> QED BY <4>1, <1>a, <1>b DEF CounterLaw, Issued
    <3> QED BY <3>1, <1>b DEF TypeOK, UInt64
  <2>2. TypeOK'
    <3>1. live' \in BOOLEAN /\ exhausted' \in BOOLEAN
      BY <1>3 DEF UndoNumber, TypeOK
    <3> QED BY <1>3, <2>1, <3>1, <1>b DEF UndoNumber, TypeOK, Results, UInt64
  <2>3. Issued' = Issued /\ Overshot # {}
    <3>1. Cardinality(Overshot') = Cardinality(Overshot) - 1 /\ Overshot # {}
      BY <1>3, OvershotShrinks DEF UndoNumber
    <3>2. messageNumber' = messageNumber - 1
      BY <1>3, <2>1 DEF UndoNumber
    <3> QED BY <3>1, <3>2, <1>a, <1>b DEF Issued
  <2>4. CounterLaw'
    BY <1>3, <2>3 DEF UndoNumber, CounterLaw, Idle
  <2>5. HeldNumbersFresh'
    BY <1>3, <2>3 DEF UndoNumber, HeldNumbersFresh, TypeOK
  <2>6. UsedNumbersIssued'
    BY <1>3, <2>3 DEF UndoNumber, UsedNumbersIssued, TypeOK
  <2>7. NonceUnique'
    BY <1>3 DEF UndoNumber, NonceUnique
  <2> QED BY <2>2, <2>4, <2>5, <2>6, <2>7
<1>4. ASSUME NEW t \in Callers, EncryptWithNonce(t)
      PROVE  SenderInv'
  <2>1. Overshot' = Overshot /\ Issued' = Issued
    BY <1>4, OvershotSame DEF EncryptWithNonce, Issued
  <2>2. live /\ live' /\ phase[t] = "encrypt"
    BY <1>4 DEF EncryptWithNonce, CounterLaw, Idle
  <2>3. <<senderId, num[t]>> \in Nonce /\ uses[<<senderId, num[t]>>] = 0
    BY <2>2 DEF HeldNumbersFresh, TypeOK, Nonce
  <2>4. TypeOK'
    <3>1. live' \in BOOLEAN /\ exhausted' \in BOOLEAN
      BY <1>4 DEF EncryptWithNonce, TypeOK
    <3>2. uses' \in [Nonce -> Nat]
      BY <1>4, <2>3 DEF EncryptWithNonce, TypeOK
    <3> QED BY <1>4, <3>1, <3>2 DEF EncryptWithNonce, TypeOK, Results
  <2>5. CounterLaw'
    BY <1>4, <2>1, <2>2 DEF EncryptWithNonce, CounterLaw
  <2>6. HeldNumbersFresh'
    BY <1>4, <2>1, <2>2, <2>3 DEF EncryptWithNonce, HeldNumbersFresh, TypeOK, Nonce
  <2>7. UsedNumbersIssued'
    BY <1>4, <2>1, <2>2, <2>3 DEF EncryptWithNonce, UsedNumbersIssued, HeldNumbersFresh, TypeOK, Nonce
  <2>8. NonceUnique'
    BY <1>4, <2>3 DEF EncryptWithNonce, NonceUnique, TypeOK
  <2> QED BY <2>4, <2>5, <2>6, <2>7, <2>8
<1>5. ASSUME NEW t \in Callers, DecryptRefused(t)
      PROVE  SenderInv'
  <2>1. Overshot' = Overshot /\ Issued' = Issued
    BY <1>5 DEF DecryptRefused, Overshot, Issued
  <2>2. TypeOK'
    BY <1>5 DEF DecryptRefused, TypeOK, Results
  <2> QED BY <1>5, <2>1, <2>2
      DEF DecryptRefused, CounterLaw, Idle, HeldNumbersFresh, UsedNumbersIssued, NonceUnique
<1>6. ASSUME Destroy
      PROVE  SenderInv'
  <2>1. Overshot' = {} /\ Issued' = 0
    <3>1. phase' = phase /\ messageNumber' = 0 /\ \A t \in Callers : phase[t] = "idle"
      BY <1>6 DEF Destroy, Idle
    <3>2. Overshot' = {}
      BY <3>1 DEF Overshot
    <3> QED BY <3>1, <3>2, FS_EmptySet DEF Issued
  <2>2. TypeOK'
    <3>1. live' \in BOOLEAN /\ exhausted' \in BOOLEAN
      BY <1>6 DEF Destroy, TypeOK
    <3>2. 0 \in UInt64
      BY SenderAssumption DEF UInt64
    <3> QED BY <1>6, <3>1, <3>2 DEF Destroy, TypeOK
  <2>3. CounterLaw'
    BY <1>6, <1>b, <2>1 DEF Destroy, CounterLaw, Idle
  <2>4. HeldNumbersFresh' /\ UsedNumbersIssued' /\ NonceUnique'
    BY <1>6 DEF Destroy, Idle, HeldNumbersFresh, UsedNumbersIssued, NonceUnique
  <2> QED BY <2>2, <2>3, <2>4
<1>7. CASE UNCHANGED vars
  <2>1. Overshot' = Overshot /\ Issued' = Issued /\ Idle' = Idle
    BY <1>7 DEF vars, Overshot, Issued, Idle
  <2> QED BY <1>7, <2>1
      DEF vars, TypeOK, CounterLaw, HeldNumbersFresh, UsedNumbersIssued, NonceUnique
<1> QED BY <1>1, <1>2, <1>3, <1>4, <1>5, <1>6, <1>7 DEF Next, ThreadStep

(* The session's inductive invariant, for any number of threads below the  *)
(* head room (2^32 in the code).                                           *)
THEOREM SenderInvariance ==
  ASSUME Cardinality(Callers) < Slack
  PROVE  Spec => []SenderInv
<1>1. Init => SenderInv
  BY SenderInitially
<1>2. SenderInv /\ [Next]_vars => SenderInv'
  BY SenderStep
<1> QED BY <1>1, <1>2, PTL DEF Spec

(* SymCryptSessionGcmEncrypt never uses a nonce twice.                     *)
THEOREM SenderNonceUnique ==
  ASSUME Cardinality(Callers) < Slack
  PROVE  Spec => []NonceUnique
<1>1. SenderInv => NonceUnique
  BY DEF SenderInv
<1> QED BY <1>1, SenderInvariance, PTL

(* The message numbers used and held are exactly 1 .. Issued.              *)
THEOREM SenderNumbersContiguous ==
  ASSUME Cardinality(Callers) < Slack
  PROVE  Spec => []NumbersContiguous
<1>1. SenderInv => NumbersContiguous
  <2> SUFFICES ASSUME SenderInv, live
               PROVE  {n \in UInt64 : uses[<<senderId, n>>] > 0}
                        \cup {num[t] : t \in {u \in Callers : phase[u] = "encrypt"}} = 1 .. Issued
    BY DEF NumbersContiguous
  <2>1. Issued \in Int /\ \A k \in 1 .. Issued : k \in UInt64
    BY SenderAssumption DEF SenderInv, CounterLaw, UInt64
  <2>2. ASSUME NEW k \in UInt64, uses[<<senderId, k>>] > 0 PROVE k \in 1 .. Issued
    BY <2>2 DEF SenderInv, UsedNumbersIssued
  <2>3. ASSUME NEW t \in Callers, phase[t] = "encrypt" PROVE num[t] \in 1 .. Issued
    BY <2>3 DEF SenderInv, HeldNumbersFresh
  <2>4. ASSUME NEW k \in 1 .. Issued
        PROVE  uses[<<senderId, k>>] > 0 \/ \E t \in Callers : phase[t] = "encrypt" /\ num[t] = k
    BY DEF SenderInv, UsedNumbersIssued
  <2> QED BY <2>1, <2>2, <2>3, <2>4
<1> QED BY <1>1, SenderInvariance, PTL

(* A session that met the maximum never hands out a number again.          *)
THEOREM SenderStaysExhausted ==
  ASSUME Cardinality(Callers) < Slack
  PROVE  Spec => StaysExhausted
<1> DEFINE Quiet == (live /\ exhausted) => \A t \in Callers : phase[t] = "idle" => phase'[t] # "encrypt"
<1>1. SenderInv /\ [Next]_vars => [Quiet]_vars
  <2> SUFFICES ASSUME SenderInv, Next, live, exhausted, NEW t \in Callers, phase[t] = "idle"
               PROVE  phase'[t] # "encrypt"
    OBVIOUS
  <2> USE DEF SenderInv
  <2>a. /\ Cardinality(Overshot) \in Nat /\ Cardinality(Callers) \in Nat
        /\ (Overshot # Callers => Cardinality(Overshot) < Cardinality(Callers))
    BY ThreadSetCardinality DEF Overshot
  <2>b. messageNumber \in Int /\ Modulus \in Nat /\ MaxMessageNumber \in Nat /\ MaxMessageNumber < Modulus
    BY SenderAssumption DEF TypeOK, UInt64
  <2>1. ASSUME NEW u \in Callers, TakeNumber(u) PROVE phase'[t] # "encrypt"
    <3>1. Overshot # Callers
      BY <2>1 DEF TakeNumber, Overshot
    <3>2. Issued = MaxMessageNumber
      BY DEF CounterLaw
    <3>3. messageNumber + 1 < Modulus /\ messageNumber + 1 > MaxMessageNumber
      BY <3>1, <3>2, <2>a, <2>b DEF Issued, Slack
    <3>4. IncrementedNumber = messageNumber + 1
      BY <3>3, <2>b DEF IncrementedNumber, TypeOK, UInt64
    <3>5. phase' = [phase EXCEPT ![u] = "undo"]
      BY <2>1, <3>3, <3>4 DEF TakeNumber, AboveMaximum
    <3> QED BY <3>5 DEF TypeOK
  <2>2. ASSUME NEW u \in Callers, UndoNumber(u) \/ EncryptWithNonce(u) \/ DecryptRefused(u)
        PROVE  phase'[t] # "encrypt"
    BY <2>2 DEF UndoNumber, EncryptWithNonce, DecryptRefused, TypeOK
  <2>3. ASSUME (\E id \in SenderIds : SenderInit(id)) \/ Destroy PROVE phase'[t] # "encrypt"
    BY <2>3 DEF SenderInit, Destroy
  <2> QED BY <2>1, <2>2, <2>3 DEF Next, ThreadStep
<1> QED BY <1>1, SenderInvariance, PTL DEF Spec, StaysExhausted
=============================================================================
