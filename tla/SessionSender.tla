---------------------------- MODULE SessionSender ----------------------------
(***************************************************************************)
(* The encryption side of lib/session.c: threads of one process share a    *)
(* SYMCRYPT_SESSION and call SymCryptSessionGcmEncrypt on it concurrently.  *)
(* The GCM nonce of a call is senderId || messageNumber, where             *)
(* messageNumber is the result of one atomic 64-bit increment.  A call     *)
(* that lands above SYMCRYPT_SESSION_MAX_MESSAGE_NUMBER undoes its          *)
(* increment in a second atomic step and fails; between the two steps the  *)
(* counter is visible to every other thread.                               *)
(*                                                                         *)
(* The counter keeps its width: it lives in 0 .. Modulus-1 and wraps, as   *)
(* the UINT64 of the code does (Modulus = 2^64, MaxMessageNumber =         *)
(* 2^64 - 2^32 there).                                                     *)
(***************************************************************************)
EXTENDS Integers, FiniteSets

CONSTANTS
  Callers,           \* threads calling into the session
  SenderIds,         \* sender ids; the caller uses each one at most once per key
  Modulus,           \* 2^64 in the code: messageNumber is a UINT64
  MaxMessageNumber   \* SYMCRYPT_SESSION_MAX_MESSAGE_NUMBER

ASSUME SenderAssumption ==
  /\ IsFiniteSet(Callers)
  /\ Modulus \in Nat
  /\ MaxMessageNumber \in Nat
  /\ MaxMessageNumber < Modulus
  /\ MaxMessageNumber > 0

(* The head room above the maximum: 2^32 in the code.                      *)
Slack == Modulus - MaxMessageNumber

VARIABLES
  live,           \* between a successful SenderInit and Destroy
  senderId,       \* pSession->senderId
  messageNumber,  \* pSession->replayState.messageNumber
  flags,          \* pSession->flags (1 = SYMCRYPT_FLAG_SESSION_ENCRYPT)
  phase,          \* where each thread is inside SymCryptSessionGcmEncrypt
  num,            \* each thread's local messageNumber
  result,         \* what each thread's last call returned
  uses,           \* history: how often each nonce was handed to SymCryptGcmEncrypt
  spent,          \* history: sender ids already given to SenderInit
  exhausted       \* history: some call of this session met the maximum

vars == <<live, senderId, messageNumber, flags, phase, num, result, uses, spent, exhausted>>

UInt64 == 0 .. Modulus - 1
Nonce == SenderIds \X UInt64
Results == {"NONE", "NO_ERROR", "INVALID_ARGUMENT"}

Idle == \A t \in Callers : phase[t] = "idle"

(* Callers that passed the maximum and have not undone their increment.    *)
Overshot == {t \in Callers : phase[t] = "undo"}

(* The numbers this session has really handed out: the counter without the *)
(* increments that are about to be undone.                                 *)
Issued == messageNumber - Cardinality(Overshot)
-----------------------------------------------------------------------------
(* Raw memory: no session yet.                                             *)
Init ==
  /\ live = FALSE
  /\ senderId \in SenderIds
  /\ messageNumber = 0
  /\ flags = 0
  /\ phase = [t \in Callers |-> "idle"]
  /\ num = [t \in Callers |-> 0]
  /\ result = [t \in Callers |-> "NONE"]
  /\ uses = [n \in Nonce |-> 0]
  /\ spent = {}
  /\ exhausted = FALSE

(* SymCryptSessionSenderInit starts the counter at 0.  (With a nonzero     *)
(* flags argument it fails and leaves the structure alone: a stuttering    *)
(* step.)  The documented contract, a sender id is unique for a key, is    *)
(* the caller's: each id is given once.                                    *)
SenderInit(id) ==
  /\ ~live
  /\ id \notin spent
  /\ live' = TRUE
  /\ messageNumber' = 0
  /\ senderId' = id
  /\ flags' = 1
  /\ spent' = spent \cup {id}
  /\ exhausted' = FALSE
  /\ UNCHANGED <<phase, num, result, uses>>

(* The two halves of SymCryptSessionGcmEncrypt before the cipher runs:     *)
(* the role check, then the atomic increment and the comparison of its     *)
(* (thread-local) result with the maximum.                                 *)
IncrementedNumber == (messageNumber + 1) % Modulus

AboveMaximum(n) == n > MaxMessageNumber

TakeNumber(t) ==
  /\ live
  /\ phase[t] = "idle"
  /\ flags = 1
  /\ messageNumber' = IncrementedNumber
  /\ num' = [num EXCEPT ![t] = IncrementedNumber]
  /\ phase' = [phase EXCEPT ![t] = IF AboveMaximum(IncrementedNumber) THEN "undo" ELSE "encrypt"]
  /\ result' = [result EXCEPT ![t] = "NONE"]
  /\ exhausted' = (exhausted \/ AboveMaximum(IncrementedNumber))
  /\ UNCHANGED <<live, senderId, flags, uses, spent>>

(* Mutant: the error path forgets the decrement.                           *)
UndoNumberForgotten(t) ==
  /\ phase[t] = "undo"
  /\ phase' = [phase EXCEPT ![t] = "idle"]
  /\ result' = [result EXCEPT ![t] = "INVALID_ARGUMENT"]
  /\ UNCHANGED <<live, senderId, messageNumber, flags, num, uses, spent, exhausted>>

(* The error path: decrement the shared counter and fail.                  *)
UndoNumber(t) ==
  /\ phase[t] = "undo"
  /\ messageNumber' = (messageNumber - 1) % Modulus
  /\ phase' = [phase EXCEPT ![t] = "idle"]
  /\ result' = [result EXCEPT ![t] = "INVALID_ARGUMENT"]
  /\ UNCHANGED <<live, senderId, flags, num, uses, spent, exhausted>>

(* The success path: nonce = senderId || messageNumber goes to             *)
(* SymCryptGcmEncrypt and the call returns.                                *)
EncryptWithNonce(t) ==
  /\ phase[t] = "encrypt"
  /\ uses' = [uses EXCEPT ![<<senderId, num[t]>>] = @ + 1]
  /\ phase' = [phase EXCEPT ![t] = "idle"]
  /\ result' = [result EXCEPT ![t] = "NO_ERROR"]
  /\ UNCHANGED <<live, senderId, messageNumber, flags, num, spent, exhausted>>

(* SymCryptSessionGcmDecrypt on an encryption session fails on its role    *)
(* check, before it touches the session.                                   *)
DecryptRefused(t) ==
  /\ live
  /\ phase[t] = "idle"
  /\ flags = 1
  /\ result' = [result EXCEPT ![t] = "INVALID_ARGUMENT"]
  /\ UNCHANGED <<live, senderId, messageNumber, flags, phase, num, uses, spent, exhausted>>

(* SymCryptSessionDestroy wipes the structure; the caller has no call in   *)
(* progress.  (A sender session never holds a mutex.)                      *)
Destroy ==
  /\ live
  /\ Idle
  /\ live' = FALSE
  /\ messageNumber' = 0
  /\ flags' = 0
  /\ UNCHANGED <<senderId, phase, num, result, uses, spent, exhausted>>

ThreadStep(t) == TakeNumber(t) \/ UndoNumber(t) \/ EncryptWithNonce(t) \/ DecryptRefused(t)

Next ==
  \/ \E id \in SenderIds : SenderInit(id)
  \/ \E t \in Callers : ThreadStep(t)
  \/ Destroy

Spec == Init /\ [][Next]_vars
-----------------------------------------------------------------------------
(* The types of the session structure, the threads and the history.        *)
TypeOK ==
  /\ live \in BOOLEAN
  /\ senderId \in SenderIds
  /\ messageNumber \in UInt64
  /\ flags \in {0, 1}
  /\ phase \in [Callers -> {"idle", "undo", "encrypt"}]
  /\ num \in [Callers -> UInt64]
  /\ result \in [Callers -> Results]
  /\ uses \in [Nonce -> Nat]
  /\ spent \in SUBSET SenderIds
  /\ exhausted \in BOOLEAN

(* No nonce is ever given to SymCryptGcmEncrypt twice, whatever the        *)
(* interleaving of increments, undos and re-initialisations: the purpose   *)
(* of the session API (symcrypt.h: "It handles ensuring Nonce uniqueness   *)
(* across several encryption calls").                                      *)
NonceUnique == \A n \in Nonce : uses[n] <= 1

(* The API doc: "The first message number generated in a session will have *)
(* the value 1, and subsequent message numbers will be taken by atomically *)
(* incrementing the counter".  The numbers used so far, together with the  *)
(* ones taken by calls still running, are exactly 1 .. Issued: no gap is   *)
(* left by the error path, and number 0 is never used.                     *)
NumbersContiguous ==
  live =>
    {n \in UInt64 : uses[<<senderId, n>>] > 0} \cup {num[t] : t \in {u \in Callers : phase[u] = "encrypt"}}
      = 1 .. Issued

(* The comment on the error path: the decrement is there "so that this     *)
(* session will continue to only generate errors".  Once one call has met  *)
(* the maximum, no later call of the session gets a number.                *)
StaysExhausted ==
  [][(live /\ exhausted) => \A t \in Callers : phase[t] = "idle" => phase'[t] # "encrypt"]_vars
-----------------------------------------------------------------------------
(* The inductive invariant behind NonceUnique, NumbersContiguous and       *)
(* StaysExhausted.  The counter is the numbers issued plus the increments  *)
(* about to be undone, and only an exhausted session has any of those.     *)
CounterLaw ==
  /\ Issued \in 0 .. MaxMessageNumber
  /\ (Overshot # {} \/ (live /\ exhausted)) => Issued = MaxMessageNumber
  /\ live => flags = 1
  /\ ~live => Idle

(* Every number a running call holds is issued, unused and its own.        *)
HeldNumbersFresh ==
  /\ \A t \in Callers : phase[t] = "encrypt" =>
       num[t] \in 1 .. Issued /\ uses[<<senderId, num[t]>>] = 0
  /\ \A t, u \in Callers : (phase[t] = "encrypt" /\ phase[u] = "encrypt" /\ t # u) => num[t] # num[u]

(* Every issued number is used or held, and nothing else is used.          *)
UsedNumbersIssued ==
  /\ live => senderId \in spent
  /\ \A id \in SenderIds, k \in UInt64 : id \notin spent => uses[<<id, k>>] = 0
  /\ live => \A k \in UInt64 : uses[<<senderId, k>>] > 0 => k \in 1 .. Issued
  /\ live => \A k \in 1 .. Issued :
                uses[<<senderId, k>>] > 0 \/ \E t \in Callers : phase[t] = "encrypt" /\ num[t] = k

SenderInv ==
  /\ TypeOK
  /\ CounterLaw
  /\ HeldNumbersFresh
  /\ UsedNumbersIssued
  /\ NonceUnique
=============================================================================
