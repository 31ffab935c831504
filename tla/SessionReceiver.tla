--------------------------- MODULE SessionReceiver ---------------------------
(***************************************************************************)
(* The decryption side of lib/session.c: threads of one process share a    *)
(* SYMCRYPT_SESSION and call SymCryptSessionGcmDecrypt on it concurrently.  *)
(* The replay state is a message number and a bit mask of the Window       *)
(* numbers up to it (64 in the code).  Three builds update it differently: *)
(*   "CAS128"  one 128-bit compare-and-swap in a loop (ARM64, and AMD64    *)
(*             with CMPXCHG16B), primed by a non-atomic read;              *)
(*   "LOCK64"  under the session's mutex, on a 64-bit CPU (AMD64 without   *)
(*             CMPXCHG16B): each of the two words is stored by one write;  *)
(*   "LOCK32"  under the mutex on a 32-bit CPU: the assignment of the      *)
(*             structure stores messageNumber in two halves.               *)
(* The two early checks read messageNumber outside the mutex.              *)
(*                                                                         *)
(* replayMask is the set of bit positions that are 1: bit i stands for     *)
(* message number messageNumber - i.                                       *)
(***************************************************************************)
EXTENDS Integers, FiniteSets

CONSTANTS
  Threads,           \* threads calling into the session
  Window,            \* 64 in the code: the width of replayMask
  Modulus,           \* 2^64 in the code: messageNumber is a UINT64
  Half,              \* 2^32 in the code: the weight of the upper 32-bit word
  MaxMessageNumber,  \* SYMCRYPT_SESSION_MAX_MESSAGE_NUMBER
  Builds             \* those of "CAS128", "LOCK64" and "LOCK32" that may be installed

ASSUME ReceiverAssumption ==
  /\ Window \in Nat \ {0}
  /\ MaxMessageNumber \in Nat
  /\ Window <= MaxMessageNumber
  /\ Modulus \in Nat
  /\ MaxMessageNumber < Modulus
  /\ Half \in Nat \ {0}
  /\ Builds \subseteq {"CAS128", "LOCK64", "LOCK32"}
  /\ "nobody" \notin Threads

VARIABLES
  build,          \* which update the library uses: fixed by the compiler and the CPU
  live,           \* between a successful ReceiverInit and Destroy
  replayMask,     \* pSession->replayState.replayMask
  messageNumber,  \* pSession->replayState.messageNumber
  pMutex,         \* whether pSession->pMutex is allocated
  owner,          \* the thread that holds the mutex
  pc,             \* where each thread is inside SymCryptSessionGcmDecrypt
  msg,            \* the messageNumber argument of each thread's call
  dst,            \* what the destination buffer of each thread's last call holds
  expected,       \* each thread's local expectedState
  desired,        \* each thread's local desiredState
  todo,           \* words still to be read (CAS128) or stored (mutex builds)
  result,         \* what each thread's last call returned
  accepts         \* history: how often each message number was accepted

replayState == <<replayMask, messageNumber>>
locals == <<msg, dst, expected, desired, todo, result>>
vars == <<build, live, replayState, pMutex, owner, pc, locals, accepts>>

MessageNumbers == 1 .. MaxMessageNumber
Bits == 0 .. Window - 1
ReplayStates == [replayMask : SUBSET Int, messageNumber : Nat]
Results == {"NONE", "NO_ERROR", "INVALID_ARGUMENT", "REPLAY_FAILURE",
            "AUTHENTICATION_FAILURE", "MEMORY_ALLOCATION_FAILURE"}
Nobody == "nobody"

UseMutex == build # "CAS128"
State == [replayMask |-> replayMask, messageNumber |-> messageNumber]
Blank == [replayMask |-> {}, messageNumber |-> 0]
Idle == \A t \in Threads : pc[t] = "idle"

(* UINT64 subtraction: below zero it wraps.                                *)
Behind(number) == (number - Window) % Modulus

(* The test both early checks make on a lone load of messageNumber.        *)
TooLate(m) == m <= Behind(messageNumber)
-----------------------------------------------------------------------------
(* Mutant: the window is one number too long.                              *)
IsReplayOffByOne(observed, m) ==
  /\ m <= observed.messageNumber
  /\ \/ m < Behind(observed.messageNumber)
     \/ (observed.messageNumber - m) \in observed.replayMask

(* SymCryptSessionDecryptComputeDesiredReplayState.  Its error result:     *)
IsReplay(observed, m) ==
  /\ m <= observed.messageNumber
  /\ \/ m <= Behind(observed.messageNumber)
     \/ (observed.messageNumber - m) \in observed.replayMask

(* Mutant: the mask is never shifted out.                                  *)
ShiftLeftUnguarded(mask, amount) == {i \in Bits : i - (amount % Window) \in mask}

(* ... and *desiredState when there is none: a number ahead of the window  *)
(* shifts the mask (by 64 or more: to nothing), one inside it sets a bit.  *)
ShiftLeft(mask, amount) ==
  IF amount < Window THEN {i \in Bits : i - amount \in mask} ELSE {}

DesiredState(observed, m) ==
  IF m > observed.messageNumber
  THEN [replayMask    |-> ShiftLeft(observed.replayMask, m - observed.messageNumber) \cup {0},
        messageNumber |-> m]
  ELSE [replayMask    |-> observed.replayMask \cup {observed.messageNumber - m},
        messageNumber |-> observed.messageNumber]
-----------------------------------------------------------------------------
(* Wiped memory: no session yet.                                           *)
Init ==
  /\ build \in Builds
  /\ live = FALSE
  /\ replayMask = {}
  /\ messageNumber = 0
  /\ pMutex = FALSE
  /\ owner = Nobody
  /\ pc = [t \in Threads |-> "idle"]
  /\ msg = [t \in Threads |-> 0]
  /\ dst = [t \in Threads |-> "caller"]
  /\ expected = [t \in Threads |-> Blank]
  /\ desired = [t \in Threads |-> Blank]
  /\ todo = [t \in Threads |-> {}]
  /\ result = [t \in Threads |-> "NONE"]
  /\ accepts = [m \in MessageNumbers |-> 0]

(* SymCryptSessionReceiverInit: numbers 1 .. Window are trackable and      *)
(* unused.  A build that needs the mutex allocates it first; when that     *)
(* fails the session is left alone.                                        *)
ReceiverInit ==
  /\ ~live
  /\ live' = TRUE
  /\ pMutex' = UseMutex
  /\ replayMask' = {}
  /\ messageNumber' = Window
  /\ UNCHANGED <<build, owner, pc, locals, accepts>>

ReceiverInitFails(t) ==
  /\ ~live
  /\ UseMutex
  /\ result' = [result EXCEPT ![t] = "MEMORY_ALLOCATION_FAILURE"]
  /\ dst' = [dst EXCEPT ![t] = "caller"]
  /\ UNCHANGED <<build, live, replayState, pMutex, owner, pc, msg, expected, desired, todo, accepts>>

(* SymCryptSessionDestroy frees the mutex and wipes the session; the       *)
(* caller has no call in progress.  The history of a session ends with it. *)
Destroy ==
  /\ live
  /\ Idle
  /\ live' = FALSE
  /\ pMutex' = FALSE
  /\ replayMask' = {}
  /\ messageNumber' = 0
  /\ accepts' = [m \in MessageNumbers |-> 0]
  /\ UNCHANGED <<build, owner, pc, locals>>

(* SymCryptSessionGcmEncrypt on a decryption session fails on its role     *)
(* check.                                                                  *)
EncryptRefused(t) ==
  /\ live
  /\ pc[t] = "idle"
  /\ result' = [result EXCEPT ![t] = "INVALID_ARGUMENT"]
  /\ dst' = [dst EXCEPT ![t] = "caller"]
  /\ UNCHANGED <<build, live, replayState, pMutex, owner, pc, msg, expected, desired, todo, accepts>>
-----------------------------------------------------------------------------
(* Mutant: the cleanup does not wipe.                                      *)
ReturnWithoutWipe(t, status) ==
  /\ pc' = [pc EXCEPT ![t] = "idle"]
  /\ result' = [result EXCEPT ![t] = status]
  /\ UNCHANGED dst
  /\ msg' = [msg EXCEPT ![t] = 0]
  /\ expected' = [expected EXCEPT ![t] = Blank]
  /\ desired' = [desired EXCEPT ![t] = Blank]
  /\ todo' = [todo EXCEPT ![t] = {}]

(* Every exit of SymCryptSessionGcmDecrypt: an error wipes the buffer and  *)
(* the locals go out of scope.                                             *)
Return(t, status) ==
  /\ pc' = [pc EXCEPT ![t] = "idle"]
  /\ result' = [result EXCEPT ![t] = status]
  /\ dst' = IF status = "NO_ERROR" THEN dst ELSE [dst EXCEPT ![t] = "wiped"]
  /\ msg' = [msg EXCEPT ![t] = 0]
  /\ expected' = [expected EXCEPT ![t] = Blank]
  /\ desired' = [desired EXCEPT ![t] = Blank]
  /\ todo' = [todo EXCEPT ![t] = {}]

(* The argument check.  0 and Max + 1 stand for the invalid numbers.       *)
BeginDecrypt(t, m) ==
  /\ live
  /\ pc[t] = "idle"
  /\ IF m = 0 \/ m > MaxMessageNumber
     THEN Return(t, "INVALID_ARGUMENT")
     ELSE /\ pc' = [pc EXCEPT ![t] = "early"]
          /\ msg' = [msg EXCEPT ![t] = m]
          /\ result' = [result EXCEPT ![t] = "NONE"]
          /\ dst' = [dst EXCEPT ![t] = "caller"]
          /\ UNCHANGED <<expected, desired, todo>>
  /\ UNCHANGED <<build, live, replayState, pMutex, owner, accepts>>

(* The first early check, before the expensive decryption.                 *)
EarlyCheck(t) ==
  /\ pc[t] = "early"
  /\ IF TooLate(msg[t])
     THEN Return(t, "REPLAY_FAILURE")
     ELSE pc' = [pc EXCEPT ![t] = "decrypt"] /\ UNCHANGED locals
  /\ UNCHANGED <<build, live, replayState, pMutex, owner, accepts>>

(* SymCryptGcmDecrypt on nonce senderId || messageNumber: a bad tag ends   *)
(* the call, a good one leaves the plaintext in the buffer and goes on to  *)
(* SymCryptSessionDecryptUpdateState, which picks the build's update.      *)
AuthFails(t) ==
  /\ pc[t] = "decrypt"
  /\ Return(t, "AUTHENTICATION_FAILURE")
  /\ UNCHANGED <<build, live, replayState, pMutex, owner, accepts>>

AuthSucceeds(t) ==
  /\ pc[t] = "decrypt"
  /\ dst' = [dst EXCEPT ![t] = "plaintext"]
  /\ pc' = [pc EXCEPT ![t] = IF UseMutex THEN "check" ELSE "read"]
  /\ todo' = [todo EXCEPT ![t] = IF UseMutex THEN {} ELSE {"mask", "number"}]
  /\ UNCHANGED <<build, live, replayState, pMutex, owner, msg, expected, desired, result, accepts>>
-----------------------------------------------------------------------------
(* SymCryptSessionDecryptUpdateStateCAS128.  expectedState is primed by    *)
(* two separate reads, in the order the compiler chose.                    *)
ReadWord(t, word) ==
  /\ pc[t] = "read"
  /\ word \in todo[t]
  /\ expected' = IF word = "mask" THEN [expected EXCEPT ![t].replayMask = replayMask]
                                  ELSE [expected EXCEPT ![t].messageNumber = messageNumber]
  /\ todo' = [todo EXCEPT ![t] = @ \ {word}]
  /\ UNCHANGED <<build, live, replayState, pMutex, owner, pc, msg, dst, desired, result, accepts>>

(* Mutant: the guess is trusted, so a replay seen in it is final.          *)
GuessTrusted(t) ==
  /\ pc[t] = "read"
  /\ todo[t] = {}
  /\ IF IsReplay(expected[t], msg[t])
     THEN Return(t, "REPLAY_FAILURE")
     ELSE /\ pc' = [pc EXCEPT ![t] = "cas"]
          /\ desired' = [desired EXCEPT ![t] = DesiredState(expected[t], msg[t])]
          /\ UNCHANGED <<msg, dst, expected, todo, result>>
  /\ UNCHANGED <<build, live, replayState, pMutex, owner, accepts>>

(* Mutant: a guess that looks like a replay is exchanged all the same.     *)
GuessKeepsExpected(t) ==
  /\ pc[t] = "read"
  /\ todo[t] = {}
  /\ pc' = [pc EXCEPT ![t] = "cas"]
  /\ IF IsReplay(expected[t], msg[t])
     THEN UNCHANGED desired
     ELSE desired' = [desired EXCEPT ![t] = DesiredState(expected[t], msg[t])]
  /\ UNCHANGED <<build, live, replayState, pMutex, owner, msg, dst, expected, todo, result, accepts>>

(* The first guess.  When it looks like a replay, desiredState is left     *)
(* uninitialised (Blank here) and messageNumber 0 is expected, a value     *)
(* the session never holds.                                                *)
Guess(t) ==
  /\ pc[t] = "read"
  /\ todo[t] = {}
  /\ pc' = [pc EXCEPT ![t] = "cas"]
  /\ IF IsReplay(expected[t], msg[t])
     THEN /\ expected' = [expected EXCEPT ![t].messageNumber = 0]
          /\ UNCHANGED desired
     ELSE /\ desired' = [desired EXCEPT ![t] = DesiredState(expected[t], msg[t])]
          /\ UNCHANGED expected
  /\ UNCHANGED <<build, live, replayState, pMutex, owner, msg, dst, todo, result, accepts>>

(* Mutant: the exchange compares only the message number.                  *)
CasSucceedsOnNumber(t) ==
  /\ pc[t] = "cas"
  /\ messageNumber = expected[t].messageNumber
  /\ replayMask' = desired[t].replayMask
  /\ messageNumber' = desired[t].messageNumber
  /\ accepts' = [accepts EXCEPT ![msg[t]] = @ + 1]
  /\ Return(t, "NO_ERROR")
  /\ UNCHANGED <<build, live, pMutex, owner>>

(* One turn of the loop: the 128-bit exchange succeeds and the call with   *)
(* it ...                                                                  *)
CasSucceeds(t) ==
  /\ pc[t] = "cas"
  /\ State = expected[t]
  /\ replayMask' = desired[t].replayMask
  /\ messageNumber' = desired[t].messageNumber
  /\ accepts' = [accepts EXCEPT ![msg[t]] = @ + 1]
  /\ Return(t, "NO_ERROR")
  /\ UNCHANGED <<build, live, pMutex, owner>>

(* Mutant: the failed exchange does not refresh expectedState.             *)
CasFailsRereads(t) ==
  /\ pc[t] = "cas"
  /\ State # expected[t]
  /\ IF IsReplay(State, msg[t])
     THEN Return(t, "REPLAY_FAILURE")
     ELSE /\ desired' = [desired EXCEPT ![t] = DesiredState(State, msg[t])]
          /\ UNCHANGED <<expected, pc, msg, dst, todo, result>>
  /\ UNCHANGED <<build, live, replayState, pMutex, owner, accepts>>

(* ... or fails, which reads the state atomically: now a replay is final.  *)
CasFails(t) ==
  /\ pc[t] = "cas"
  /\ State # expected[t]
  /\ IF IsReplay(State, msg[t])
     THEN Return(t, "REPLAY_FAILURE")
     ELSE /\ expected' = [expected EXCEPT ![t] = State]
          /\ desired' = [desired EXCEPT ![t] = DesiredState(State, msg[t])]
          /\ UNCHANGED <<pc, msg, dst, todo, result>>
  /\ UNCHANGED <<build, live, replayState, pMutex, owner, accepts>>
-----------------------------------------------------------------------------
(* SymCryptSessionDecryptUpdateStateLock: the mutex must exist, then the   *)
(* second early check, outside the mutex.                                  *)
CheckAgain(t) ==
  /\ pc[t] = "check"
  /\ IF ~pMutex \/ TooLate(msg[t])
     THEN Return(t, IF pMutex THEN "REPLAY_FAILURE" ELSE "INVALID_ARGUMENT")
     ELSE /\ pc' = [pc EXCEPT ![t] = "acquire"]
          /\ UNCHANGED locals
  /\ UNCHANGED <<build, live, replayState, pMutex, owner, accepts>>

(* SymCryptCallbackAcquireMutexFastInproc.                                 *)
AcquireMutex(t) ==
  /\ pc[t] = "acquire"
  /\ owner = Nobody
  /\ owner' = t
  /\ pc' = [pc EXCEPT ![t] = "compute"]
  /\ UNCHANGED <<build, live, replayState, pMutex, locals, accepts>>

(* The decision, on the state the mutex protects.                          *)
ComputeUnderMutex(t) ==
  /\ pc[t] = "compute"
  /\ IF IsReplay(State, msg[t])
     THEN /\ pc' = [pc EXCEPT ![t] = "release"]
          /\ result' = [result EXCEPT ![t] = "REPLAY_FAILURE"]
          /\ UNCHANGED <<desired, todo, accepts>>
     ELSE /\ pc' = [pc EXCEPT ![t] = "store"]
          /\ desired' = [desired EXCEPT ![t] = DesiredState(State, msg[t])]
          /\ todo' = [todo EXCEPT ![t] = {"mask", "number"}]
          /\ accepts' = [accepts EXCEPT ![msg[t]] = @ + 1]
          /\ result' = [result EXCEPT ![t] = "NO_ERROR"]
  /\ UNCHANGED <<build, live, replayState, pMutex, owner, msg, dst, expected>>

(* pSession->replayState = desiredState, word by word in any order.        *)
StoreMask(t) ==
  /\ pc[t] = "store"
  /\ "mask" \in todo[t]
  /\ replayMask' = desired[t].replayMask
  /\ todo' = [todo EXCEPT ![t] = @ \ {"mask"}]
  /\ UNCHANGED <<build, live, messageNumber, pMutex, owner, pc, msg, dst, expected, desired, result, accepts>>

(* A 32-bit CPU stores messageNumber in two halves: after the first one    *)
(* the word mixes the old and the new value.                               *)
MixedHalves(upper, lower) == ((upper \div Half) * Half) + (lower % Half)

StoreHalf(t) ==
  /\ pc[t] = "store"
  /\ build = "LOCK32"
  /\ "number" \in todo[t]
  /\ messageNumber' \in {MixedHalves(desired[t].messageNumber, messageNumber),
                         MixedHalves(messageNumber, desired[t].messageNumber)}
  /\ todo' = [todo EXCEPT ![t] = (@ \ {"number"}) \cup {"half"}]
  /\ UNCHANGED <<build, live, replayMask, pMutex, owner, pc, msg, dst, expected, desired, result, accepts>>

StoreNumber(t) ==
  /\ pc[t] = "store"
  /\ (IF build = "LOCK32" THEN "half" ELSE "number") \in todo[t]
  /\ messageNumber' = desired[t].messageNumber
  /\ todo' = [todo EXCEPT ![t] = @ \ {"half", "number"}]
  /\ UNCHANGED <<build, live, replayMask, pMutex, owner, pc, msg, dst, expected, desired, result, accepts>>

(* SymCryptCallbackReleaseMutexFastInproc and the return.                  *)
ReleaseMutex(t) ==
  /\ pc[t] = "release" \/ (pc[t] = "store" /\ todo[t] = {})
  /\ owner' = Nobody
  /\ Return(t, result[t])
  /\ UNCHANGED <<build, live, replayState, pMutex, accepts>>
-----------------------------------------------------------------------------
CasPath(t) == (\E word \in {"mask", "number"} : ReadWord(t, word))
              \/ Guess(t) \/ CasSucceeds(t) \/ CasFails(t)

LockPath(t) == CheckAgain(t) \/ AcquireMutex(t) \/ ComputeUnderMutex(t)
               \/ StoreMask(t) \/ StoreHalf(t) \/ StoreNumber(t) \/ ReleaseMutex(t)

(* The steps of a call after its first.                                    *)
Continue(t) == EarlyCheck(t) \/ AuthFails(t) \/ AuthSucceeds(t) \/ CasPath(t) \/ LockPath(t)

Next ==
  \/ ReceiverInit
  \/ Destroy
  \/ \E t \in Threads :
       \/ ReceiverInitFails(t)
       \/ EncryptRefused(t)
       \/ \E m \in 0 .. MaxMessageNumber + 1 : BeginDecrypt(t, m)
       \/ Continue(t)

(* A thread inside a call keeps running: the scheduler is weakly fair.     *)
(* Nothing is assumed about who gets a contended mutex.                    *)
Fairness == \A t \in Threads : WF_vars(Continue(t))

Spec == Init /\ [][Next]_vars
FairSpec == Spec /\ Fairness
-----------------------------------------------------------------------------
(* The state the threads agree on: while the holder of the mutex is        *)
(* storing, the two words in memory are on their way to its desiredState.  *)
LogicalState ==
  IF owner # Nobody /\ pc[owner] = "store" THEN desired[owner] ELSE State

Accepted == {m \in MessageNumbers : accepts[m] > 0}

SessionTypeOK == build \in Builds /\ live \in BOOLEAN /\ pMutex \in BOOLEAN

ThreadTypeOK ==
  /\ State \in ReplayStates
  /\ owner \in Threads \cup {Nobody}
  /\ pc \in [Threads -> {"idle", "early", "decrypt", "read", "cas", "check", "acquire", "compute",
                         "store", "release"}]
  /\ msg \in [Threads -> 0 .. MaxMessageNumber]
  /\ dst \in [Threads -> {"caller", "plaintext", "wiped"}]
  /\ expected \in [Threads -> ReplayStates]
  /\ desired \in [Threads -> ReplayStates]
  /\ todo \in [Threads -> SUBSET {"mask", "number", "half"}]
  /\ result \in [Threads -> Results]
  /\ accepts \in [MessageNumbers -> Nat]

(* The types of the session, the threads' locals and the history.          *)
TypeOK == SessionTypeOK /\ ThreadTypeOK

(* symcrypt.h: "it is guaranteed that no 2 decryptions using the same      *)
(* session and same message number can succeed", for every interleaving    *)
(* of the threads, torn reads and torn stores included.                    *)
NoDoubleAccept == \A m \in MessageNumbers : accepts[m] <= 1

(* The mask is exact: a bit is set if and only if the number it stands for *)
(* has been accepted, and nothing above messageNumber has been.            *)
MaskLaw(state, counts) ==
  /\ state.replayMask \subseteq Bits
  /\ state.messageNumber \in Window .. MaxMessageNumber
  /\ \A m \in MessageNumbers :
       m > state.messageNumber - Window =>
         (counts[m] > 0 <=> state.messageNumber - m \in state.replayMask)

MaskExact == live => MaskLaw(LogicalState, accepts)

(* The comment in UpdateStateCAS128: "messageNumber can never take the     *)
(* value 0", so the exchange never stores the desiredState that the replay *)
(* path left uninitialised.                                                *)
NoUninitialisedStore ==
  \A t \in Threads : (pc[t] = "cas" /\ State = expected[t]) => desired[t].messageNumber # 0

(* A caller keeps plaintext only when its call succeeded: whichever way a  *)
(* call fails, before or after the tag was verified, its buffer is wiped.  *)
PlaintextOnlyOnSuccess ==
  \A t \in Threads :
    pc[t] = "idle" => (dst[t] = "plaintext" <=> result[t] = "NO_ERROR")

(* symcrypt.h gives two reasons for SYMCRYPT_SESSION_REPLAY_FAILURE: the    *)
(* number is below the window or marked as used.  No call is refused for   *)
(* any other reason: a number that is new and inside or above the window   *)
(* of the state the threads agree on never ends in REPLAY_FAILURE.         *)
RefusedOnlyReplaysAsDocumented ==
  [][\A t \in Threads :
       (pc[t] # "idle" /\ result[t] = "NONE" /\ result'[t] = "REPLAY_FAILURE")
       => msg[t] \in Accepted \/ msg[t] <= LogicalState.messageNumber - Window]_vars

(* The same where one store writes messageNumber: on 64-bit CPUs no stale  *)
(* number an early check may see refuses a message that is not a replay.   *)
RefusedOnlyReplays ==
  [][\A t \in Threads :
       (build # "LOCK32" /\ pc[t] # "idle" /\ result[t] = "NONE" /\ result'[t] = "REPLAY_FAILURE")
       => msg[t] \in Accepted \/ msg[t] <= LogicalState.messageNumber - Window]_vars

(* The window only moves forward while the session lives, in the words of  *)
(* the comment "monotonic increasing".                                     *)
WindowMonotone ==
  [][(live /\ live') => LogicalState'.messageNumber >= LogicalState.messageNumber]_vars

(* Every call comes to its end or to the wait for the mutex, whose order   *)
(* the platform decides.  So the lock-free call always returns (an         *)
(* exchange fails only when another call succeeded, and only finitely many *)
(* can) and the mutex is always released again: "Do not return until we    *)
(* have called SymCryptCallbackReleaseMutexFastInproc".                    *)
CallsReturn ==
  \A t \in Threads : pc[t] \notin {"idle", "acquire"} ~> pc[t] \in {"idle", "acquire"}

(* The session implements the atomic filter.                               *)
Filter == INSTANCE ReplayFilter WITH
  highest  <- IF live THEN LogicalState.messageNumber ELSE Window,
  accepted <- Accepted

ImplementsFilter == Filter!Spec
-----------------------------------------------------------------------------
(* The inductive invariant behind the properties above.  Where a thread is *)
(* in a call and who holds the mutex:                                      *)
CallLaw ==
  /\ \A t \in Threads :
       /\ pc[t] # "idle" => live /\ msg[t] \in MessageNumbers
       /\ pc[t] \in {"check", "acquire", "compute", "store", "release"} => UseMutex
       /\ pc[t] \in {"read", "cas"} => ~UseMutex
       /\ pc[t] \in {"compute", "store", "release"} <=> owner = t
  /\ ~live => \A m \in MessageNumbers : accepts[m] = 0

(* The words a storing thread has finished are those of its desiredState;  *)
(* where words are not torn, the number it has not stored yet is older.    *)
StoreLaw ==
  \A t \in Threads : pc[t] = "store" =>
    /\ "mask" \notin todo[t] => replayMask = desired[t].replayMask
    /\ ("number" \notin todo[t] /\ "half" \notin todo[t]) => messageNumber = desired[t].messageNumber
    /\ build # "LOCK32" => messageNumber \in Window .. desired[t].messageNumber

(* A thread about to exchange has the update of what it expects, or        *)
(* expects what never is.                                                  *)
CasLaw ==
  \A t \in Threads : pc[t] = "cas" =>
    \/ expected[t].messageNumber = 0
    \/ /\ ~IsReplay(expected[t], msg[t])
       /\ desired[t] = DesiredState(expected[t], msg[t])

(* From the verified tag on a call has plaintext in its buffer; the mutex  *)
(* path has decided what it will return before it releases the mutex.      *)
BufferLaw ==
  /\ PlaintextOnlyOnSuccess
  /\ \A t \in Threads :
       /\ pc[t] \notin {"idle", "early", "decrypt"} => dst[t] = "plaintext"
       /\ pc[t] = "store" => result[t] = "NO_ERROR"
       /\ pc[t] = "release" => result[t] = "REPLAY_FAILURE"

ReceiverInv ==
  /\ TypeOK
  /\ CallLaw
  /\ StoreLaw
  /\ CasLaw
  /\ MaskExact
  /\ NoDoubleAccept
=============================================================================
