------------------------ MODULE SessionReceiverProofs ------------------------
(***************************************************************************)
(* For every number of threads, every window and every build,              *)
(* SymCryptSessionGcmDecrypt accepts no message number twice, keeps the    *)
(* replay mask exact and implements the atomic ReplayFilter; in the builds *)
(* that do not tear words it refuses replays only.  The argument: the      *)
(* state the threads agree on (LogicalState) changes only by the update of *)
(* one number that it does not hold a replay of.                           *)
(***************************************************************************)
EXTENDS SessionReceiver, TLAPS

(* Subtracting the window from a session's message number does not wrap.   *)
LEMMA BehindIsBelow ==
  ASSUME NEW n \in Window .. MaxMessageNumber
  PROVE  Behind(n) = n - Window
<1>1. \A a, b \in Nat : a < b => a % b = a
  OBVIOUS
<1>2. n - Window \in Nat /\ n - Window < Modulus /\ Modulus \in Nat
  BY ReceiverAssumption
<1> QED BY <1>1, <1>2 DEF Behind

(* The update of a replay state is one.                                    *)
LEMMA DesiredStateType ==
  ASSUME NEW st \in ReplayStates, NEW m \in MessageNumbers
  PROVE  DesiredState(st, m) \in ReplayStates
<1>1. st.messageNumber \in Nat /\ st.replayMask \in SUBSET Int /\ m \in Nat
  BY DEF ReplayStates, MessageNumbers
<1>2. st.messageNumber - m \in Int /\ {st.messageNumber - m} \in SUBSET Int
  BY <1>1
<1>3. ShiftLeft(st.replayMask, m - st.messageNumber) \in SUBSET Int
  BY ReceiverAssumption DEF ShiftLeft, Bits
<1> QED BY <1>1, <1>2, <1>3 DEF DesiredState, ReplayStates

(* The update of one new number: it was not accepted before, it was not    *)
(* below the window, and the mask stays exact.                             *)
LEMMA AcceptKeepsMask ==
  ASSUME NEW st \in ReplayStates, NEW counts \in [MessageNumbers -> Nat], MaskLaw(st, counts),
         NEW m \in MessageNumbers, ~IsReplay(st, m)
  PROVE  /\ counts[m] = 0
         /\ m > st.messageNumber - Window
         /\ MaskLaw(DesiredState(st, m), [counts EXCEPT ![m] = @ + 1])
         /\ DesiredState(st, m).messageNumber = IF m > st.messageNumber THEN m ELSE st.messageNumber
<1> DEFINE n == st.messageNumber
           next == [counts EXCEPT ![m] = @ + 1]
<1>1. /\ n \in Int /\ Window \in Int /\ MaxMessageNumber \in Int /\ m \in Int
      /\ n >= Window /\ n <= MaxMessageNumber /\ m >= 1 /\ m <= MaxMessageNumber /\ Window >= 1
  BY ReceiverAssumption DEF MaskLaw, MessageNumbers
<1>2. Behind(n) = n - Window
  BY <1>1, BehindIsBelow DEF MaskLaw
<1>3. m > n - Window
  BY <1>1, <1>2 DEF IsReplay
<1>4. st.replayMask \subseteq Bits
  BY DEF MaskLaw
<1>5. counts[m] = 0
  <2>1. n - m \notin st.replayMask
    <3>1. CASE m <= n
      BY <3>1 DEF IsReplay
    <3>2. CASE ~(m <= n)
      BY <3>2, <1>1, <1>4 DEF Bits
    <3> QED BY <3>1, <3>2
  <2>2. ~(counts[m] > 0)
    BY <1>3, <2>1 DEF MaskLaw
  <2>3. counts[m] \in Nat
    OBVIOUS
  <2> QED BY <2>2, <2>3
<1>6. next \in [MessageNumbers -> Nat] /\ next[m] = 1 /\ \A k \in MessageNumbers : k # m => next[k] = counts[k]
  BY <1>5
<1>7. CASE m > n
  <2>1. DesiredState(st, m) = [replayMask |-> ShiftLeft(st.replayMask, m - n) \cup {0}, messageNumber |-> m]
    BY <1>7 DEF DesiredState
  <2>2. ShiftLeft(st.replayMask, m - n) \in SUBSET Bits /\ 0 \in Bits
    BY <1>1 DEF ShiftLeft, Bits
  <2>4. ASSUME NEW k \in MessageNumbers, k > m - Window
        PROVE  next[k] > 0 <=> m - k \in ShiftLeft(st.replayMask, m - n) \cup {0}
    <3>1. k \in Int /\ k >= 1
      BY DEF MessageNumbers
    <3>2. CASE k = m
      BY <3>2, <1>6, <1>1
    <3>3. CASE k # m
      <4>1. next[k] = counts[k] /\ m - k # 0
        BY <3>3, <1>6, <3>1, <1>1
      <4>2. counts[k] > 0 <=> n - k \in st.replayMask
        BY <1>7, <1>1, <3>1, <2>4 DEF MaskLaw
      <4>3. CASE m - n < Window
        <5>1. m - k \in ShiftLeft(st.replayMask, m - n) <=> (m - k \in Bits /\ n - k \in st.replayMask)
          <6>1. (m - k) - (m - n) = n - k
            BY <3>1, <1>1
          <6> QED BY <4>3, <6>1 DEF ShiftLeft
        <5>2. n - k \in st.replayMask => m - k \in Bits
          BY <1>4, <1>7, <1>1, <3>1, <2>4 DEF Bits
        <5> QED BY <4>1, <4>2, <5>1, <5>2
      <4>4. CASE ~(m - n < Window)
        <5>1. ShiftLeft(st.replayMask, m - n) = {}
          BY <4>4 DEF ShiftLeft
        <5>2. n - k \notin st.replayMask
          BY <1>4, <4>4, <1>1, <3>1, <2>4 DEF Bits
        <5> QED BY <4>1, <4>2, <5>1, <5>2
      <4> QED BY <4>3, <4>4
    <3> QED BY <3>2, <3>3
  <2>5. MaskLaw(DesiredState(st, m), next)
    <3>1. m \in Window .. MaxMessageNumber
      BY <1>1, <1>7
    <3> QED BY <2>1, <2>2, <2>4, <3>1 DEF MaskLaw
  <2> QED BY <1>3, <1>5, <1>7, <2>1, <2>5
<1>8. CASE ~(m > n)
  <2>1. DesiredState(st, m) = [replayMask |-> st.replayMask \cup {n - m}, messageNumber |-> n]
    BY <1>8 DEF DesiredState
  <2>2. n - m \in Bits
    BY <1>1, <1>3, <1>8 DEF Bits
  <2>4. ASSUME NEW k \in MessageNumbers, k > n - Window
        PROVE  next[k] > 0 <=> n - k \in st.replayMask \cup {n - m}
    <3>1. k \in Int
      BY DEF MessageNumbers
    <3>2. CASE k = m
      BY <3>2, <1>6
    <3>3. CASE k # m
      <4>1. n - k # n - m
        BY <3>1, <3>3, <1>1
      <4> QED BY <3>3, <4>1, <1>6, <2>4 DEF MaskLaw
    <3> QED BY <3>2, <3>3
  <2>5. MaskLaw(DesiredState(st, m), next)
    BY <1>4, <2>1, <2>2, <2>4 DEF MaskLaw
  <2> QED BY <1>3, <1>5, <1>8, <2>1, <2>5
<1> QED BY <1>7, <1>8

(* What a step can do to the state the threads agree on.                   *)
Quiet == LogicalState' = LogicalState /\ accepts' = accepts /\ live' = live

Accepting(m) ==
  /\ live /\ live'
  /\ ~IsReplay(LogicalState, m)
  /\ LogicalState' = DesiredState(LogicalState, m)
  /\ accepts' = [accepts EXCEPT ![m] = @ + 1]

Opening ==
  /\ ~live /\ live'
  /\ LogicalState' = [replayMask |-> {}, messageNumber |-> Window]
  /\ accepts' = accepts

Closing == live /\ ~live' /\ accepts' = [m \in MessageNumbers |-> 0]

StepKind == Quiet \/ Opening \/ Closing \/ \E m \in MessageNumbers : Accepting(m)

(* The parts of the invariant that are about threads, not about numbers.   *)
ThreadInv == TypeOK /\ CallLaw /\ StoreLaw /\ CasLaw

OthersKept(t) ==
  \A u \in Threads \ {t} : /\ pc'[u] = pc[u]
                           /\ msg'[u] = msg[u]
                           /\ expected'[u] = expected[u]
                           /\ desired'[u] = desired[u]
                           /\ todo'[u] = todo[u]

(* Two threads are never storing at once, and the one that is owns the     *)
(* mutex.                                                                  *)
LEMMA LogicalWhileStoring ==
  ASSUME TypeOK, CallLaw, NEW t \in Threads, pc[t] = "store"
  PROVE  LogicalState = desired[t] /\ owner = t /\ \A u \in Threads \ {t} : pc[u] # "store"
BY ReceiverAssumption DEF CallLaw, LogicalState, Nobody

(* With no store in progress the logical state is what is in memory.       *)
LEMMA LogicalOtherwise ==
  ASSUME TypeOK, \A t \in Threads : pc[t] # "store"
  PROVE  LogicalState = State
BY DEF LogicalState, TypeOK, ThreadTypeOK

(* The session's state is a replay state, whichever way it is looked at.   *)
LEMMA LogicalType ==
  ASSUME TypeOK, CallLaw
  PROVE  LogicalState \in ReplayStates
BY DEF LogicalState, TypeOK, ThreadTypeOK

(* A step of a thread outside the mutex that leaves the session alone.     *)
LEMMA LocalStep ==
  ASSUME ThreadInv, NEW t \in Threads, owner # t, OthersKept(t), TypeOK',
         UNCHANGED <<build, live, replayMask, messageNumber, owner, accepts>>,
         pc'[t] \notin {"compute", "store", "release"},
         pc'[t] # "idle" => live /\ msg'[t] \in MessageNumbers,
         pc'[t] \in {"check", "acquire"} => UseMutex,
         pc'[t] \in {"read", "cas"} => ~UseMutex,
         pc'[t] = "cas" => \/ expected'[t].messageNumber = 0
                           \/ /\ ~IsReplay(expected'[t], msg'[t])
                              /\ desired'[t] = DesiredState(expected'[t], msg'[t])
  PROVE  ThreadInv' /\ Quiet
<1> USE DEF ThreadInv
<1>1. CallLaw'
  BY DEF CallLaw, OthersKept, UseMutex
<1>2. StoreLaw'
  BY DEF StoreLaw, OthersKept
<1>3. CasLaw'
  <2> SUFFICES ASSUME NEW u \in Threads, pc'[u] = "cas"
               PROVE  \/ expected'[u].messageNumber = 0
                      \/ /\ ~IsReplay(expected'[u], msg'[u])
                         /\ desired'[u] = DesiredState(expected'[u], msg'[u])
    BY DEF CasLaw, IsReplay, Behind, DesiredState, ShiftLeft, Bits
  <2>1. CASE u = t
    BY <2>1
  <2>2. CASE u # t
    BY <2>2 DEF CasLaw, OthersKept
  <2> QED BY <2>1, <2>2
<1>4. LogicalState' = LogicalState
  <2>1. CASE owner = Nobody
    BY <2>1 DEF LogicalState, State
  <2>2. CASE owner # Nobody
    <3>1. owner \in Threads \ {t}
      BY <2>2 DEF TypeOK, ThreadTypeOK
    <3> QED BY <3>1 DEF LogicalState, State, OthersKept
  <2> QED BY <2>1, <2>2
<1> QED BY <1>1, <1>2, <1>3, <1>4 DEF Quiet

(* Every exit of a call outside the mutex is such a step.                  *)
LEMMA ReturnStep ==
  ASSUME ThreadInv, NEW t \in Threads, owner # t, NEW status \in Results, Return(t, status),
         UNCHANGED <<build, live, replayMask, messageNumber, pMutex, owner, accepts>>
  PROVE  ThreadInv' /\ Quiet
<1> USE DEF ThreadInv
<1>1. Blank \in ReplayStates
  BY DEF Blank, ReplayStates
<1>2. TypeOK'
  <2>1. SessionTypeOK'
    BY DEF TypeOK, SessionTypeOK
  <2>2. State' = State
    BY DEF State
  <2>3. ThreadTypeOK'
    BY <1>1, <2>2, ReceiverAssumption DEF TypeOK, ThreadTypeOK, Return
  <2> QED BY <2>1, <2>3 DEF TypeOK
<1>3. pc'[t] = "idle" /\ OthersKept(t)
  BY DEF Return, TypeOK, ThreadTypeOK, OthersKept
<1>4. /\ pc'[t] \notin {"compute", "store", "release"}
      /\ pc'[t] # "idle" => live /\ msg'[t] \in MessageNumbers
      /\ pc'[t] \in {"check", "acquire"} => UseMutex
      /\ pc'[t] \in {"read", "cas"} => ~UseMutex
      /\ pc'[t] = "cas" => \/ expected'[t].messageNumber = 0
                           \/ /\ ~IsReplay(expected'[t], msg'[t])
                              /\ desired'[t] = DesiredState(expected'[t], msg'[t])
  BY <1>3
<1> HIDE DEF ThreadInv
<1> QED BY <1>2, <1>3, <1>4, LocalStep

(* Half of one number and half of another make a number.                   *)
LEMMA MixedHalvesType ==
  ASSUME NEW a \in Nat, NEW b \in Nat
  PROVE  MixedHalves(a, b) \in Nat
<1>1. Half \in Nat /\ Half > 0
  BY ReceiverAssumption
<1>2. a \div Half \in Nat /\ b % Half \in Nat
  BY <1>1
<1>3. \A x, y \in Nat : x * y \in Nat
  OBVIOUS
<1>4. (a \div Half) * Half \in Nat
  BY <1>1, <1>2, <1>3
<1> QED BY <1>2, <1>4 DEF MixedHalves

(* The type invariant is kept by every step.                               *)
LEMMA ReceiverTypes ==
  ASSUME TypeOK, CallLaw, Next
  PROVE  TypeOK'
<1> USE DEF TypeOK
<1>a. /\ Blank \in ReplayStates
      /\ 0 \in 0 .. MaxMessageNumber
      /\ MessageNumbers \subseteq 0 .. MaxMessageNumber
      /\ Window \in Nat
      /\ [m \in MessageNumbers |-> 0] \in [MessageNumbers -> Nat]
  BY ReceiverAssumption DEF Blank, ReplayStates, MessageNumbers
<1>b. replayMask \in SUBSET Int /\ messageNumber \in Nat /\ State \in ReplayStates
  BY DEF ThreadTypeOK, State, ReplayStates
<1>c. (replayMask' \in SUBSET Int /\ messageNumber' \in Nat) => State' \in ReplayStates
  BY DEF State, ReplayStates
<1>1. CASE ReceiverInit
  <2>1. SessionTypeOK'
    BY <1>1 DEF ReceiverInit, UseMutex, SessionTypeOK
  <2>2. ThreadTypeOK'
    BY <1>1, <1>a, <1>c DEF ReceiverInit, ThreadTypeOK, locals
  <2> QED BY <2>1, <2>2
<1>2. CASE Destroy
  <2>1. SessionTypeOK'
    BY <1>2 DEF Destroy, SessionTypeOK
  <2>2. ThreadTypeOK'
    BY <1>2, <1>a, <1>c DEF Destroy, ThreadTypeOK, locals
  <2> QED BY <2>1, <2>2
<1>3. UNCHANGED <<build, live, pMutex>> => SessionTypeOK'
  BY DEF SessionTypeOK
<1>4. ASSUME NEW t \in Threads, NEW status \in Results, Return(t, status),
             owner' \in Threads \cup {Nobody}, accepts' \in [MessageNumbers -> Nat], State' \in ReplayStates
      PROVE  ThreadTypeOK'
  BY <1>4, <1>a DEF ThreadTypeOK, Return
<1>5. ASSUME NEW t \in Threads, ReceiverInitFails(t)
      PROVE  TypeOK'
  <2>1. State' = State
    BY <1>5 DEF ReceiverInitFails, replayState, State
  <2>2. ThreadTypeOK'
    BY <1>5, <1>b, <2>1 DEF ReceiverInitFails, ThreadTypeOK, Results
  <2> QED BY <1>5, <1>3, <2>2 DEF ReceiverInitFails
<1>6. ASSUME NEW t \in Threads, EncryptRefused(t)
      PROVE  TypeOK'
  <2>1. State' = State
    BY <1>6 DEF EncryptRefused, replayState, State
  <2>2. ThreadTypeOK'
    BY <1>6, <1>b, <2>1 DEF EncryptRefused, ThreadTypeOK, Results
  <2> QED BY <1>6, <1>3, <2>2 DEF EncryptRefused
<1>7. ASSUME NEW t \in Threads, NEW m \in 0 .. MaxMessageNumber + 1, BeginDecrypt(t, m)
      PROVE  TypeOK'
  <2>1. State' = State /\ UNCHANGED <<build, live, pMutex>> /\ owner' = owner /\ accepts' = accepts
    BY <1>7 DEF BeginDecrypt, replayState, State
  <2>2. ASSUME m = 0 \/ m > MaxMessageNumber
        PROVE  ThreadTypeOK'
    BY <1>7, <2>1, <2>2, <1>4, <1>b DEF BeginDecrypt, ThreadTypeOK, Results
  <2>3. ASSUME ~(m = 0 \/ m > MaxMessageNumber)
        PROVE  ThreadTypeOK'
    <3>1. m \in 0 .. MaxMessageNumber
      BY <2>3, ReceiverAssumption
    <3> QED BY <1>7, <2>1, <2>3, <3>1, <1>b DEF BeginDecrypt, ThreadTypeOK, Results
  <2>9. ThreadTypeOK'
    BY <2>2, <2>3
  <2> QED BY <2>1, <1>3, <2>9
<1>8. ASSUME NEW t \in Threads, EarlyCheck(t)
      PROVE  TypeOK'
  <2>1. State' = State /\ UNCHANGED <<build, live, pMutex>> /\ owner' = owner /\ accepts' = accepts
    BY <1>8 DEF EarlyCheck, replayState, State
  <2>2. ASSUME TooLate(msg[t])
        PROVE  ThreadTypeOK'
    BY <1>8, <2>1, <2>2, <1>4, <1>b DEF EarlyCheck, ThreadTypeOK, Results
  <2>3. ASSUME ~(TooLate(msg[t]))
        PROVE  ThreadTypeOK'
    BY <1>8, <2>1, <2>3, <1>b DEF EarlyCheck, ThreadTypeOK, locals
  <2>9. ThreadTypeOK'
    BY <2>2, <2>3
  <2> QED BY <2>1, <1>3, <2>9
<1>9. ASSUME NEW t \in Threads, AuthFails(t)
      PROVE  TypeOK'
  <2>1. State' = State /\ UNCHANGED <<build, live, pMutex>> /\ owner' = owner /\ accepts' = accepts
    BY <1>9 DEF AuthFails, replayState, State
  <2>9. ThreadTypeOK'
    BY <1>9, <2>1, <1>4, <1>b DEF AuthFails, ThreadTypeOK, Results
  <2> QED BY <2>1, <1>3, <2>9
<1>10. ASSUME NEW t \in Threads, AuthSucceeds(t)
      PROVE  TypeOK'
  <2>1. State' = State /\ UNCHANGED <<build, live, pMutex>> /\ owner' = owner /\ accepts' = accepts
    BY <1>10 DEF AuthSucceeds, replayState, State
  <2>9. ThreadTypeOK'
    BY <1>10, <2>1, <1>b DEF AuthSucceeds, ThreadTypeOK
  <2> QED BY <2>1, <1>3, <2>9
<1>11. ASSUME NEW t \in Threads, NEW word \in {"mask", "number"}, ReadWord(t, word)
      PROVE  TypeOK'
  <2>1. State' = State /\ UNCHANGED <<build, live, pMutex>> /\ owner' = owner /\ accepts' = accepts
    BY <1>11 DEF ReadWord, replayState, State
  <2>2. expected' \in [Threads -> ReplayStates]
    BY <1>11, <1>b DEF ReadWord, ThreadTypeOK, ReplayStates
  <2>9. ThreadTypeOK'
    BY <1>11, <2>1, <2>2, <1>b DEF ReadWord, ThreadTypeOK
  <2> QED BY <2>1, <1>3, <2>9
<1>12. ASSUME NEW t \in Threads, Guess(t)
      PROVE  TypeOK'
  <2>1. State' = State /\ UNCHANGED <<build, live, pMutex>> /\ owner' = owner /\ accepts' = accepts
    BY <1>12 DEF Guess, replayState, State
  <2>2. msg[t] \in MessageNumbers /\ expected[t] \in ReplayStates
    BY <1>12 DEF Guess, CallLaw, ThreadTypeOK
  <2>3. DesiredState(expected[t], msg[t]) \in ReplayStates
    BY <2>2, DesiredStateType
  <2>4. expected' \in [Threads -> ReplayStates] /\ desired' \in [Threads -> ReplayStates]
    <3>1. [expected EXCEPT ![t].messageNumber = 0] \in [Threads -> ReplayStates]
      BY <2>2 DEF ThreadTypeOK, ReplayStates
    <3> QED BY <1>12, <2>3, <3>1 DEF Guess, ThreadTypeOK
  <2>9. ThreadTypeOK'
    BY <1>12, <2>1, <2>4, <1>b DEF Guess, ThreadTypeOK
  <2> QED BY <2>1, <1>3, <2>9
<1>13. ASSUME NEW t \in Threads, CasSucceeds(t)
      PROVE  TypeOK'
  <2>1. msg[t] \in MessageNumbers /\ desired[t] \in ReplayStates /\ UNCHANGED <<build, live, pMutex, owner>>
    BY <1>13 DEF CasSucceeds, CallLaw, ThreadTypeOK
  <2>2. State' \in ReplayStates
    BY <1>13, <2>1, <1>c DEF CasSucceeds, ReplayStates
  <2>3. accepts' \in [MessageNumbers -> Nat]
    BY <1>13, <2>1 DEF CasSucceeds, ThreadTypeOK
  <2>4. Return(t, "NO_ERROR") /\ "NO_ERROR" \in Results /\ owner' \in Threads \cup {Nobody}
    BY <1>13, <2>1 DEF CasSucceeds, Results, ThreadTypeOK
  <2>9. ThreadTypeOK'
    BY <2>2, <2>3, <2>4, <1>4
  <2> QED BY <2>1, <1>3, <2>9
<1>14. ASSUME NEW t \in Threads, CasFails(t)
      PROVE  TypeOK'
  <2>1. State' = State /\ UNCHANGED <<build, live, pMutex>> /\ owner' = owner /\ accepts' = accepts
    BY <1>14 DEF CasFails, replayState, State
  <2>2. ASSUME IsReplay(State, msg[t])
        PROVE  ThreadTypeOK'
    BY <1>14, <2>1, <2>2, <1>4, <1>b DEF CasFails, ThreadTypeOK, Results
  <2>3. ASSUME ~IsReplay(State, msg[t])
        PROVE  ThreadTypeOK'
    <3>1. msg[t] \in MessageNumbers
      BY <1>14 DEF CasFails, CallLaw
    <3>2. DesiredState(State, msg[t]) \in ReplayStates
      BY <3>1, <1>b, DesiredStateType
    <3> QED BY <1>14, <2>1, <2>3, <3>2, <1>b DEF CasFails, ThreadTypeOK
  <2>9. ThreadTypeOK'
    BY <2>2, <2>3
  <2> QED BY <2>1, <1>3, <2>9
<1>15. ASSUME NEW t \in Threads, CheckAgain(t)
      PROVE  TypeOK'
  <2>1. State' = State /\ UNCHANGED <<build, live, pMutex>> /\ owner' = owner /\ accepts' = accepts
    BY <1>15 DEF CheckAgain, replayState, State
  <2>2. ASSUME ~pMutex \/ TooLate(msg[t])
        PROVE  ThreadTypeOK'
    <3>1. (IF pMutex THEN "REPLAY_FAILURE" ELSE "INVALID_ARGUMENT") \in Results
      BY DEF Results
    <3>2. Return(t, IF pMutex THEN "REPLAY_FAILURE" ELSE "INVALID_ARGUMENT")
      BY <1>15, <2>2 DEF CheckAgain
    <3>3. State' \in ReplayStates /\ owner' \in Threads \cup {Nobody} /\ accepts' \in [MessageNumbers -> Nat]
      BY <2>1, <1>b DEF ThreadTypeOK
    <3> QED BY <3>1, <3>2, <3>3, <1>4
  <2>3. ASSUME ~(~pMutex \/ TooLate(msg[t]))
        PROVE  ThreadTypeOK'
    BY <1>15, <2>1, <2>3, <1>b DEF CheckAgain, ThreadTypeOK, locals
  <2>9. ThreadTypeOK'
    BY <2>2, <2>3
  <2> QED BY <2>1, <1>3, <2>9
<1>16. ASSUME NEW t \in Threads, AcquireMutex(t)
      PROVE  TypeOK'
  <2>1. State' = State /\ UNCHANGED <<build, live, pMutex>>
    BY <1>16 DEF AcquireMutex, replayState, State
  <2>9. ThreadTypeOK'
    BY <1>16, <2>1, <1>b DEF AcquireMutex, ThreadTypeOK, locals
  <2> QED BY <2>1, <1>3, <2>9
<1>17. ASSUME NEW t \in Threads, ComputeUnderMutex(t)
      PROVE  TypeOK'
  <2>1. State' = State /\ UNCHANGED <<build, live, pMutex>>
    BY <1>17 DEF ComputeUnderMutex, replayState, State
  <2>2. msg[t] \in MessageNumbers
    BY <1>17 DEF ComputeUnderMutex, CallLaw
  <2>3. DesiredState(State, msg[t]) \in ReplayStates
    BY <2>2, <1>b, DesiredStateType
  <2>4. accepts' \in [MessageNumbers -> Nat]
    BY <1>17, <2>2 DEF ComputeUnderMutex, ThreadTypeOK
  <2>9. ThreadTypeOK'
    BY <1>17, <2>1, <2>3, <2>4, <1>b DEF ComputeUnderMutex, ThreadTypeOK, Results
  <2> QED BY <2>1, <1>3, <2>9
<1>18. ASSUME NEW t \in Threads, StoreMask(t)
      PROVE  TypeOK'
  <2>0. desired[t] \in ReplayStates
    BY DEF ThreadTypeOK
  <2>2. replayMask' \in SUBSET Int /\ messageNumber' \in Nat
    BY <1>18, <1>b, <2>0 DEF StoreMask, ReplayStates
  <2>1. UNCHANGED <<build, live, pMutex>>
    BY <1>18 DEF StoreMask
  <2>3. State' \in ReplayStates
    BY <2>2, <1>c
  <2>9. ThreadTypeOK'
    BY <1>18, <2>3 DEF StoreMask, ThreadTypeOK
  <2> QED BY <2>1, <1>3, <2>9
<1>19. ASSUME NEW t \in Threads, StoreHalf(t)
      PROVE  TypeOK'
  <2>0. desired[t] \in ReplayStates /\ desired[t].messageNumber \in Nat
    BY DEF ThreadTypeOK, ReplayStates
  <2>2. replayMask' \in SUBSET Int /\ messageNumber' \in Nat
    <3>1. MixedHalves(desired[t].messageNumber, messageNumber) \in Nat
      BY <2>0, <1>b, MixedHalvesType
    <3>2. MixedHalves(messageNumber, desired[t].messageNumber) \in Nat
      BY <2>0, <1>b, MixedHalvesType
    <3> QED BY <1>19, <1>b, <3>1, <3>2 DEF StoreHalf
  <2>1. UNCHANGED <<build, live, pMutex>>
    BY <1>19 DEF StoreHalf
  <2>3. State' \in ReplayStates
    BY <2>2, <1>c
  <2>9. ThreadTypeOK'
    BY <1>19, <2>3 DEF StoreHalf, ThreadTypeOK
  <2> QED BY <2>1, <1>3, <2>9
<1>20. ASSUME NEW t \in Threads, StoreNumber(t)
      PROVE  TypeOK'
  <2>0. desired[t] \in ReplayStates
    BY DEF ThreadTypeOK
  <2>2. replayMask' \in SUBSET Int /\ messageNumber' \in Nat
    BY <1>20, <1>b, <2>0 DEF StoreNumber, ReplayStates
  <2>1. UNCHANGED <<build, live, pMutex>>
    BY <1>20 DEF StoreNumber
  <2>3. State' \in ReplayStates
    BY <2>2, <1>c
  <2>9. ThreadTypeOK'
    BY <1>20, <2>3 DEF StoreNumber, ThreadTypeOK
  <2> QED BY <2>1, <1>3, <2>9
<1>21. ASSUME NEW t \in Threads, ReleaseMutex(t)
      PROVE  TypeOK'
  <2>1. State' = State /\ UNCHANGED <<build, live, pMutex>>
    BY <1>21 DEF ReleaseMutex, replayState, State
  <2>2. Return(t, result[t]) /\ result[t] \in Results /\ owner' \in Threads \cup {Nobody}
        /\ accepts' \in [MessageNumbers -> Nat]
    BY <1>21 DEF ReleaseMutex, ThreadTypeOK
  <2>9. ThreadTypeOK'
    BY <2>1, <2>2, <1>b, <1>4
  <2> QED BY <2>1, <1>3, <2>9
<1> QED BY <1>1, <1>2, <1>5, <1>6, <1>7, <1>8, <1>9, <1>10, <1>11, <1>12, <1>13, <1>14, <1>15, <1>16, <1>17, <1>18, <1>19, <1>20, <1>21 DEF Next, Continue, CasPath, LockPath

(* Outside the mutex nobody else's step can tell the threads apart.        *)
LEMMA NotOwner ==
  ASSUME CallLaw, NEW t \in Threads, pc[t] \notin {"compute", "store", "release"}
  PROVE  owner # t
BY DEF CallLaw

(* Every step keeps the threads' laws, and does to the state the threads   *)
(* agree on one of the things StepKind lists.                              *)
LEMMA ReceiverSteps ==
  ASSUME ReceiverInv, Next
  PROVE  ThreadInv' /\ StepKind
<1> USE DEF ReceiverInv
<1>a. TypeOK'
  BY ReceiverTypes
<1>b. ThreadInv
  BY DEF ThreadInv
<1>c. \A t \in Threads : pc[t] \in {"cas", "read"} => \A u \in Threads : pc[u] # "store"
  BY DEF CallLaw
<1>0. Quiet => StepKind
  BY DEF StepKind
<1>1. ASSUME ReceiverInit
      PROVE  ThreadInv' /\ StepKind
  <2>1. \A t \in Threads : pc[t] = "idle"
    BY <1>1 DEF ReceiverInit, CallLaw
  <2>2. CallLaw'
    BY <1>1 DEF ReceiverInit, CallLaw, locals
  <2>3. StoreLaw' /\ CasLaw'
    BY <1>1, <2>1 DEF ReceiverInit, StoreLaw, CasLaw
  <2>4. LogicalState' = [replayMask |-> {}, messageNumber |-> Window]
    <3>1. owner' \in Threads => pc'[owner'] # "store"
      BY <1>1, <2>1 DEF ReceiverInit
    <3> QED BY <1>1, <1>a, <3>1 DEF ReceiverInit, LogicalState, State, TypeOK, ThreadTypeOK
  <2>5. Opening
    BY <1>1, <2>4 DEF Opening, ReceiverInit
  <2> QED BY <1>a, <2>2, <2>3, <2>5 DEF StepKind, ThreadInv
<1>2. ASSUME Destroy
      PROVE  ThreadInv' /\ StepKind
  <2>1. \A t \in Threads : pc'[t] = "idle" /\ pc[t] = "idle" /\ owner' # t
    BY <1>2 DEF Destroy, Idle, CallLaw
  <2>2. CallLaw'
    BY <1>2, <2>1 DEF Destroy, CallLaw
  <2>3. StoreLaw' /\ CasLaw'
    BY <2>1 DEF StoreLaw, CasLaw
  <2>4. Closing
    BY <1>2 DEF Closing, Destroy
  <2> QED BY <1>a, <2>2, <2>3, <2>4 DEF StepKind, ThreadInv
<1>3. ASSUME NEW t \in Threads, ReceiverInitFails(t)
      PROVE  ThreadInv' /\ StepKind
  <2>1. UNCHANGED <<build, live, replayMask, messageNumber, pMutex, owner, pc, msg, expected, desired, todo, accepts>>
    BY <1>3 DEF ReceiverInitFails, replayState
  <2>2. CallLaw' /\ StoreLaw'
    BY <2>1 DEF CallLaw, StoreLaw, UseMutex
  <2>3. CasLaw'
    BY <2>1 DEF CasLaw
  <2>4. Quiet
    BY <2>1 DEF Quiet, LogicalState, State
  <2> QED BY <1>a, <1>0, <2>2, <2>3, <2>4 DEF ThreadInv
<1>4. ASSUME NEW t \in Threads, EncryptRefused(t)
      PROVE  ThreadInv' /\ StepKind
  <2>1. UNCHANGED <<build, live, replayMask, messageNumber, pMutex, owner, pc, msg, expected, desired, todo, accepts>>
    BY <1>4 DEF EncryptRefused, replayState
  <2>2. CallLaw' /\ StoreLaw'
    BY <2>1 DEF CallLaw, StoreLaw, UseMutex
  <2>3. CasLaw'
    BY <2>1 DEF CasLaw
  <2>4. Quiet
    BY <2>1 DEF Quiet, LogicalState, State
  <2> QED BY <1>a, <1>0, <2>2, <2>3, <2>4 DEF ThreadInv
<1>5. ASSUME NEW t \in Threads, NEW m \in 0 .. MaxMessageNumber + 1, BeginDecrypt(t, m)
      PROVE  ThreadInv' /\ StepKind
  <2>1. UNCHANGED <<build, live, replayMask, messageNumber, pMutex, owner, accepts>>
    BY <1>5 DEF BeginDecrypt, replayState
  <2>2. owner # t
    BY <1>5, NotOwner DEF BeginDecrypt
  <2>3. ASSUME m = 0 \/ m > MaxMessageNumber
        PROVE  ThreadInv' /\ StepKind
    <3>1. Return(t, "INVALID_ARGUMENT") /\ "INVALID_ARGUMENT" \in Results
      BY <1>5, <2>3 DEF BeginDecrypt, Results
    <3> QED BY <1>b, <1>0, <2>1, <2>2, <3>1, ReturnStep
  <2>4. ASSUME ~(m = 0 \/ m > MaxMessageNumber)
        PROVE  ThreadInv' /\ StepKind
    <3>0. m \in MessageNumbers
      BY <2>4, ReceiverAssumption DEF MessageNumbers
    <3>1. OthersKept(t) /\ pc'[t] = "early"
      BY <1>5, <2>4 DEF BeginDecrypt, OthersKept, TypeOK, ThreadTypeOK, locals
    <3>2. /\ pc'[t] \notin {"compute", "store", "release"}
          /\ pc'[t] # "idle" => live /\ msg'[t] \in MessageNumbers
          /\ pc'[t] \in {"check", "acquire"} => UseMutex
          /\ pc'[t] \in {"read", "cas"} => ~UseMutex
      BY <1>5, <3>0, <3>1, <2>4 DEF BeginDecrypt, CallLaw, TypeOK, ThreadTypeOK, locals
    <3>3. pc'[t] = "cas" => \/ expected'[t].messageNumber = 0
                            \/ /\ ~IsReplay(expected'[t], msg'[t])
                               /\ desired'[t] = DesiredState(expected'[t], msg'[t])
      BY <3>1
    <3> QED BY <1>a, <1>b, <1>0, <2>1, <2>2, <3>1, <3>2, <3>3, LocalStep
  <2> QED BY <2>3, <2>4
<1>6. ASSUME NEW t \in Threads, EarlyCheck(t)
      PROVE  ThreadInv' /\ StepKind
  <2>1. UNCHANGED <<build, live, replayMask, messageNumber, pMutex, owner, accepts>>
    BY <1>6 DEF EarlyCheck, replayState
  <2>2. owner # t
    BY <1>6, NotOwner DEF EarlyCheck
  <2>3. ASSUME TooLate(msg[t])
        PROVE  ThreadInv' /\ StepKind
    <3>1. Return(t, "REPLAY_FAILURE") /\ "REPLAY_FAILURE" \in Results
      BY <1>6, <2>3 DEF EarlyCheck, Results
    <3> QED BY <1>b, <1>0, <2>1, <2>2, <3>1, ReturnStep
  <2>4. ASSUME ~(TooLate(msg[t]))
        PROVE  ThreadInv' /\ StepKind
    <3>1. OthersKept(t) /\ pc'[t] = "decrypt"
      BY <1>6, <2>4 DEF EarlyCheck, OthersKept, TypeOK, ThreadTypeOK, locals
    <3>2. /\ pc'[t] \notin {"compute", "store", "release"}
          /\ pc'[t] # "idle" => live /\ msg'[t] \in MessageNumbers
          /\ pc'[t] \in {"check", "acquire"} => UseMutex
          /\ pc'[t] \in {"read", "cas"} => ~UseMutex
      BY <1>6, <3>1, <2>4 DEF EarlyCheck, CallLaw, MessageNumbers, TypeOK, ThreadTypeOK, locals
    <3>3. pc'[t] = "cas" => \/ expected'[t].messageNumber = 0
                            \/ /\ ~IsReplay(expected'[t], msg'[t])
                               /\ desired'[t] = DesiredState(expected'[t], msg'[t])
      BY <3>1
    <3> QED BY <1>a, <1>b, <1>0, <2>1, <2>2, <3>1, <3>2, <3>3, LocalStep
  <2> QED BY <2>3, <2>4
<1>7. ASSUME NEW t \in Threads, AuthFails(t)
      PROVE  ThreadInv' /\ StepKind
  <2>1. UNCHANGED <<build, live, replayMask, messageNumber, pMutex, owner, accepts>>
    BY <1>7 DEF AuthFails, replayState
  <2>2. owner # t
    BY <1>7, NotOwner DEF AuthFails
  <2>3. ThreadInv' /\ StepKind
    <3>1. Return(t, "AUTHENTICATION_FAILURE") /\ "AUTHENTICATION_FAILURE" \in Results
      BY <1>7 DEF AuthFails, Results
    <3> QED BY <1>b, <1>0, <2>1, <2>2, <3>1, ReturnStep
  <2> QED BY <2>3
<1>8. ASSUME NEW t \in Threads, AuthSucceeds(t)
      PROVE  ThreadInv' /\ StepKind
  <2>1. UNCHANGED <<build, live, replayMask, messageNumber, pMutex, owner, accepts>>
    BY <1>8 DEF AuthSucceeds, replayState
  <2>2. owner # t
    BY <1>8, NotOwner DEF AuthSucceeds
  <2>3. ThreadInv' /\ StepKind
    <3>1. OthersKept(t) /\ pc'[t] = IF UseMutex THEN "check" ELSE "read"
      BY <1>8 DEF AuthSucceeds, OthersKept, TypeOK, ThreadTypeOK, locals
    <3>2. /\ pc'[t] \notin {"compute", "store", "release"}
          /\ pc'[t] # "idle" => live /\ msg'[t] \in MessageNumbers
          /\ pc'[t] \in {"check", "acquire"} => UseMutex
          /\ pc'[t] \in {"read", "cas"} => ~UseMutex
      BY <1>8, <3>1 DEF AuthSucceeds, CallLaw, MessageNumbers, TypeOK, ThreadTypeOK, locals
    <3>3. pc'[t] = "cas" => \/ expected'[t].messageNumber = 0
                            \/ /\ ~IsReplay(expected'[t], msg'[t])
                               /\ desired'[t] = DesiredState(expected'[t], msg'[t])
      BY <3>1
    <3> QED BY <1>a, <1>b, <1>0, <2>1, <2>2, <3>1, <3>2, <3>3, LocalStep
  <2> QED BY <2>3
<1>9. ASSUME NEW t \in Threads, NEW word \in {"mask", "number"}, ReadWord(t, word)
      PROVE  ThreadInv' /\ StepKind
  <2>1. UNCHANGED <<build, live, replayMask, messageNumber, pMutex, owner, accepts>>
    BY <1>9 DEF ReadWord, replayState
  <2>2. owner # t
    BY <1>9, NotOwner DEF ReadWord
  <2>3. ThreadInv' /\ StepKind
    <3>1. OthersKept(t) /\ pc'[t] = "read"
      BY <1>9 DEF ReadWord, OthersKept, TypeOK, ThreadTypeOK, locals
    <3>2. /\ pc'[t] \notin {"compute", "store", "release"}
          /\ pc'[t] # "idle" => live /\ msg'[t] \in MessageNumbers
          /\ pc'[t] \in {"check", "acquire"} => UseMutex
          /\ pc'[t] \in {"read", "cas"} => ~UseMutex
      BY <1>9, <3>1 DEF ReadWord, CallLaw, MessageNumbers, TypeOK, ThreadTypeOK, locals
    <3>3. pc'[t] = "cas" => \/ expected'[t].messageNumber = 0
                            \/ /\ ~IsReplay(expected'[t], msg'[t])
                               /\ desired'[t] = DesiredState(expected'[t], msg'[t])
      BY <3>1
    <3> QED BY <1>a, <1>b, <1>0, <2>1, <2>2, <3>1, <3>2, <3>3, LocalStep
  <2> QED BY <2>3
<1>10. ASSUME NEW t \in Threads, Guess(t)
      PROVE  ThreadInv' /\ StepKind
  <2>1. UNCHANGED <<build, live, replayMask, messageNumber, pMutex, owner, accepts>>
    BY <1>10 DEF Guess, replayState
  <2>2. owner # t
    BY <1>10, NotOwner DEF Guess
  <2>3. ThreadInv' /\ StepKind
    <3>1. OthersKept(t) /\ pc'[t] = "cas"
      BY <1>10 DEF Guess, OthersKept, TypeOK, ThreadTypeOK, locals
    <3>2. /\ pc'[t] \notin {"compute", "store", "release"}
          /\ pc'[t] # "idle" => live /\ msg'[t] \in MessageNumbers
          /\ pc'[t] \in {"check", "acquire"} => UseMutex
          /\ pc'[t] \in {"read", "cas"} => ~UseMutex
      BY <1>10, <3>1 DEF Guess, CallLaw, MessageNumbers, TypeOK, ThreadTypeOK, locals
    <3>3. pc'[t] = "cas" => \/ expected'[t].messageNumber = 0
                            \/ /\ ~IsReplay(expected'[t], msg'[t])
                               /\ desired'[t] = DesiredState(expected'[t], msg'[t])
      BY <1>10 DEF Guess, TypeOK, ThreadTypeOK, ReplayStates
    <3> QED BY <1>a, <1>b, <1>0, <2>1, <2>2, <3>1, <3>2, <3>3, LocalStep
  <2> QED BY <2>3
<1>11. ASSUME NEW t \in Threads, CasFails(t)
      PROVE  ThreadInv' /\ StepKind
  <2>1. UNCHANGED <<build, live, replayMask, messageNumber, pMutex, owner, accepts>>
    BY <1>11 DEF CasFails, replayState
  <2>2. owner # t
    BY <1>11, NotOwner DEF CasFails
  <2>3. ASSUME IsReplay(State, msg[t])
        PROVE  ThreadInv' /\ StepKind
    <3>1. Return(t, "REPLAY_FAILURE") /\ "REPLAY_FAILURE" \in Results
      BY <1>11, <2>3 DEF CasFails, Results
    <3> QED BY <1>b, <1>0, <2>1, <2>2, <3>1, ReturnStep
  <2>4. ASSUME ~(IsReplay(State, msg[t]))
        PROVE  ThreadInv' /\ StepKind
    <3>1. OthersKept(t) /\ pc'[t] = "cas"
      BY <1>11, <2>4 DEF CasFails, OthersKept, TypeOK, ThreadTypeOK, locals
    <3>2. /\ pc'[t] \notin {"compute", "store", "release"}
          /\ pc'[t] # "idle" => live /\ msg'[t] \in MessageNumbers
          /\ pc'[t] \in {"check", "acquire"} => UseMutex
          /\ pc'[t] \in {"read", "cas"} => ~UseMutex
      BY <1>11, <3>1, <2>4 DEF CasFails, CallLaw, MessageNumbers, TypeOK, ThreadTypeOK, locals
    <3>3. pc'[t] = "cas" => \/ expected'[t].messageNumber = 0
                            \/ /\ ~IsReplay(expected'[t], msg'[t])
                               /\ desired'[t] = DesiredState(expected'[t], msg'[t])
      BY <1>11, <2>4 DEF CasFails, TypeOK, ThreadTypeOK
    <3> QED BY <1>a, <1>b, <1>0, <2>1, <2>2, <3>1, <3>2, <3>3, LocalStep
  <2> QED BY <2>3, <2>4
<1>12. ASSUME NEW t \in Threads, CheckAgain(t)
      PROVE  ThreadInv' /\ StepKind
  <2>1. UNCHANGED <<build, live, replayMask, messageNumber, pMutex, owner, accepts>>
    BY <1>12 DEF CheckAgain, replayState
  <2>2. owner # t
    BY <1>12, NotOwner DEF CheckAgain
  <2>3. ASSUME ~pMutex \/ TooLate(msg[t])
        PROVE  ThreadInv' /\ StepKind
    <3>1. Return(t, (IF pMutex THEN "REPLAY_FAILURE" ELSE "INVALID_ARGUMENT")) /\ (IF pMutex THEN "REPLAY_FAILURE" ELSE "INVALID_ARGUMENT") \in Results
      BY <1>12, <2>3 DEF CheckAgain, Results
    <3> QED BY <1>b, <1>0, <2>1, <2>2, <3>1, ReturnStep
  <2>4. ASSUME ~(~pMutex \/ TooLate(msg[t]))
        PROVE  ThreadInv' /\ StepKind
    <3>1. OthersKept(t) /\ pc'[t] = "acquire"
      BY <1>12, <2>4 DEF CheckAgain, OthersKept, TypeOK, ThreadTypeOK, locals
    <3>2. /\ pc'[t] \notin {"compute", "store", "release"}
          /\ pc'[t] # "idle" => live /\ msg'[t] \in MessageNumbers
          /\ pc'[t] \in {"check", "acquire"} => UseMutex
          /\ pc'[t] \in {"read", "cas"} => ~UseMutex
      BY <1>12, <3>1, <2>4 DEF CheckAgain, CallLaw, MessageNumbers, TypeOK, ThreadTypeOK, locals
    <3>3. pc'[t] = "cas" => \/ expected'[t].messageNumber = 0
                            \/ /\ ~IsReplay(expected'[t], msg'[t])
                               /\ desired'[t] = DesiredState(expected'[t], msg'[t])
      BY <3>1
    <3> QED BY <1>a, <1>b, <1>0, <2>1, <2>2, <3>1, <3>2, <3>3, LocalStep
  <2> QED BY <2>3, <2>4
<1>13. ASSUME NEW t \in Threads, CasSucceeds(t)
      PROVE  ThreadInv' /\ StepKind
  <2>1. /\ live /\ live' /\ owner' = owner /\ ~UseMutex /\ msg[t] \in MessageNumbers
        /\ \A u \in Threads : pc[u] # "store" /\ pc'[u] # "store"
    BY <1>13, <1>c DEF CasSucceeds, CallLaw, Return, TypeOK, ThreadTypeOK
  <2>2. LogicalState = State /\ LogicalState' = State'
    <3>1. \A u \in Threads : pc[u] # "store"
      BY <2>1
    <3>2. LogicalState = State
      BY <3>1, LogicalOtherwise
    <3>3. LogicalState' = State'
      BY <1>a, <2>1 DEF LogicalState, TypeOK, ThreadTypeOK
    <3> QED BY <3>2, <3>3
  <2>3. expected[t].messageNumber # 0
    <3>1. MaskLaw(State, accepts)
      BY <2>1, <2>2 DEF MaskExact
    <3>2. State.messageNumber # 0
      BY <3>1, ReceiverAssumption DEF MaskLaw
    <3> QED BY <1>13, <3>2 DEF CasSucceeds
  <2>4. ~IsReplay(State, msg[t]) /\ desired[t] = DesiredState(State, msg[t])
    BY <1>13, <2>3 DEF CasSucceeds, CasLaw
  <2>5. State' = desired[t]
    <3>1. desired[t] \in ReplayStates
      BY DEF TypeOK, ThreadTypeOK
    <3>2. desired[t] = [replayMask |-> desired[t].replayMask, messageNumber |-> desired[t].messageNumber]
      BY <3>1 DEF ReplayStates
    <3> QED BY <1>13, <3>2 DEF CasSucceeds, State
  <2>6. Accepting(msg[t])
    BY <1>13, <2>1, <2>2, <2>4, <2>5 DEF Accepting, CasSucceeds
  <2>7. CallLaw'
    BY <1>13, <2>1 DEF CallLaw, CasSucceeds, Return, UseMutex, TypeOK, ThreadTypeOK
  <2>8. StoreLaw'
    BY <2>1 DEF StoreLaw
  <2>9. CasLaw'
    <3> SUFFICES ASSUME NEW u \in Threads, pc'[u] = "cas"
                 PROVE  \/ expected'[u].messageNumber = 0
                        \/ /\ ~IsReplay(expected'[u], msg'[u])
                           /\ desired'[u] = DesiredState(expected'[u], msg'[u])
      BY DEF CasLaw, IsReplay, Behind, DesiredState, ShiftLeft, Bits
    <3>1. u # t /\ pc[u] = "cas" /\ expected'[u] = expected[u] /\ msg'[u] = msg[u] /\ desired'[u] = desired[u]
      BY <1>13 DEF CasSucceeds, Return, TypeOK, ThreadTypeOK
    <3> QED BY <3>1 DEF CasLaw
  <2> QED BY <1>a, <2>1, <2>6, <2>7, <2>8, <2>9 DEF StepKind, ThreadInv
<1>14. ASSUME NEW t \in Threads, AcquireMutex(t)
      PROVE  ThreadInv' /\ StepKind
  <2>1. /\ UNCHANGED <<build, live, replayMask, messageNumber, desired, todo, msg, accepts>>
        /\ \A u \in Threads : pc[u] # "store" /\ pc'[u] # "store" /\ (u # t => pc'[u] = pc[u])
        /\ pc'[t] = "compute" /\ owner' = t /\ live /\ msg[t] \in MessageNumbers
    BY <1>14, ReceiverAssumption DEF AcquireMutex, CallLaw, TypeOK, ThreadTypeOK, Nobody, locals, replayState
  <2>2. CallLaw'
    BY <1>14, <2>1, ReceiverAssumption DEF AcquireMutex, CallLaw, TypeOK, ThreadTypeOK, Nobody, UseMutex
  <2>3. StoreLaw'
    BY <2>1 DEF StoreLaw
  <2>4. CasLaw'
    <3>1. \A u \in Threads : pc'[u] # "cas"
      BY <1>14 DEF AcquireMutex, CallLaw, TypeOK, ThreadTypeOK
    <3> QED BY <3>1 DEF CasLaw
  <2>5. Quiet
    BY <2>1, <1>a DEF Quiet, LogicalState, State, TypeOK, ThreadTypeOK
  <2> QED BY <1>a, <1>0, <2>2, <2>3, <2>4, <2>5 DEF ThreadInv
<1>15. ASSUME NEW t \in Threads, ComputeUnderMutex(t)
      PROVE  ThreadInv' /\ StepKind
  <2>1. /\ UNCHANGED <<build, live, replayMask, messageNumber, owner, msg>>
        /\ owner = t /\ t # Nobody /\ live /\ msg[t] \in MessageNumbers
        /\ \A u \in Threads : pc[u] # "store" /\ (u # t => pc'[u] = pc[u] /\ pc'[u] # "store")
    BY <1>15, ReceiverAssumption DEF ComputeUnderMutex, CallLaw, TypeOK, ThreadTypeOK, Nobody, replayState
  <2>2. LogicalState = State
    BY <2>1, LogicalOtherwise
  <2>3. State \in ReplayStates /\ MaskLaw(State, accepts)
    BY <2>1, <2>2 DEF MaskExact, TypeOK, ThreadTypeOK
  <2>4. CasLaw'
    <3>1. \A u \in Threads : pc'[u] # "cas"
      BY <1>15 DEF ComputeUnderMutex, CallLaw, TypeOK, ThreadTypeOK
    <3> QED BY <3>1 DEF CasLaw
  <2>5. CallLaw'
    BY <1>15, <2>1 DEF ComputeUnderMutex, CallLaw, TypeOK, ThreadTypeOK, UseMutex
  <2>6. ASSUME IsReplay(State, msg[t])
        PROVE  ThreadInv' /\ StepKind
    <3>1. pc'[t] = "release" /\ accepts' = accepts
      BY <1>15, <2>6 DEF ComputeUnderMutex, TypeOK, ThreadTypeOK
    <3>2. StoreLaw'
      BY <2>1, <3>1 DEF StoreLaw
    <3>3. Quiet
      BY <2>1, <2>2, <3>1 DEF Quiet, LogicalState, State
    <3> QED BY <1>a, <1>0, <2>4, <2>5, <3>2, <3>3 DEF ThreadInv
  <2>7. ASSUME ~IsReplay(State, msg[t])
        PROVE  ThreadInv' /\ StepKind
    <3>1. /\ pc'[t] = "store" /\ accepts' = [accepts EXCEPT ![msg[t]] = @ + 1]
          /\ desired'[t] = DesiredState(State, msg[t]) /\ todo'[t] = {"mask", "number"}
      BY <1>15, <2>7 DEF ComputeUnderMutex, TypeOK, ThreadTypeOK
    <3>2. LogicalState' = DesiredState(State, msg[t])
      BY <2>1, <3>1 DEF LogicalState
    <3>3. Accepting(msg[t])
      BY <2>1, <2>2, <2>7, <3>1, <3>2 DEF Accepting
    <3>4. StoreLaw'
      <4>1. DesiredState(State, msg[t]).messageNumber =
              IF msg[t] > State.messageNumber THEN msg[t] ELSE State.messageNumber
        BY <2>1, <2>3, <2>7, AcceptKeepsMask DEF TypeOK, ThreadTypeOK
      <4>2. messageNumber \in Window .. desired'[t].messageNumber
        <5>1. State.messageNumber = messageNumber /\ messageNumber \in Window .. MaxMessageNumber
          BY <2>3 DEF State, MaskLaw
        <5>2. msg[t] \in Int /\ messageNumber \in Int /\ Window \in Int
          BY <2>1, <5>1, ReceiverAssumption DEF MessageNumbers
        <5> QED BY <3>1, <4>1, <5>1, <5>2
      <4> QED BY <2>1, <3>1, <4>2 DEF StoreLaw
    <3> QED BY <1>a, <2>1, <2>4, <2>5, <3>3, <3>4 DEF ThreadInv, StepKind
  <2> QED BY <2>6, <2>7
<1>16. ASSUME NEW t \in Threads, StoreMask(t)
      PROVE  ThreadInv' /\ StepKind
  <2>1. /\ UNCHANGED <<build, live, owner, pc, msg, desired, accepts>>
        /\ pc[t] = "store" /\ LogicalState = desired[t] /\ owner = t /\ t # Nobody
        /\ \A u \in Threads : u # t => pc[u] # "store"
    BY <1>16, LogicalWhileStoring, ReceiverAssumption DEF StoreMask, Nobody
  <2>2. CallLaw'
    BY <2>1 DEF CallLaw, UseMutex
  <2>3. CasLaw'
    <3>1. \A u \in Threads : pc'[u] # "cas"
      BY <1>16 DEF StoreMask, CallLaw, TypeOK, ThreadTypeOK
    <3> QED BY <3>1 DEF CasLaw
  <2>4. StoreLaw'
    BY <1>16, <2>1 DEF StoreMask, StoreLaw, TypeOK, ThreadTypeOK
  <2>5. Quiet
    BY <2>1 DEF Quiet, LogicalState
  <2> QED BY <1>a, <1>0, <2>2, <2>3, <2>4, <2>5 DEF ThreadInv
<1>17. ASSUME NEW t \in Threads, StoreHalf(t)
      PROVE  ThreadInv' /\ StepKind
  <2>1. /\ UNCHANGED <<build, live, owner, pc, msg, desired, accepts>>
        /\ pc[t] = "store" /\ LogicalState = desired[t] /\ owner = t /\ t # Nobody
        /\ \A u \in Threads : u # t => pc[u] # "store"
    BY <1>17, LogicalWhileStoring, ReceiverAssumption DEF StoreHalf, Nobody
  <2>2. CallLaw'
    BY <2>1 DEF CallLaw, UseMutex
  <2>3. CasLaw'
    <3>1. \A u \in Threads : pc'[u] # "cas"
      BY <1>17 DEF StoreHalf, CallLaw, TypeOK, ThreadTypeOK
    <3> QED BY <3>1 DEF CasLaw
  <2>4. StoreLaw'
    BY <1>17, <2>1, ReceiverAssumption DEF StoreHalf, StoreLaw, TypeOK, ThreadTypeOK
  <2>5. Quiet
    BY <2>1 DEF Quiet, LogicalState
  <2> QED BY <1>a, <1>0, <2>2, <2>3, <2>4, <2>5 DEF ThreadInv
<1>18. ASSUME NEW t \in Threads, StoreNumber(t)
      PROVE  ThreadInv' /\ StepKind
  <2>1. /\ UNCHANGED <<build, live, owner, pc, msg, desired, accepts>>
        /\ pc[t] = "store" /\ LogicalState = desired[t] /\ owner = t /\ t # Nobody
        /\ \A u \in Threads : u # t => pc[u] # "store"
    BY <1>18, LogicalWhileStoring, ReceiverAssumption DEF StoreNumber, Nobody
  <2>2. CallLaw'
    BY <2>1 DEF CallLaw, UseMutex
  <2>3. CasLaw'
    <3>1. \A u \in Threads : pc'[u] # "cas"
      BY <1>18 DEF StoreNumber, CallLaw, TypeOK, ThreadTypeOK
    <3> QED BY <3>1 DEF CasLaw
  <2>4. StoreLaw'
    BY <1>18, <2>1, ReceiverAssumption DEF StoreNumber, StoreLaw, TypeOK, ThreadTypeOK, ReplayStates
  <2>5. Quiet
    BY <2>1 DEF Quiet, LogicalState
  <2> QED BY <1>a, <1>0, <2>2, <2>3, <2>4, <2>5 DEF ThreadInv
<1>19. ASSUME NEW t \in Threads, ReleaseMutex(t)
      PROVE  ThreadInv' /\ StepKind
  <2>1. /\ UNCHANGED <<build, live, replayMask, messageNumber, accepts>>
        /\ owner = t /\ t # Nobody /\ owner' = Nobody
        /\ \A u \in Threads : u # t => pc[u] # "store" /\ pc'[u] = pc[u] /\ msg'[u] = msg[u]
        /\ pc'[t] = "idle"
    BY <1>19, ReceiverAssumption DEF ReleaseMutex, Return, CallLaw, Nobody, replayState, TypeOK, ThreadTypeOK
  <2>2. CallLaw'
    BY <2>1, ReceiverAssumption DEF CallLaw, Nobody, UseMutex
  <2>3. CasLaw'
    <3>1. \A u \in Threads : pc'[u] # "cas"
      BY <1>19 DEF ReleaseMutex, CallLaw, TypeOK, ThreadTypeOK, Return
    <3> QED BY <3>1 DEF CasLaw
  <2>4. StoreLaw'
    BY <2>1 DEF StoreLaw
  <2>5. LogicalState = State
    <3>1. ASSUME pc[t] = "store"
          PROVE  desired[t] = State
      <4>1. replayMask = desired[t].replayMask /\ messageNumber = desired[t].messageNumber
        BY <1>19, <3>1 DEF ReleaseMutex, StoreLaw
      <4>2. desired[t] \in ReplayStates
        BY DEF TypeOK, ThreadTypeOK
      <4>3. desired[t] = [replayMask |-> desired[t].replayMask, messageNumber |-> desired[t].messageNumber]
        BY <4>2 DEF ReplayStates
      <4> QED BY <4>1, <4>3 DEF State
    <3> QED BY <2>1, <3>1 DEF LogicalState
  <2>6. Quiet
    BY <2>1, <2>5 DEF Quiet, LogicalState, State
  <2> QED BY <1>a, <1>0, <2>2, <2>3, <2>4, <2>6 DEF ThreadInv
<1> QED BY <1>1, <1>2, <1>3, <1>4, <1>5, <1>6, <1>7, <1>8, <1>9, <1>10, <1>11, <1>12, <1>13, <1>14, <1>15, <1>16, <1>17, <1>18, <1>19 DEF Next, Continue, CasPath, LockPath

(* Whatever kind of step it is, the numbers' laws are kept.                *)
LEMMA ReceiverNumbers ==
  ASSUME ReceiverInv, TypeOK', CallLaw', StepKind
  PROVE  MaskExact' /\ NoDoubleAccept'
<1> USE DEF ReceiverInv
<1>1. ASSUME Quiet
      PROVE  MaskExact' /\ NoDoubleAccept'
  BY <1>1 DEF Quiet, MaskExact, MaskLaw, NoDoubleAccept
<1>2. ASSUME Opening
      PROVE  MaskExact' /\ NoDoubleAccept'
  <2>1. \A m \in MessageNumbers : accepts'[m] = 0
    BY <1>2 DEF Opening, CallLaw
  <2>2. MaskLaw(LogicalState', accepts')
    BY <1>2, <2>1, ReceiverAssumption DEF Opening, MaskLaw
  <2> QED BY <2>1, <2>2 DEF MaskExact, NoDoubleAccept, MaskLaw
<1>3. ASSUME Closing
      PROVE  MaskExact' /\ NoDoubleAccept'
  BY <1>3 DEF Closing, MaskExact, NoDoubleAccept
<1>4. ASSUME NEW m \in MessageNumbers, Accepting(m)
      PROVE  MaskExact' /\ NoDoubleAccept'
  <2>1. MaskLaw(LogicalState, accepts) /\ LogicalState \in ReplayStates /\ accepts \in [MessageNumbers -> Nat]
    BY <1>4, LogicalType DEF Accepting, MaskExact, TypeOK, ThreadTypeOK
  <2>2. accepts[m] = 0 /\ MaskLaw(LogicalState', accepts')
    BY <1>4, <2>1, AcceptKeepsMask DEF Accepting
  <2>3. NoDoubleAccept'
    BY <1>4, <2>1, <2>2 DEF Accepting, NoDoubleAccept
  <2> QED BY <2>2, <2>3 DEF MaskExact, MaskLaw
<1> QED BY <1>1, <1>2, <1>3, <1>4 DEF StepKind

(* No session, nothing accepted.                                           *)
LEMMA ReceiverInitially == Init => ReceiverInv
<1> SUFFICES ASSUME Init PROVE ReceiverInv
  OBVIOUS
<1>1. SessionTypeOK
  BY DEF Init, SessionTypeOK
<1>2. ThreadTypeOK
  BY ReceiverAssumption DEF Init, ThreadTypeOK, State, ReplayStates, Blank, Results
<1>3. CallLaw
  BY ReceiverAssumption DEF Init, CallLaw, Nobody
<1>4. StoreLaw /\ CasLaw
  BY DEF Init, StoreLaw, CasLaw
<1>5. MaskExact /\ NoDoubleAccept
  BY DEF Init, MaskExact, NoDoubleAccept
<1> QED BY <1>1, <1>2, <1>3, <1>4, <1>5 DEF ReceiverInv, TypeOK

(* A stuttering step.                                                      *)
LEMMA ReceiverStutters ==
  ASSUME ReceiverInv, UNCHANGED vars
  PROVE  ReceiverInv' /\ Quiet
<1>1. UNCHANGED <<build, live, replayMask, messageNumber, pMutex, owner, pc, msg, dst, expected, desired,
                  todo, result, accepts>>
  BY DEF vars, replayState, locals
<1>2. SessionTypeOK' /\ ThreadTypeOK'
  <2>1. SessionTypeOK'
    BY <1>1 DEF ReceiverInv, TypeOK, SessionTypeOK
  <2>2. ThreadTypeOK'
    BY <1>1 DEF ReceiverInv, TypeOK, ThreadTypeOK, State
  <2> QED BY <2>1, <2>2
<1>3. CallLaw' /\ StoreLaw' /\ CasLaw'
  BY <1>1 DEF ReceiverInv, CallLaw, StoreLaw, CasLaw, UseMutex
<1>4. Quiet
  BY <1>1 DEF Quiet, LogicalState, State
<1>5. MaskExact' /\ NoDoubleAccept'
  BY <1>4 DEF ReceiverInv, Quiet, MaskExact, MaskLaw, NoDoubleAccept
<1> QED BY <1>2, <1>3, <1>4, <1>5 DEF ReceiverInv, TypeOK

(* Every step keeps the invariant and is of one of the four kinds.         *)
LEMMA ReceiverStep ==
  ASSUME ReceiverInv, [Next]_vars
  PROVE  ReceiverInv' /\ StepKind
<1>1. CASE Next
  <2>1. ThreadInv' /\ StepKind
    BY <1>1, ReceiverSteps
  <2>2. MaskExact' /\ NoDoubleAccept'
    BY <2>1, ReceiverNumbers DEF ThreadInv
  <2> QED BY <2>1, <2>2 DEF ReceiverInv, ThreadInv
<1>2. CASE UNCHANGED vars
  BY <1>2, ReceiverStutters DEF StepKind
<1> QED BY <1>1, <1>2

(* The inductive invariant of the decryption side, for every build, every  *)
(* window and any number of threads.                                       *)
THEOREM ReceiverInvariance == Spec => []ReceiverInv
<1>1. ReceiverInv /\ [Next]_vars => ReceiverInv'
  BY ReceiverStep
<1> QED BY <1>1, ReceiverInitially, PTL DEF Spec

(* No message number is accepted twice, in any build: neither the torn     *)
(* first read of the compare-and-swap path nor the torn stores of the      *)
(* mutex path can lose an accepted number.                                 *)
THEOREM ReceiverNoDoubleAccept == Spec => []NoDoubleAccept
BY ReceiverInvariance, PTL DEF ReceiverInv

(* The replay mask always says exactly which numbers were accepted.        *)
THEOREM ReceiverMaskExact == Spec => []MaskExact
BY ReceiverInvariance, PTL DEF ReceiverInv

(* The uninitialised desiredState of UpdateStateCAS128 is never stored.    *)
THEOREM ReceiverNoUninitialisedStore == Spec => []NoUninitialisedStore
<1>1. ReceiverInv => NoUninitialisedStore
  <2> SUFFICES ASSUME ReceiverInv, NEW t \in Threads, pc[t] = "cas", State = expected[t]
               PROVE  desired[t].messageNumber # 0
    BY DEF NoUninitialisedStore
  <2>1. live /\ (\A u \in Threads : pc[u] # "store") /\ msg[t] \in MessageNumbers
    BY DEF ReceiverInv, CallLaw
  <2>2. LogicalState = State
    BY <2>1, LogicalOtherwise DEF ReceiverInv
  <2>3. MaskLaw(State, accepts) /\ State \in ReplayStates /\ accepts \in [MessageNumbers -> Nat]
    BY <2>1, <2>2 DEF ReceiverInv, MaskExact, TypeOK, ThreadTypeOK
  <2>4. expected[t].messageNumber >= 1 /\ expected[t].messageNumber \in Int
    BY <2>3, ReceiverAssumption DEF MaskLaw
  <2>5. ~IsReplay(State, msg[t]) /\ desired[t] = DesiredState(State, msg[t])
    BY <2>4 DEF ReceiverInv, CasLaw
  <2>6. MaskLaw(DesiredState(State, msg[t]), [accepts EXCEPT ![msg[t]] = @ + 1])
    BY <2>1, <2>3, <2>5, AcceptKeepsMask
  <2>7. DesiredState(State, msg[t]).messageNumber \in Window .. MaxMessageNumber
    BY <2>6 DEF MaskLaw
  <2> QED BY <2>5, <2>7, ReceiverAssumption
<1> QED BY <1>1, ReceiverInvariance, PTL

(* The window never moves back.                                            *)
THEOREM ReceiverWindowMonotone == Spec => WindowMonotone
<1>1. ASSUME ReceiverInv, [Next]_vars, live, live'
      PROVE  LogicalState'.messageNumber >= LogicalState.messageNumber
  <2>1. StepKind
    BY <1>1, ReceiverStep
  <2>2. MaskLaw(LogicalState, accepts) /\ LogicalState \in ReplayStates /\ accepts \in [MessageNumbers -> Nat]
    BY <1>1, LogicalType DEF ReceiverInv, MaskExact, TypeOK, ThreadTypeOK
  <2>3. LogicalState.messageNumber \in Int
    BY <2>2 DEF ReplayStates
  <2>4. CASE Quiet
    BY <2>3, <2>4 DEF Quiet
  <2>5. ASSUME NEW m \in MessageNumbers, Accepting(m)
        PROVE  LogicalState'.messageNumber >= LogicalState.messageNumber
    <3>1. DesiredState(LogicalState, m).messageNumber
            = IF m > LogicalState.messageNumber THEN m ELSE LogicalState.messageNumber
      BY <2>2, <2>5, AcceptKeepsMask DEF Accepting
    <3> QED BY <2>3, <2>5, <3>1 DEF Accepting, MessageNumbers
  <2>6. ~Opening /\ ~Closing
    BY <1>1 DEF Opening, Closing
  <2> QED BY <2>1, <2>4, <2>5, <2>6 DEF StepKind
<1>2. ReceiverInv /\ [Next]_vars
        => [(live /\ live') => LogicalState'.messageNumber >= LogicalState.messageNumber]_vars
  BY <1>1
<1> QED BY <1>2, ReceiverInvariance, PTL DEF Spec, WindowMonotone

(* The session implements the atomic replay filter: every step of every    *)
(* thread is an acceptance, the end of a session, or nothing.              *)
THEOREM ReceiverImplementsFilter == Spec => ImplementsFilter
<1>1. Init => Filter!Init
  BY ReceiverAssumption DEF Init, Filter!Init, Accepted
<1>2. ASSUME ReceiverInv, [Next]_vars
      PROVE  [Filter!Next]_(Filter!filterVars)
  <2> DEFINE high == IF live THEN LogicalState.messageNumber ELSE Window
  <2>1. StepKind
    BY <1>2, ReceiverStep
  <2>2. CASE Quiet
    <3>1. Accepted' = Accepted /\ high' = high
      BY <2>2 DEF Quiet, Accepted
    <3> QED BY <3>1 DEF Filter!filterVars
  <2>3. CASE Opening
    <3>1. Accepted' = Accepted /\ high' = high
      BY <2>3 DEF Opening, Accepted
    <3> QED BY <3>1 DEF Filter!filterVars
  <2>4. CASE Closing
    <3>1. Accepted' = {} /\ high' = Window
      BY <2>4 DEF Closing, Accepted
    <3> QED BY <3>1 DEF Filter!Next, Filter!Reset
  <2>5. ASSUME NEW m \in MessageNumbers, Accepting(m)
        PROVE  Filter!Next
    <3>1. MaskLaw(LogicalState, accepts) /\ LogicalState \in ReplayStates /\ accepts \in [MessageNumbers -> Nat]
      BY <1>2, <2>5, LogicalType DEF ReceiverInv, Accepting, MaskExact, TypeOK, ThreadTypeOK
    <3>2. /\ accepts[m] = 0
          /\ m > LogicalState.messageNumber - Window
          /\ LogicalState'.messageNumber = IF m > LogicalState.messageNumber THEN m ELSE LogicalState.messageNumber
      BY <2>5, <3>1, AcceptKeepsMask DEF Accepting
    <3>3. live /\ live'
      BY <2>5 DEF Accepting
    <3>4. m \notin Accepted
      BY <3>2 DEF Accepted
    <3>5. Accepted' = Accepted \cup {m}
      BY <2>5, <3>1, <3>2 DEF Accepting, Accepted
    <3>6. Filter!Accept(m)
      BY <3>2, <3>3, <3>4, <3>5 DEF Filter!Accept
    <3> QED BY <3>6 DEF Filter!Next, Filter!MessageNumbers, MessageNumbers
  <2> QED BY <2>1, <2>2, <2>3, <2>4, <2>5 DEF StepKind
<1> QED BY <1>1, <1>2, ReceiverInvariance, PTL DEF Spec, ImplementsFilter, Filter!Spec

(* Where words are not torn, the early checks never see a number ahead of  *)
(* the state the threads agree on.                                         *)
LEMMA NumberNotAhead ==
  ASSUME ReceiverInv, live, build # "LOCK32"
  PROVE  /\ messageNumber \in Window .. LogicalState.messageNumber
         /\ LogicalState.messageNumber \in Window .. MaxMessageNumber
<1> USE DEF ReceiverInv
<1>1. LogicalState.messageNumber \in Window .. MaxMessageNumber
  BY DEF MaskExact, MaskLaw
<1>2. ASSUME NEW t \in Threads, pc[t] = "store"
      PROVE  messageNumber \in Window .. LogicalState.messageNumber
  BY <1>2, LogicalWhileStoring DEF StoreLaw
<1>3. ASSUME \A t \in Threads : pc[t] # "store"
      PROVE  messageNumber \in Window .. LogicalState.messageNumber
  <2>1. LogicalState = State
    BY <1>3, LogicalOtherwise
  <2> QED BY <1>1, <2>1 DEF State
<1> QED BY <1>1, <1>2, <1>3

(* So a number the early checks call too late is below the window.         *)
LEMMA TooLateIsBelow ==
  ASSUME ReceiverInv, live, build # "LOCK32", NEW m \in MessageNumbers, TooLate(m)
  PROVE  m <= LogicalState.messageNumber - Window
<1>1. /\ messageNumber \in Window .. LogicalState.messageNumber
      /\ LogicalState.messageNumber \in Window .. MaxMessageNumber
  BY NumberNotAhead
<1>2. messageNumber \in Window .. MaxMessageNumber /\ Window \in Int /\ MaxMessageNumber \in Int
  BY <1>1, ReceiverAssumption
<1>3. Behind(messageNumber) = messageNumber - Window
  BY <1>2, BehindIsBelow
<1> QED BY <1>1, <1>2, <1>3 DEF TooLate, MessageNumbers

(* And a replay seen in a state nobody is storing to is one.               *)
LEMMA ReplayIsReplay ==
  ASSUME ReceiverInv, live, NEW m \in MessageNumbers, \A t \in Threads : pc[t] # "store",
         IsReplay(State, m)
  PROVE  m \in Accepted \/ m <= LogicalState.messageNumber - Window
<1>1. LogicalState = State /\ MaskLaw(State, accepts)
  BY LogicalOtherwise DEF ReceiverInv, MaskExact
<1>2. State.messageNumber \in Window .. MaxMessageNumber
  BY <1>1 DEF MaskLaw
<1>3. Behind(State.messageNumber) = State.messageNumber - Window
  BY <1>2, BehindIsBelow
<1>4. State.messageNumber \in Int /\ m \in Int /\ Window \in Int
  BY <1>2, ReceiverAssumption DEF MessageNumbers
<1> QED BY <1>1, <1>3, <1>4 DEF IsReplay, MaskLaw, Accepted

(* In the builds that store messageNumber with one write, a call is        *)
(* refused as a replay only for the two reasons symcrypt.h gives.          *)
THEOREM ReceiverRefusesOnlyReplays == Spec => RefusedOnlyReplays
<1>1. ASSUME ReceiverInv, [Next]_vars, NEW t \in Threads, build # "LOCK32",
             pc[t] # "idle", result[t] = "NONE", result'[t] = "REPLAY_FAILURE"
      PROVE  msg[t] \in Accepted \/ msg[t] <= LogicalState.messageNumber - Window
  <2>1. live /\ msg[t] \in MessageNumbers
    BY <1>1 DEF ReceiverInv, CallLaw
  <2>2. EarlyCheck(t) \/ CheckAgain(t) \/ CasFails(t) \/ ComputeUnderMutex(t)
    <3>1. result \in [Threads -> Results]
      BY <1>1 DEF ReceiverInv, TypeOK, ThreadTypeOK
    <3>2. ~ReceiverInit /\ ~Destroy /\ ~UNCHANGED vars
      BY <1>1 DEF ReceiverInit, Destroy, locals, vars
    <3>3. PICK u \in Threads :
            \/ ReceiverInitFails(u)
            \/ EncryptRefused(u)
            \/ \E m \in 0 .. MaxMessageNumber + 1 : BeginDecrypt(u, m)
            \/ Continue(u)
      BY <1>1, <3>2 DEF Next
    <3>4. ~ReceiverInitFails(u)
      BY <2>1 DEF ReceiverInitFails
    <3>5. ~EncryptRefused(u)
      BY <1>1, <3>1 DEF EncryptRefused
    <3>6. \A m \in 0 .. MaxMessageNumber + 1 : ~BeginDecrypt(u, m)
      BY <1>1, <3>1 DEF BeginDecrypt, Return
    <3>7. ~AuthFails(u)
      BY <1>1, <3>1 DEF AuthFails, Return
    <3>8. ~AuthSucceeds(u) /\ ~Guess(u)
      BY <1>1, <3>1 DEF AuthSucceeds, Guess
    <3>9. \A word \in {"mask", "number"} : ~ReadWord(u, word)
      BY <1>1, <3>1 DEF ReadWord
    <3>10. ~CasSucceeds(u)
      BY <1>1, <3>1 DEF CasSucceeds, Return
    <3>11. ~AcquireMutex(u)
      BY <1>1, <3>1 DEF AcquireMutex, locals
    <3>12. ~StoreMask(u) /\ ~StoreHalf(u) /\ ~StoreNumber(u)
      BY <1>1, <3>1 DEF StoreMask, StoreHalf, StoreNumber
    <3>13. ~ReleaseMutex(u)
      BY <1>1, <3>1 DEF ReleaseMutex, Return
    <3>14. (EarlyCheck(u) \/ CheckAgain(u) \/ CasFails(u) \/ ComputeUnderMutex(u)) => u = t
      BY <1>1, <3>1 DEF EarlyCheck, CheckAgain, CasFails, ComputeUnderMutex, Return, locals
    <3> QED BY <3>3, <3>4, <3>5, <3>6, <3>7, <3>8, <3>9, <3>10, <3>11, <3>12, <3>13, <3>14 DEF Continue, CasPath, LockPath
  <2>3. CASE EarlyCheck(t)
    <3>1. TooLate(msg[t])
      BY <1>1, <2>3 DEF EarlyCheck, locals
    <3> QED BY <1>1, <2>1, <3>1, TooLateIsBelow
  <2>4. CASE CheckAgain(t)
    <3>1. TooLate(msg[t])
      BY <1>1, <2>4 DEF CheckAgain, locals, Return, ReceiverInv, TypeOK, ThreadTypeOK
    <3> QED BY <1>1, <2>1, <3>1, TooLateIsBelow
  <2>5. CASE CasFails(t)
    <3>1. IsReplay(State, msg[t]) /\ \A u \in Threads : pc[u] # "store"
      BY <1>1, <2>5 DEF CasFails, ReceiverInv, CallLaw
    <3> QED BY <1>1, <2>1, <3>1, ReplayIsReplay
  <2>6. CASE ComputeUnderMutex(t)
    <3>1. IsReplay(State, msg[t]) /\ \A u \in Threads : pc[u] # "store"
      BY <1>1, <2>6 DEF ComputeUnderMutex, ReceiverInv, CallLaw, TypeOK, ThreadTypeOK
    <3> QED BY <1>1, <2>1, <3>1, ReplayIsReplay
  <2> QED BY <2>2, <2>3, <2>4, <2>5, <2>6
<1>2. ReceiverInv /\ [Next]_vars
        => [\A t \in Threads :
              (build # "LOCK32" /\ pc[t] # "idle" /\ result[t] = "NONE" /\ result'[t] = "REPLAY_FAILURE")
              => msg[t] \in Accepted \/ msg[t] <= LogicalState.messageNumber - Window]_vars
  BY <1>1
<1> QED BY <1>2, ReceiverInvariance, PTL DEF Spec, RefusedOnlyReplays
-----------------------------------------------------------------------------
(* Every exit of a call leaves its buffer as its result demands.           *)
LEMMA ReturnKeepsBuffer ==
  ASSUME TypeOK, BufferLaw, NEW t \in Threads, NEW status, Return(t, status),
         status = "NO_ERROR" => dst[t] = "plaintext"
  PROVE  BufferLaw'
<1>1. /\ pc \in [Threads -> {"idle", "early", "decrypt", "read", "cas", "check", "acquire", "compute",
                             "store", "release"}]
      /\ dst \in [Threads -> {"caller", "plaintext", "wiped"}]
      /\ result \in [Threads -> Results]
  BY DEF TypeOK, ThreadTypeOK
<1>2. CASE status = "NO_ERROR"
  BY <1>1, <1>2 DEF Return, BufferLaw, PlaintextOnlyOnSuccess
<1>3. CASE status # "NO_ERROR"
  BY <1>1, <1>3 DEF Return, BufferLaw, PlaintextOnlyOnSuccess
<1> QED BY <1>2, <1>3

(* Every step keeps what is known of the destination buffers.              *)
LEMMA BufferStep ==
  ASSUME TypeOK, CallLaw, BufferLaw, [Next]_vars
  PROVE  BufferLaw'
<1>1. /\ pc \in [Threads -> {"idle", "early", "decrypt", "read", "cas", "check", "acquire", "compute",
                             "store", "release"}]
      /\ dst \in [Threads -> {"caller", "plaintext", "wiped"}]
      /\ result \in [Threads -> Results]
  BY DEF TypeOK, ThreadTypeOK
<1>2. ASSUME UNCHANGED <<pc, dst, result>>
      PROVE  BufferLaw'
  BY <1>2 DEF BufferLaw, PlaintextOnlyOnSuccess
<1>3. CASE ReceiverInit \/ Destroy \/ UNCHANGED vars
  BY <1>2, <1>3 DEF ReceiverInit, Destroy, vars, locals
<1>4. ASSUME NEW t \in Threads, ReceiverInitFails(t) \/ EncryptRefused(t)
      PROVE  BufferLaw'
  <2>1. pc[t] = "idle"
    BY <1>4 DEF ReceiverInitFails, EncryptRefused, CallLaw
  <2>2. /\ \E status \in {"MEMORY_ALLOCATION_FAILURE", "INVALID_ARGUMENT"} :
              result' = [result EXCEPT ![t] = status]
        /\ dst' = [dst EXCEPT ![t] = "caller"]
        /\ pc' = pc
    BY <1>4 DEF ReceiverInitFails, EncryptRefused
  <2> QED BY <1>1, <2>1, <2>2 DEF BufferLaw, PlaintextOnlyOnSuccess
<1>5. ASSUME NEW t \in Threads, NEW m \in 0 .. MaxMessageNumber + 1, BeginDecrypt(t, m)
      PROVE  BufferLaw'
  <2>1. CASE m = 0 \/ m > MaxMessageNumber
    <3>1. Return(t, "INVALID_ARGUMENT")
      BY <1>5, <2>1 DEF BeginDecrypt
    <3> QED BY <3>1, ReturnKeepsBuffer
  <2>2. CASE ~(m = 0 \/ m > MaxMessageNumber)
    <3>1. /\ pc' = [pc EXCEPT ![t] = "early"]
          /\ result' = [result EXCEPT ![t] = "NONE"]
          /\ dst' = [dst EXCEPT ![t] = "caller"]
      BY <1>5, <2>2 DEF BeginDecrypt
    <3> QED BY <1>1, <3>1 DEF BufferLaw, PlaintextOnlyOnSuccess
  <2> QED BY <2>1, <2>2
<1>6. ASSUME NEW t \in Threads, Continue(t)
      PROVE  BufferLaw'
  <2>1. ASSUME NEW status, status # "NO_ERROR", Return(t, status)
        PROVE  BufferLaw'
    BY <2>1, ReturnKeepsBuffer
  <2>2. CASE EarlyCheck(t)
    <3>1. CASE TooLate(msg[t])
      <4>1. Return(t, "REPLAY_FAILURE")
        BY <2>2, <3>1 DEF EarlyCheck
      <4> QED BY <2>1, <4>1
    <3>2. CASE ~TooLate(msg[t])
      <4>1. pc[t] = "early" /\ pc' = [pc EXCEPT ![t] = "decrypt"] /\ UNCHANGED <<dst, result>>
        BY <2>2, <3>2 DEF EarlyCheck, locals
      <4> QED BY <1>1, <4>1 DEF BufferLaw, PlaintextOnlyOnSuccess
    <3> QED BY <3>1, <3>2
  <2>3. CASE AuthFails(t)
    BY <2>1, <2>3 DEF AuthFails
  <2>4. CASE AuthSucceeds(t)
    <3>1. /\ dst' = [dst EXCEPT ![t] = "plaintext"]
          /\ \E where \in {"check", "read"} : pc' = [pc EXCEPT ![t] = where]
          /\ UNCHANGED result
      BY <2>4 DEF AuthSucceeds
    <3> QED BY <1>1, <3>1 DEF BufferLaw, PlaintextOnlyOnSuccess
  <2>5. CASE \E word \in {"mask", "number"} : ReadWord(t, word)
    BY <1>2, <2>5 DEF ReadWord
  <2>6. CASE Guess(t)
    <3>1. pc[t] = "read" /\ pc' = [pc EXCEPT ![t] = "cas"] /\ UNCHANGED <<dst, result>>
      BY <2>6 DEF Guess
    <3> QED BY <1>1, <3>1 DEF BufferLaw, PlaintextOnlyOnSuccess
  <2>7. CASE CasSucceeds(t)
    <3>1. pc[t] = "cas" /\ Return(t, "NO_ERROR")
      BY <2>7 DEF CasSucceeds
    <3>2. dst[t] = "plaintext"
      BY <3>1 DEF BufferLaw
    <3> QED BY <3>1, <3>2, ReturnKeepsBuffer
  <2>8. CASE CasFails(t)
    <3>1. Return(t, "REPLAY_FAILURE") \/ UNCHANGED <<pc, dst, result>>
      BY <2>8 DEF CasFails
    <3> QED BY <1>2, <2>1, <3>1
  <2>9. CASE CheckAgain(t)
    <3>1. CASE ~pMutex \/ TooLate(msg[t])
      <4>1. \E status \in {"REPLAY_FAILURE", "INVALID_ARGUMENT"} : Return(t, status)
        BY <2>9, <3>1 DEF CheckAgain
      <4> QED BY <2>1, <4>1
    <3>2. CASE ~(~pMutex \/ TooLate(msg[t]))
      <4>1. pc[t] = "check" /\ pc' = [pc EXCEPT ![t] = "acquire"] /\ UNCHANGED <<dst, result>>
        BY <2>9, <3>2 DEF CheckAgain, locals
      <4> QED BY <1>1, <4>1 DEF BufferLaw, PlaintextOnlyOnSuccess
    <3> QED BY <3>1, <3>2
  <2>10. CASE AcquireMutex(t)
    <3>1. pc[t] = "acquire" /\ pc' = [pc EXCEPT ![t] = "compute"] /\ UNCHANGED <<dst, result>>
      BY <2>10 DEF AcquireMutex, locals
    <3> QED BY <1>1, <3>1 DEF BufferLaw, PlaintextOnlyOnSuccess
  <2>11. CASE ComputeUnderMutex(t)
    <3>1. /\ pc[t] = "compute"
          /\ dst' = dst
          /\ \/ /\ pc' = [pc EXCEPT ![t] = "release"]
                /\ result' = [result EXCEPT ![t] = "REPLAY_FAILURE"]
             \/ /\ pc' = [pc EXCEPT ![t] = "store"]
                /\ result' = [result EXCEPT ![t] = "NO_ERROR"]
      BY <2>11 DEF ComputeUnderMutex
    <3> QED BY <1>1, <3>1 DEF BufferLaw, PlaintextOnlyOnSuccess
  <2>12. CASE StoreMask(t) \/ StoreHalf(t) \/ StoreNumber(t)
    BY <1>2, <2>12 DEF StoreMask, StoreHalf, StoreNumber
  <2>13. CASE ReleaseMutex(t)
    <3>1. pc[t] \in {"store", "release"} /\ Return(t, result[t])
      BY <2>13 DEF ReleaseMutex
    <3>2. dst[t] = "plaintext"
      BY <3>1 DEF BufferLaw
    <3> QED BY <3>1, <3>2, ReturnKeepsBuffer
  <2> QED BY <1>6, <2>2, <2>3, <2>4, <2>5, <2>6, <2>7, <2>8, <2>9, <2>10, <2>11, <2>12, <2>13
       DEF Continue, CasPath, LockPath
<1> QED BY <1>3, <1>4, <1>5, <1>6 DEF Next

(* However a call fails, after the tag was verified too, its caller is     *)
(* left with a wiped buffer: plaintext means that the call succeeded.      *)
THEOREM ReceiverPlaintextOnlyOnSuccess == Spec => []PlaintextOnlyOnSuccess
<1>1. Init => BufferLaw
  BY DEF Init, BufferLaw, PlaintextOnlyOnSuccess
<1>2. ReceiverInv /\ BufferLaw /\ [Next]_vars => BufferLaw'
  BY BufferStep DEF ReceiverInv
<1>3. BufferLaw => PlaintextOnlyOnSuccess
  BY DEF BufferLaw
<1> QED BY <1>1, <1>2, <1>3, ReceiverInvariance, PTL DEF Spec
=============================================================================
