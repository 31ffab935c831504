----------------------------- MODULE ParallelHash -----------------------------
(***************************************************************************)
(* SymCryptParallelHashProcess (lib/parhash.c, with the Result functions   *)
(* of sha256Par.c and sha512Par.c): a list of append and result operations *)
(* on several hash states, run so that the compression of up to            *)
(* MaxParallel states goes on in parallel.  Each state has a little state  *)
(* machine that knows what to compress next; pWork holds the states with   *)
(* work to do.                                                             *)
(*                                                                         *)
(* One call, one step per turn of a loop.  pbData/cbData are the sequence  *)
(* of bytes they designate.                                                *)
(***************************************************************************)
EXTENDS HashBuffer, FiniteSets, SequencesExt

CONSTANTS
  NStates,       \* nStates
  MaxParallel,   \* maxParallel: 4 or 8
  AppendSizes,   \* sizes of the appends
  MaxOps         \* bound on nOperations

ASSUME ParallelAssumption ==
  /\ NStates \in Nat \ {0} /\ MaxParallel \in Nat \ {0}
  /\ AppendSizes \subseteq 0 .. WordRange - 1 /\ MaxOps \in Nat

VARIABLES
  ops,          \* pOperations; only the internal link is ever written
  states,       \* pStates
  scratch,      \* pScratchState
  output,       \* the result buffers of the operations
  work,         \* pWork
  nWork, nPar,
  nextWork,     \* pNextWork, as an index
  i,            \* the loop counter, from 1; also the operations left to link
  singleSize,
  answer,       \* of SymCryptParallelHashSetNextWork: "run" while in its loop
  phase         \* where SymCryptParallelHashProcess is

vars == <<ops, states, scratch, output, work, nWork, nPar, nextWork, i, singleSize, answer, phase>>

StateIndex == 1 .. NStates

Operation(k, s, kind, size) ==
  [iHash |-> s, hashOperation |-> kind, data |-> [j \in 1 .. size |-> 100 * k + j]]

(* The operations a caller may ask for; one with an index beyond the state *)
(* array, or that is neither append nor result, is refused.                *)
Requests ==
  (StateIndex \X {"append"} \X AppendSizes) \cup (StateIndex \X {"result"} \X {0})
    \cup {<<NStates + 1, "result", 0>>, <<1, "other", 0>>}

OperationLists ==
  {[k \in DOMAIN r |-> Operation(k, r[k][1], r[k][2], r[k][3])] :
     r \in UNION {[1 .. n -> Requests] : n \in 0 .. MaxOps}}

EmptyScratch ==
  [next |-> <<>>, processingState |-> "NEXT", bytesAlreadyProcessed |-> 0, bytes |-> 0,
   linked |-> FALSE, data |-> <<>>]

Init ==
  /\ ops \in OperationLists
  /\ states = [s \in StateIndex |-> WipedState]
  /\ scratch = [s \in StateIndex |-> EmptyScratch]
  /\ output = [k \in DOMAIN ops |-> <<>>]
  /\ work = <<>> /\ nWork = 0 /\ nPar = 0 /\ nextWork = 0
  /\ i = Len(ops)
  /\ singleSize = 0
  /\ answer = "run"
  /\ phase = IF ops = <<>> THEN "done" ELSE "start"

(* The scratch space is too small for the states.                          *)
ScratchTooSmall ==
  /\ phase = "start"
  /\ phase' = "error"
  /\ UNCHANGED <<ops, states, scratch, output, work, nWork, nPar, nextWork, i, singleSize, answer>>

ScratchFits ==
  /\ phase = "start"
  /\ phase' = "link"
  /\ UNCHANGED <<ops, states, scratch, output, work, nWork, nPar, nextWork, i, singleSize, answer>>

(* The operations are linked to their states from the last to the first.   *)
Estimate(op) == IF op.hashOperation = "append" THEN Len(op.data) ELSE InputBlockSize

Valid(op) == op.iHash \in StateIndex /\ op.hashOperation \in {"append", "result"}

Link ==
  /\ phase = "link" /\ i > 0
  /\ Valid(ops[i])
  /\ LET s == ops[i].iHash
     IN /\ work' = IF scratch[s].linked THEN work ELSE Append(work, s)
        /\ scratch' = [scratch EXCEPT ![s].linked = TRUE,
                                      ![s].bytes = @ + Estimate(ops[i]),
                                      ![s].next = <<i>> \o @]
  /\ nWork' = Len(work')
  /\ i' = i - 1
  /\ UNCHANGED <<ops, states, output, nPar, nextWork, singleSize, answer, phase>>

LinkFails ==
  /\ phase = "link" /\ i > 0
  /\ ~Valid(ops[i])
  /\ phase' = "error"
  /\ UNCHANGED <<ops, states, scratch, output, work, nWork, nPar, nextWork, i, singleSize, answer>>

Linked ==
  /\ phase = "link" /\ i = 0
  /\ singleSize' = scratch[work[1]].bytes
  /\ i' = 1
  /\ answer' = "run"
  /\ phase' = "first"
  /\ UNCHANGED <<ops, states, scratch, output, work, nWork, nPar, nextWork>>
-----------------------------------------------------------------------------
(* One turn of the loop of SymCryptParallelHashSetNextWork on pWork[i].    *)
SetNextWorkVars == <<ops, work, nWork, nPar, nextWork, i, singleSize, phase>>

Setting == answer = "run" /\ (phase = "scan" \/ (phase = "first" /\ i <= nWork))

Current == work[i]
Pending == scratch[Current].next
CurrentOp == ops[Head(Pending)]

Least(a, b) == IF a < b THEN a ELSE b

InState(p) == Setting /\ scratch[Current].processingState = p

NothingLeft ==
  /\ InState("NEXT") /\ Pending = <<>>
  /\ answer' = "false"
  /\ UNCHANGED <<states, scratch, output, SetNextWorkVars>>

(* Mutant: the length is left alone.                                       *)
CountedNoLength(st, cb) == st

(* pState->dataLength is advanced by the whole append.                     *)
Counted(st, cb) == [st EXCEPT !.dataLengthL = LengthL(st, cb), !.dataLengthH = LengthH(st, cb)]

(* "it will be after we process the block"                                 *)
InBuffer(n) == IF n = InputBlockSize THEN 0 ELSE n

(* An append to a buffer in use: fill it up as far as the data goes.       *)
AppendToBuffer ==
  /\ InState("NEXT") /\ Pending # <<>> /\ CurrentOp.hashOperation = "append"
  /\ states[Current].bytesInBuffer > 0
  /\ LET sc      == scratch[Current]
         st      == Counted(states[Current], Len(CurrentOp.data))
         todo    == Least(InputBlockSize - st.bytesInBuffer, Len(CurrentOp.data))
         buffer  == Overwrite(st.buffer, st.bytesInBuffer, SubSeq(CurrentOp.data, 1, todo))
         full    == st.bytesInBuffer + todo = InputBlockSize
         whole   == todo = Len(CurrentOp.data)
     IN /\ states' = [states EXCEPT ![Current] =
              [st EXCEPT !.buffer = buffer,
                         !.bytesInBuffer = InBuffer(st.bytesInBuffer + todo)]]
        /\ scratch' = [scratch EXCEPT ![Current] =
              [sc EXCEPT !.data = IF full THEN buffer ELSE @,
                         !.next = IF full /\ ~whole THEN @ ELSE Tail(@),
                         !.processingState = IF full /\ ~whole THEN "DATA_START" ELSE @,
                         !.bytesAlreadyProcessed = IF full /\ ~whole THEN todo ELSE @]]
        /\ answer' = IF full THEN "true" ELSE "run"
  /\ UNCHANGED <<output, SetNextWorkVars>>

(* An append to an empty buffer: the whole blocks first.                   *)
AppendBulk ==
  /\ InState("NEXT") /\ Pending # <<>> /\ CurrentOp.hashOperation = "append"
  /\ states[Current].bytesInBuffer = 0
  /\ states' = [states EXCEPT ![Current] = Counted(@, Len(CurrentOp.data))]
  /\ scratch' = [scratch EXCEPT ![Current].data = CurrentOp.data, ![Current].processingState = "DATA_END"]
  /\ answer' = IF Len(CurrentOp.data) >= InputBlockSize THEN "true" ELSE "run"
  /\ UNCHANGED <<output, SetNextWorkVars>>

(* parResult1Func: the padding, or its first block.                        *)
Result1 ==
  /\ InState("NEXT") /\ Pending # <<>> /\ CurrentOp.hashOperation = "result"
  /\ LET st     == states[Current]
         buffer == IF NeedsTwoBlocks(st) THEN Pad1(st) ELSE PutLength(Pad1(st), st)
     IN /\ states' = [states EXCEPT ![Current].buffer = buffer]
        /\ scratch' = [scratch EXCEPT
              ![Current].data = buffer,
              ![Current].processingState = IF NeedsTwoBlocks(st) THEN "RESULT2" ELSE "RESULT_DONE"]
  /\ answer' = "true"
  /\ UNCHANGED <<output, SetNextWorkVars>>

(* What is left of an append after its first bytes went to the buffer.     *)
DataStartBulk ==
  /\ InState("DATA_START")
  /\ LET rest == SubSeq(CurrentOp.data, scratch[Current].bytesAlreadyProcessed + 1, Len(CurrentOp.data))
     IN /\ Len(rest) >= InputBlockSize
        /\ scratch' = [scratch EXCEPT ![Current].data = rest,
                                      ![Current].processingState = "DATA_END"]
  /\ answer' = "true"
  /\ UNCHANGED <<states, output, SetNextWorkVars>>

(* STATE_DATA_END: a partial block is put in the empty buffer.             *)
EndOfData(rest) ==
  /\ states' = [states EXCEPT ![Current] =
        IF rest = <<>> THEN @
        ELSE [states[Current] EXCEPT !.buffer = Overwrite(@, 0, rest), !.bytesInBuffer = Len(rest)]]
  /\ scratch' = [scratch EXCEPT ![Current].data = rest, ![Current].next = Tail(@),
                                ![Current].processingState = "NEXT"]

DataStartEnd ==
  /\ InState("DATA_START")
  /\ LET rest == SubSeq(CurrentOp.data, scratch[Current].bytesAlreadyProcessed + 1, Len(CurrentOp.data))
     IN /\ Len(rest) < InputBlockSize
        /\ EndOfData(rest)
  /\ UNCHANGED <<answer, output, SetNextWorkVars>>

DataEnd ==
  /\ InState("DATA_END")
  /\ EndOfData(scratch[Current].data)
  /\ UNCHANGED <<answer, output, SetNextWorkVars>>

(* parResult2Func: the second block of the padding.                        *)
Result2 ==
  /\ InState("RESULT2")
  /\ LET buffer == PutLength(ZeroBuffer, states[Current])
     IN /\ states' = [states EXCEPT ![Current].buffer = buffer]
        /\ scratch' = [scratch EXCEPT ![Current].data = buffer,
                                      ![Current].processingState = "RESULT_DONE"]
  /\ answer' = "true"
  /\ UNCHANGED <<output, SetNextWorkVars>>

(* parResultDoneFunc: give out the result, wipe and initialise the state.  *)
ResultDone ==
  /\ InState("RESULT_DONE")
  /\ output' = [output EXCEPT ![Head(Pending)] = states[Current].chain]
  /\ states' = [states EXCEPT ![Current] = WipedState]
  /\ scratch' = [scratch EXCEPT ![Current].next = Tail(@), ![Current].processingState = "NEXT"]
  /\ UNCHANGED <<answer, SetNextWorkVars>>

SetNextWork ==
  \/ NothingLeft \/ AppendToBuffer \/ AppendBulk \/ Result1
  \/ DataStartBulk \/ DataStartEnd \/ DataEnd \/ Result2 \/ ResultDone
-----------------------------------------------------------------------------
HashVars == <<ops, states, scratch, output, singleSize>>

(* The first round drops the states that have nothing to compress.         *)
FirstKeep ==
  /\ phase = "first" /\ i <= nWork /\ answer = "true"
  /\ i' = i + 1
  /\ answer' = "run"
  /\ UNCHANGED <<HashVars, work, nWork, nPar, nextWork, phase>>

FirstDrop ==
  /\ phase = "first" /\ i <= nWork /\ answer = "false"
  /\ work' = [work EXCEPT ![i] = work[nWork]]
  /\ nWork' = nWork - 1
  /\ answer' = "run"
  /\ UNCHANGED <<HashVars, nPar, nextWork, i, phase>>

(* qsort is not stable: any order that has the largest first.              *)
SortedWork ==
  {w \in [1 .. nWork -> {work[k] : k \in 1 .. nWork}] :
     /\ Range(w) = {work[k] : k \in 1 .. nWork}
     /\ \A k \in 1 .. nWork - 1 : scratch[w[k]].bytes >= scratch[w[k + 1]].bytes}

SameSize == \A k \in 1 .. nWork : scratch[work[k]].bytes = singleSize

FirstDone ==
  /\ phase = "first" /\ i > nWork
  /\ IF SameSize THEN work' = work
     ELSE \E w \in SortedWork : work' = w \o SubSeq(work, nWork + 1, Len(work))
  /\ nPar' = Least(nWork, MaxParallel)
  /\ nextWork' = nPar' + 1
  /\ phase' = IF nWork = 0 THEN "done" ELSE "append"
  /\ UNCHANGED <<HashVars, nWork, i, answer>>

(* parAppendFunc: every active state compresses as many blocks as the      *)
(* shortest of them has.                                                   *)
Shortest == CHOOSE n \in {Len(scratch[work[k]].data) : k \in 1 .. nPar} :
              \A k \in 1 .. nPar : n <= Len(scratch[work[k]].data)

Active(s) == \E k \in 1 .. nPar : work[k] = s

ParAppend ==
  /\ phase = "append" /\ nWork > 0
  /\ LET nBytes == Shortest - (Shortest % InputBlockSize)
     IN /\ states' = [s \in StateIndex |->
              IF Active(s) THEN [states[s] EXCEPT !.chain = @ \o SubSeq(scratch[s].data, 1, nBytes)]
                           ELSE states[s]]
        /\ scratch' = [s \in StateIndex |->
              IF Active(s) THEN [scratch[s] EXCEPT !.data = SubSeq(@, nBytes + 1, Len(@))]
                           ELSE scratch[s]]
  /\ phase' = "scan"
  /\ i' = 1
  /\ answer' = IF Len(scratch'[work[1]].data) < InputBlockSize THEN "run" ELSE "true"
  /\ UNCHANGED <<ops, output, singleSize, work, nWork, nPar, nextWork>>

(* The next turn of the for loop, or the next round.                       *)
ScanFrom(k, w, par, left) ==
  IF k <= par
  THEN /\ i' = k
       /\ answer' = IF Len(scratch[w[k]].data) < InputBlockSize THEN "run" ELSE "true"
       /\ phase' = "scan"
  ELSE /\ i' = k
       /\ answer' = "run"
       /\ phase' = IF left = 0 THEN "done" ELSE "append"

(* The state has at least a block to compress.                             *)
ScanKeep ==
  /\ phase = "scan" /\ answer = "true"
  /\ ScanFrom(i + 1, work, nPar, nWork)
  /\ UNCHANGED <<HashVars, work, nWork, nPar, nextWork>>

(* The state is done: one that waits takes its place.                      *)
ScanReplace ==
  /\ phase = "scan" /\ answer = "false" /\ nWork > nPar
  /\ work' = [work EXCEPT ![i] = work[nextWork]]
  /\ nextWork' = nextWork + 1
  /\ nWork' = nWork - 1
  /\ ScanFrom(i + 1, work', nPar, nWork')
  /\ UNCHANGED <<HashVars, nPar>>

(* Mutant: the number of states with work is not lowered.                  *)
ScanShrinkUncounted ==
  /\ phase = "scan" /\ answer = "false" /\ nWork <= nPar
  /\ work' = [work EXCEPT ![i] = work[nPar]]
  /\ nPar' = IF nPar > 1 THEN nPar - 1 ELSE nPar
  /\ nWork' = IF nPar > 1 THEN nWork - 1 ELSE nWork
  /\ ScanFrom(i, work', nPar', nWork')
  /\ UNCHANGED <<HashVars, nextWork>>

(* The state is done and none waits: the last active one takes its place   *)
(* and is looked at in its turn.                                           *)
ScanShrink ==
  /\ phase = "scan" /\ answer = "false" /\ nWork <= nPar
  /\ work' = [work EXCEPT ![i] = work[nPar]]
  /\ nPar' = nPar - 1
  /\ nWork' = nWork - 1
  /\ ScanFrom(i, work', nPar', nWork')
  /\ UNCHANGED <<HashVars, nextWork>>

Returned == phase \in {"done", "error"} /\ UNCHANGED vars

Process ==
  \/ ScratchTooSmall \/ ScratchFits
  \/ Link \/ LinkFails \/ Linked
  \/ SetNextWork
  \/ FirstKeep \/ FirstDrop \/ FirstDone
  \/ ParAppend \/ ScanKeep \/ ScanReplace \/ ScanShrink

Next == Process \/ Returned

Spec == Init /\ [][Next]_vars

(* The calling thread runs on.                                             *)
FairSpec == Spec /\ WF_vars(Process)
-----------------------------------------------------------------------------
(* SymCryptParallelHashProcess_serial: the operations one by one.          *)
SerialStep(sts, op) ==
  [sts EXCEPT ![op.iHash] =
     IF op.hashOperation = "append" THEN HashAppend(@, op.data) ELSE HashResult(@)]

(* The states after the first k operations.                                *)
SerialStates[k \in 0 .. Len(ops)] ==
  IF k = 0 THEN [s \in StateIndex |-> WipedState] ELSE SerialStep(SerialStates[k - 1], ops[k])

SerialOutput ==
  [k \in DOMAIN ops |->
     IF ops[k].hashOperation = "append" THEN <<>> ELSE HashDigest(SerialStates[k - 1][ops[k].iHash])]

(* What later calls can tell of a state: not the buffer beyond its count.  *)
Observed(st) ==
  <<st.chain, SubSeq(st.buffer, 1, st.bytesInBuffer), st.dataLengthL, st.dataLengthH>>

(* The buffers are never left full; the indexes stay inside pWork.         *)
TypeOK ==
  /\ \A s \in StateIndex : states[s].bytesInBuffer \in 0 .. InputBlockSize - 1
  /\ nWork \in 0 .. NStates /\ nPar \in 0 .. MaxParallel
  /\ phase \in {"append", "scan"} => nextWork + (nWork - nPar) - 1 <= Len(work)
  /\ answer \in {"run", "true", "false"}

(* "This is functionally equivalent to iterating over the pOperations      *)
(* array in order, and executing the command in each ... one at a time."   *)
SameAsSerial ==
  phase = "done" => /\ output = SerialOutput
                    /\ \A s \in StateIndex : Observed(states[s]) = Observed(SerialStates[Len(ops)][s])

-----------------------------------------------------------------------------
(* What makes SameAsSerial inductive.  The queue nx of a state holds the   *)
(* operations on it behind the first n, in their order.                    *)
Queued(s, nx, n) ==
  /\ nx \in Seq(1 .. Len(ops))
  /\ \A p \in DOMAIN nx : nx[p] > n /\ ops[nx[p]].iHash = s
  /\ \A p, q \in DOMAIN nx : p < q => nx[p] < nx[q]
  /\ \A k \in n + 1 .. Len(ops) : ops[k].iHash = s => \E p \in DOMAIN nx : nx[p] = k

(* The operations that are done as far as a state with this queue knows.   *)
Before(nx) == IF nx = <<>> THEN Len(ops) ELSE Head(nx) - 1

(* The whole blocks of the data in hand, and the chaining state once they  *)
(* are compressed.                                                         *)
Whole(data) == SubSeq(data, 1, Len(data) - (Len(data) % InputBlockSize))
Ahead(t, x) == t.chain \o Whole(x.data)

Message(st) == st.chain \o SubSeq(st.buffer, 1, st.bytesInBuffer)

CountIs(t, n) ==
  t.dataLengthL = n % WordRange /\ t.dataLengthH = (n \div WordRange) % WordRange

(* Between two operations the state holds the message m of the serial      *)
(* states; within one, what is compressed, in hand and left of its data d  *)
(* make up the longer message or the padded one.                           *)
Right(t, x, m, op) ==
  /\ t \in HashStates /\ x.data \in Seq(Int)
  /\ Len(t.chain) % InputBlockSize = 0
  /\ \/ /\ x.processingState = "NEXT"
        /\ Holds([t EXCEPT !.chain = Ahead(t, x)], m)
     \/ /\ x.processingState = "DATA_START"
        /\ op.hashOperation = "append"
        /\ x.bytesAlreadyProcessed \in 0 .. Len(op.data)
        /\ t.bytesInBuffer = 0 /\ CountIs(t, Len(m) + Len(op.data))
        /\ Ahead(t, x) = m \o SubSeq(op.data, 1, x.bytesAlreadyProcessed)
     \/ /\ x.processingState = "DATA_END"
        /\ op.hashOperation = "append"
        /\ t.bytesInBuffer = 0 /\ CountIs(t, Len(m) + Len(op.data))
        /\ t.chain \o x.data = m \o op.data
     \/ /\ x.processingState = "RESULT2"
        /\ op.hashOperation = "result"
        /\ Ahead(t, x) \o PutLength(ZeroBuffer, t) = PaddedMessage(m)
     \/ /\ x.processingState = "RESULT_DONE"
        /\ op.hashOperation = "result"
        /\ Ahead(t, x) = PaddedMessage(m)

RightFor(s, t, x) ==
  /\ Queued(s, x.next, Before(x.next))
  /\ x.processingState # "NEXT" => x.next # <<>>
  /\ Right(t, x, Message(SerialStates[Before(x.next)][s]), ops[Head(x.next)])

(* The operations are as the caller may pass them.                         *)
OpsInv ==
  /\ ops \in Seq([iHash : Nat, hashOperation : {"append", "result", "other"}, data : Seq(Int)])
  /\ \A k \in DOMAIN ops : Len(ops[k].data) \in Words
  /\ phase \notin {"start", "link", "error"} => \A k \in DOMAIN ops : Valid(ops[k])

(* Up to the end of the linking nothing is hashed.                         *)
LinkInv ==
  /\ i \in 0 .. Len(ops) /\ (phase = "start" => i = Len(ops)) /\ ops # <<>>
  /\ states = [s \in StateIndex |-> WipedState] /\ output = [k \in DOMAIN ops |-> <<>>]
  /\ \A k \in i + 1 .. Len(ops) : Valid(ops[k])
  /\ nWork = Len(work) /\ work \in Seq(StateIndex)
  /\ \A s \in StateIndex :
       /\ scratch[s].processingState = "NEXT" /\ scratch[s].data = <<>>
       /\ scratch[s].linked \in BOOLEAN
       /\ scratch[s].linked <=> \E k \in DOMAIN work : work[k] = s
       /\ scratch[s].next # <<>> => scratch[s].linked
       /\ Queued(s, scratch[s].next, i)
  /\ \A k, l \in DOMAIN work : work[k] = work[l] => k = l

(* Nothing to compress and nothing to do.                                  *)
Idle(s) == scratch[s].next = <<>> /\ Len(scratch[s].data) < InputBlockSize

(* The states with something to do are in pWork: in the first round in its *)
(* first nWork entries, later in the nPar first and those that wait.       *)
Listed(s) ==
  \E k \in DOMAIN work : /\ work[k] = s
                         /\ IF phase = "first" THEN k <= nWork
                            ELSE k <= nPar \/ k \in nextWork .. nextWork + (nWork - nPar) - 1

WorkInv ==
  /\ work \in Seq(StateIndex) /\ nWork \in 0 .. Len(work)
  /\ \A s \in StateIndex : Idle(s) \/ Listed(s)
  /\ phase = "first" => /\ i \in 1 .. nWork + 1
                        /\ \A k, l \in 1 .. nWork : work[k] = work[l] => k = l
                        /\ \A k \in i .. nWork : k > i \/ answer # "true"
                              => Len(scratch[work[k]].data) < InputBlockSize
                        /\ i <= nWork /\ answer = "false" => scratch[work[i]].next = <<>>
  /\ phase \in {"append", "scan"} => /\ nPar \in 1 .. nWork /\ nextWork \in nPar + 1 .. Len(work) + 1
                                     /\ nextWork + (nWork - nPar) - 1 <= Len(work)
  /\ phase = "scan" => /\ i \in 1 .. nPar
                       /\ answer # "true" => Len(scratch[work[i]].data) < InputBlockSize
                       /\ answer = "false" => scratch[work[i]].next = <<>>

OutputInv ==
  output = [k \in DOMAIN ops |->
              IF k <= Before(scratch[ops[k].iHash].next) THEN SerialOutput[k] ELSE <<>>]

ParallelInv ==
  /\ OpsInv
  /\ DOMAIN states = StateIndex /\ DOMAIN scratch = StateIndex
  /\ \A s \in StateIndex : DOMAIN scratch[s] = DOMAIN EmptyScratch
  /\ phase \in {"start", "link"} => LinkInv
  /\ phase \in {"first", "append", "scan"} =>
       /\ \A s \in StateIndex : RightFor(s, states[s], scratch[s])
       /\ OutputInv /\ WorkInv
  /\ SameAsSerial

(* The call returns.                                                       *)
Returns == <>(phase \in {"done", "error"})
=============================================================================
