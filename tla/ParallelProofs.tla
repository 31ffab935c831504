---------------------------- MODULE ParallelProofs ----------------------------
(***************************************************************************)
(* For any number of states, width of the parallel compression, list of    *)
(* operations and size of the appends, SymCryptParallelHashProcess leaves  *)
(* the states and the results that the serial code leaves.  The argument:  *)
(* each state is where the serial code has it before the first operation   *)
(* of its queue, or that far into this operation as its little state       *)
(* machine says; and no state that has something to do leaves pWork.       *)
(***************************************************************************)
EXTENDS ParallelHash, HashProofs, FiniteSetTheorems

-----------------------------------------------------------------------------
(* The serial code, as a function that follows its own definition up to n. *)
AllWiped == [s \in StateIndex |-> WipedState]

SerialTo(f, n) ==
  f = [k \in 0 .. n |-> IF k = 0 THEN AllWiped ELSE SerialStep(f[k - 1], ops[k])]

(* There is one, for every n: were there none for some n, take the least.  *)
LEMMA SerialExists ==
  ASSUME NEW n \in Nat
  PROVE  \E f : SerialTo(f, n)
<1> DEFINE S == {m \in Nat : ~ \E f : SerialTo(f, m)}
<1> SUFFICES ASSUME S # {} PROVE FALSE
  OBVIOUS
<1>1. S \in SUBSET Nat
  OBVIOUS
<1> HIDE DEF S
<1>2. PICK m \in S : \A l \in S : m <= l
  BY <1>1, LeastNatural
<1> USE DEF S
<1>3. m \in Nat /\ ~ \E f : SerialTo(f, m)
  BY <1>2
<1>4. CASE m = 0
  <2> DEFINE g == [k \in 0 .. 0 |-> AllWiped]
  <2>1. SerialTo(g, 0)
    BY DEF SerialTo
  <2> QED BY <1>3, <1>4, <2>1
<1>5. CASE m # 0
  <2>1. m - 1 \in Nat /\ ~(m <= m - 1)
    BY <1>3, <1>5
  <2>2. m - 1 \notin S
    BY <1>2, <2>1
  <2>3. PICK f : SerialTo(f, m - 1)
    BY <2>1, <2>2
  <2> DEFINE g == [k \in 0 .. m |-> IF k = 0 THEN AllWiped ELSE SerialStep(f[k - 1], ops[k])]
  <2>4. \A k \in 0 .. m - 1 : f[k] = IF k = 0 THEN AllWiped ELSE SerialStep(f[k - 1], ops[k])
    BY <2>3 DEF SerialTo
  <2>5. \A k \in 0 .. m - 1 : g[k] = f[k]
    BY <1>3, <2>4
  <2>6. \A k \in 0 .. m : k # 0 => k - 1 \in 0 .. m - 1
    BY <1>3
  <2>7. \A k \in 0 .. m : k # 0 => g[k - 1] = f[k - 1]
    <3> HIDE DEF g
    <3> QED BY <2>5, <2>6
  <2> DEFINE h == [k \in 0 .. m |-> IF k = 0 THEN AllWiped ELSE SerialStep(g[k - 1], ops[k])]
  <2>8. \A k \in 0 .. m : g[k] = h[k]
    <3> TAKE k \in 0 .. m
    <3>1. g[k] = IF k = 0 THEN AllWiped ELSE SerialStep(f[k - 1], ops[k])
      OBVIOUS
    <3>2. h[k] = IF k = 0 THEN AllWiped ELSE SerialStep(g[k - 1], ops[k])
      OBVIOUS
    <3> HIDE DEF g, h
    <3> QED BY <2>7, <3>1, <3>2
  <2>9. g = h
    <3>1. g = [k \in 0 .. m |-> g[k]] /\ h = [k \in 0 .. m |-> h[k]]
      OBVIOUS
    <3> HIDE DEF g, h
    <3> QED BY <2>8, <3>1
  <2>10. SerialTo(g, m)
    <3> HIDE DEF g
    <3> QED BY <2>9 DEF SerialTo
  <2> QED BY <1>3, <2>10
<1> QED BY <1>4, <1>5

(* So the states of the serial code are what their definition says.        *)
LEMMA SerialIs ==
  ASSUME Len(ops) \in Nat
  PROVE  /\ SerialStates[0] = AllWiped
         /\ \A k \in 1 .. Len(ops) : SerialStates[k] = SerialStep(SerialStates[k - 1], ops[k])
<1>1. \E f : SerialTo(f, Len(ops))
  BY SerialExists
<1>2. SerialStates = CHOOSE f : SerialTo(f, Len(ops))
  BY Zenon DEF SerialStates, SerialTo, AllWiped
<1>3. SerialTo(SerialStates, Len(ops))
  BY <1>1, <1>2, Zenon
<1>4. \A k \in 0 .. Len(ops) :
        SerialStates[k] = IF k = 0 THEN AllWiped ELSE SerialStep(SerialStates[k - 1], ops[k])
  BY <1>3 DEF SerialTo
<1> QED BY <1>4

(* A list of operations that passed the checks.                            *)
OpRecords == [iHash : Nat, hashOperation : {"append", "result", "other"}, data : Seq(Int)]

OpsPassed ==
  /\ ops \in Seq(OpRecords)
  /\ \A k \in 1 .. Len(ops) : Len(ops[k].data) \in Words /\ Valid(ops[k])

LEMMA OpIs ==
  ASSUME OpsPassed, NEW k \in 1 .. Len(ops)
  PROVE  /\ Len(ops) \in Nat /\ DOMAIN ops = 1 .. Len(ops)
         /\ ops[k].iHash \in StateIndex /\ ops[k].hashOperation \in {"append", "result"}
         /\ ops[k].data \in Seq(Int) /\ Len(ops[k].data) \in Words /\ Len(ops[k].data) \in Nat
<1>1. ops \in Seq(OpRecords) /\ Valid(ops[k]) /\ Len(ops[k].data) \in Words
  BY DEF OpsPassed
<1>2. Len(ops) \in Nat /\ DOMAIN ops = 1 .. Len(ops) /\ ops[k] \in OpRecords
  BY <1>1, LenProperties, ElementOfSeq
<1>3. ops[k].data \in Seq(Int)
  BY <1>2 DEF OpRecords
<1> QED BY <1>1, <1>2, <1>3, LenProperties DEF Valid

(* One step of the serial code changes the state it is about.              *)
LEMMA SerialNext ==
  ASSUME OpsPassed, NEW k \in 1 .. Len(ops), NEW s \in StateIndex,
         DOMAIN SerialStates[k - 1] = StateIndex
  PROVE  /\ DOMAIN SerialStates[k] = StateIndex
         /\ s # ops[k].iHash => SerialStates[k][s] = SerialStates[k - 1][s]
         /\ s = ops[k].iHash /\ ops[k].hashOperation = "append"
              => SerialStates[k][s] = HashAppend(SerialStates[k - 1][s], ops[k].data)
         /\ s = ops[k].iHash /\ ops[k].hashOperation # "append" => SerialStates[k][s] = WipedState
<1>1. SerialStates[k] = SerialStep(SerialStates[k - 1], ops[k])
  BY OpIs, SerialIs
<1> DEFINE p == SerialStates[k - 1]
           n == SerialStates[k]
<1>2. n = [p EXCEPT ![ops[k].iHash] =
             IF ops[k].hashOperation = "append" THEN HashAppend(p[ops[k].iHash], ops[k].data) ELSE WipedState]
  BY <1>1 DEF SerialStep, HashResult
<1> HIDE DEF p, n
<1>3. DOMAIN p = StateIndex
  BY DEF p
<1>4. DOMAIN n = StateIndex
  BY <1>2, <1>3
<1>5. n[s] = IF s = ops[k].iHash
             THEN IF ops[k].hashOperation = "append" THEN HashAppend(p[s], ops[k].data) ELSE WipedState
             ELSE p[s]
  BY <1>2, <1>3
<1> QED BY <1>4, <1>5 DEF p, n

(* A held message is the one the state has in its parts.                   *)
LEMMA HeldIsMessage ==
  ASSUME NEW st, NEW m, Holds(st, m)
  PROVE  Message(st) = m /\ m \in Seq(Int)
  BY HeldIsBytes DEF Holds, Message

(* A wiped state holds the empty message.                                  *)
LEMMA WipedHolds == Holds(WipedState, <<>>) /\ Message(WipedState) = <<>>
<1>1. Holds(WipedState, <<>>)
  BY HoldsNothing, ZeroIsBuffer DEF WipedState
<1> QED BY <1>1, HeldIsMessage

(* The states of the serial code hold messages, after every operation.     *)
SerialHoldsAt(k) ==
  /\ DOMAIN SerialStates[k] = StateIndex
  /\ \A s \in StateIndex : Holds(SerialStates[k][s], Message(SerialStates[k][s]))

LEMMA SerialHolds ==
  ASSUME OpsPassed, Len(ops) \in Nat
  PROVE  \A k \in 0 .. Len(ops) : SerialHoldsAt(k)
<1> DEFINE S == {k \in 0 .. Len(ops) : ~SerialHoldsAt(k)}
<1> SUFFICES ASSUME S # {} PROVE FALSE
  OBVIOUS
<1>1. S \in SUBSET Nat
  OBVIOUS
<1> HIDE DEF S
<1>2. PICK k \in S : \A l \in S : k <= l
  BY <1>1, LeastNatural
<1> USE DEF S
<1>3. k \in 0 .. Len(ops) /\ ~SerialHoldsAt(k)
  BY <1>2
<1>4. CASE k = 0
  <2>1. SerialStates[k] = AllWiped
    BY <1>4, SerialIs
  <2>2. DOMAIN AllWiped = StateIndex /\ \A s \in StateIndex : AllWiped[s] = WipedState
    BY DEF AllWiped
  <2>3. SerialHoldsAt(k)
    BY <2>1, <2>2, WipedHolds DEF SerialHoldsAt
  <2> QED BY <1>3, <2>3
<1>5. CASE k # 0
  <2>1. k - 1 \in 0 .. Len(ops) /\ ~(k <= k - 1) /\ k \in 1 .. Len(ops)
    BY <1>3, <1>5
  <2>2. SerialHoldsAt(k - 1)
    BY <1>2, <2>1
  <2>3. DOMAIN SerialStates[k - 1] = StateIndex
    BY <2>2 DEF SerialHoldsAt
  <2>4. ASSUME NEW s \in StateIndex PROVE Holds(SerialStates[k][s], Message(SerialStates[k][s]))
    <3> DEFINE p == SerialStates[k - 1][s]
               n == SerialStates[k][s]
    <3>1. Holds(p, Message(p))
      BY <2>2 DEF SerialHoldsAt
    <3>2. /\ s # ops[k].iHash => n = p
          /\ s = ops[k].iHash /\ ops[k].hashOperation = "append" => n = HashAppend(p, ops[k].data)
          /\ s = ops[k].iHash /\ ops[k].hashOperation # "append" => n = WipedState
      BY <2>1, <2>3, SerialNext
    <3>3. ops[k].data \in Seq(Int) /\ Len(ops[k].data) \in Words
      BY <2>1, OpIs
    <3> HIDE DEF p, n
    <3>4. Message(p) \in Seq(Int)
      BY <3>1, HeldIsMessage
    <3>5. Holds(HashAppend(p, ops[k].data), Message(p) \o ops[k].data)
      BY <3>1, <3>3, <3>4, AppendHolds
    <3>6. \E m : Holds(n, m)
      BY <3>1, <3>2, <3>5, WipedHolds
    <3>7. Holds(n, Message(n))
      BY <3>6, HeldIsMessage
    <3> QED BY <3>7 DEF n
  <2>5. DOMAIN SerialStates[k] = StateIndex
    <3>1. ops[k].iHash \in StateIndex
      BY <2>1, OpIs
    <3> QED BY <2>1, <2>3, <3>1, SerialNext
  <2> QED BY <1>3, <2>4, <2>5 DEF SerialHoldsAt
<1> QED BY <1>4, <1>5

(* What an operation does to the message of its state.                     *)
MessageAt(k, s) == Message(SerialStates[k][s])

LEMMA MessageNext ==
  ASSUME OpsPassed, NEW k \in 1 .. Len(ops), NEW s \in StateIndex, s = ops[k].iHash
  PROVE  /\ MessageAt(k - 1, s) \in Seq(Int)
         /\ Holds(SerialStates[k - 1][s], MessageAt(k - 1, s))
         /\ ops[k].hashOperation = "append" => MessageAt(k, s) = MessageAt(k - 1, s) \o ops[k].data
         /\ ops[k].hashOperation = "result" => MessageAt(k, s) = <<>>
<1>1. Len(ops) \in Nat /\ ops[k].data \in Seq(Int) /\ Len(ops[k].data) \in Words
  BY OpIs
<1>2. k - 1 \in 0 .. Len(ops)
  BY <1>1
<1>3. SerialHoldsAt(k - 1)
  BY <1>1, <1>2, SerialHolds
<1> DEFINE p == SerialStates[k - 1][s]
           n == SerialStates[k][s]
<1>4. Holds(p, Message(p)) /\ DOMAIN SerialStates[k - 1] = StateIndex
  BY <1>3 DEF SerialHoldsAt
<1>5. /\ ops[k].hashOperation = "append" => n = HashAppend(p, ops[k].data)
      /\ ops[k].hashOperation # "append" => n = WipedState
  BY <1>4, SerialNext
<1> HIDE DEF p, n
<1>6. Message(p) \in Seq(Int)
  BY <1>4, HeldIsMessage
<1>7. Holds(HashAppend(p, ops[k].data), Message(p) \o ops[k].data)
  BY <1>1, <1>4, <1>6, AppendHolds
<1>8. Message(HashAppend(p, ops[k].data)) = Message(p) \o ops[k].data
  BY <1>7, HeldIsMessage
<1>9. ops[k].hashOperation = "append" => Message(n) = Message(p) \o ops[k].data
  BY <1>5, <1>8
<1>10. ops[k].hashOperation = "result" => Message(n) = <<>>
  BY <1>5, WipedHolds
<1> QED BY <1>4, <1>6, <1>9, <1>10 DEF MessageAt, p, n

(* Operations on other states leave a state alone.                         *)
LEMMA SerialSkips ==
  ASSUME OpsPassed, Len(ops) \in Nat, NEW s \in StateIndex,
         NEW a \in 0 .. Len(ops), NEW b \in a .. Len(ops),
         \A k \in a + 1 .. b : ops[k].iHash # s
  PROVE  SerialStates[b][s] = SerialStates[a][s]
<1> DEFINE S == {k \in a .. b : SerialStates[k][s] # SerialStates[a][s]}
<1>0. a \in Nat /\ b \in Nat /\ a <= b /\ b <= Len(ops)
  OBVIOUS
<1> SUFFICES ASSUME S # {} PROVE FALSE
  BY <1>0
<1>1. S \in SUBSET Nat
  BY <1>0
<1> HIDE DEF S
<1>2. PICK k \in S : \A l \in S : k <= l
  BY <1>1, LeastNatural
<1> USE DEF S
<1>3. k \in a .. b /\ SerialStates[k][s] # SerialStates[a][s]
  BY <1>2
<1>4. k # a
  BY <1>3
<1>5. k - 1 \in a .. b /\ ~(k <= k - 1) /\ k \in 1 .. Len(ops) /\ k \in a + 1 .. b /\ k - 1 \in 0 .. Len(ops)
  BY <1>0, <1>3, <1>4
<1>6. SerialStates[k - 1][s] = SerialStates[a][s]
  BY <1>2, <1>5
<1>7. SerialHoldsAt(k - 1)
  BY <1>5, SerialHolds
<1>8. DOMAIN SerialStates[k - 1] = StateIndex
  BY <1>7 DEF SerialHoldsAt
<1>9. SerialStates[k][s] = SerialStates[k - 1][s]
  BY <1>5, <1>8, SerialNext
<1> QED BY <1>3, <1>6, <1>9
-----------------------------------------------------------------------------
(* The first operation of a queue.                                         *)
LEMMA QueueHead ==
  ASSUME Len(ops) \in Nat, NEW s, NEW nx, NEW n, Queued(s, nx, n), nx # <<>>
  PROVE  /\ Head(nx) \in 1 .. Len(ops) /\ Before(nx) = Head(nx) - 1
         /\ Before(nx) \in 0 .. Len(ops)
         /\ ops[Head(nx)].iHash = s
<1>1. Before(nx) = Head(nx) - 1
  BY DEF Before
<1>2. /\ nx \in Seq(1 .. Len(ops))
      /\ \A p \in DOMAIN nx : ops[nx[p]].iHash = s
  BY DEF Queued
<1>3. 1 \in DOMAIN nx /\ Head(nx) = nx[1] /\ nx[1] \in 1 .. Len(ops)
  BY <1>2
<1> QED BY <1>1, <1>2, <1>3

(* No operation of the state is before the first of its queue but those    *)
(* that are done.                                                          *)
LEMMA QueueSettles ==
  ASSUME Len(ops) \in Nat, NEW s, NEW nx, NEW n \in 0 .. Len(ops), Queued(s, nx, n)
  PROVE  /\ Before(nx) \in n .. Len(ops)
         /\ Queued(s, nx, Before(nx))
         /\ \A k \in n + 1 .. Before(nx) : ops[k].iHash # s
<1>1. /\ nx \in Seq(1 .. Len(ops)) /\ Len(nx) \in Nat /\ DOMAIN nx = 1 .. Len(nx)
      /\ \A p \in DOMAIN nx : nx[p] > n /\ ops[nx[p]].iHash = s /\ nx[p] \in 1 .. Len(ops)
      /\ \A p, q \in DOMAIN nx : p < q => nx[p] < nx[q]
      /\ \A k \in n + 1 .. Len(ops) : ops[k].iHash = s => \E p \in DOMAIN nx : nx[p] = k
  <2>1. nx \in Seq(1 .. Len(ops))
    BY DEF Queued
  <2>2. Len(nx) \in Nat /\ DOMAIN nx = 1 .. Len(nx) /\ \A p \in DOMAIN nx : nx[p] \in 1 .. Len(ops)
    BY <2>1
  <2> QED BY <2>1, <2>2 DEF Queued
<1>2. CASE nx = <<>>
  <2>1. Before(nx) = Len(ops) /\ DOMAIN nx = {}
    BY <1>2 DEF Before
  <2> QED BY <1>1, <2>1 DEF Queued
<1>3. CASE nx # <<>>
  <2>1. 1 \in DOMAIN nx /\ Before(nx) = nx[1] - 1 /\ nx[1] \in 1 .. Len(ops) /\ nx[1] > n
    <3>1. 1 \in DOMAIN nx /\ Head(nx) = nx[1]
      BY <1>1, <1>3
    <3> QED BY <1>1, <1>3, <3>1 DEF Before
  <2>2. \A p \in DOMAIN nx : nx[p] >= nx[1]
    <3> TAKE p \in DOMAIN nx
    <3>1. p = 1 \/ 1 < p
      BY <1>1
    <3>2. nx[p] \in Int /\ nx[1] \in Int
      BY <1>1, <2>1
    <3> QED BY <1>1, <2>1, <3>1, <3>2
  <2>3. Before(nx) \in n .. Len(ops)
    BY <2>1
  <2>4. ASSUME NEW k \in n + 1 .. Before(nx) PROVE ops[k].iHash # s
    <3> SUFFICES ASSUME ops[k].iHash = s PROVE FALSE
      OBVIOUS
    <3>1. k \in n + 1 .. Len(ops) /\ k < nx[1]
      BY <2>1
    <3>2. PICK p \in DOMAIN nx : nx[p] = k
      BY <1>1, <3>1
    <3> QED BY <2>1, <2>2, <3>1, <3>2
  <2>5. \A p \in DOMAIN nx : nx[p] > Before(nx)
    <3> TAKE p \in DOMAIN nx
    <3>1. nx[p] \in Int /\ nx[p] >= nx[1]
      BY <1>1, <2>2
    <3> QED BY <2>1, <3>1
  <2>6. \A k \in Before(nx) + 1 .. Len(ops) : k \in n + 1 .. Len(ops)
    BY <2>3
  <2>7. Queued(s, nx, Before(nx))
    BY <1>1, <2>5, <2>6 DEF Queued
  <2> QED BY <2>3, <2>4, <2>7
<1> QED BY <1>2, <1>3

(* The queue behind its first operation.                                   *)
LEMMA QueueTail ==
  ASSUME Len(ops) \in Nat, NEW s, NEW nx, Queued(s, nx, Before(nx)), nx # <<>>
  PROVE  Queued(s, Tail(nx), Head(nx)) /\ Head(nx) \in 1 .. Len(ops)
<1>1. Before(nx) = Head(nx) - 1 /\ Head(nx) \in 1 .. Len(ops)
  BY QueueHead
<1>2. /\ nx \in Seq(1 .. Len(ops)) 
      /\ \A p \in DOMAIN nx : ops[nx[p]].iHash = s 
      /\ \A p, q \in DOMAIN nx : p < q => nx[p] < nx[q]
      /\ \A k \in Before(nx) + 1 .. Len(ops) : ops[k].iHash = s => \E p \in DOMAIN nx : nx[p] = k
  BY DEF Queued
<1> DEFINE t == Tail(nx)
<1>3. /\ t \in Seq(1 .. Len(ops)) /\ Len(t) = Len(nx) - 1 /\ Len(nx) \in Nat /\ Len(nx) > 0
      /\ \A p \in 1 .. Len(t) : t[p] = nx[p + 1]
      /\ DOMAIN t = 1 .. Len(t) /\ DOMAIN nx = 1 .. Len(nx)
      /\ \A p \in 1 .. Len(nx) : nx[p] \in 1 .. Len(ops)
      /\ Head(nx) = nx[1]
  BY <1>2
<1> HIDE DEF t
<1>4. \A p \in DOMAIN t : p + 1 \in DOMAIN nx /\ 1 \in DOMAIN nx /\ 1 < p + 1 /\ t[p] = nx[p + 1]
  BY <1>3
<1>5. \A p \in DOMAIN t : t[p] > Head(nx) /\ ops[t[p]].iHash = s
  <2> TAKE p \in DOMAIN t
  <2>a. p + 1 \in DOMAIN nx /\ 1 \in DOMAIN nx /\ 1 < p + 1
    BY <1>4
  <2>b. nx[1] < nx[p + 1] /\ ops[nx[p + 1]].iHash = s
    BY <1>2, <2>a
  <2>1. nx[1] < nx[p + 1] /\ ops[nx[p + 1]].iHash = s /\ nx[1] \in Int /\ nx[p + 1] \in Int
    BY <1>3, <2>a, <2>b
  <2> QED BY <1>3, <1>4, <2>1
<1>6. \A p, q \in DOMAIN t : p < q => t[p] < t[q]
  <2> TAKE p, q \in DOMAIN t
  <2> HAVE p < q
  <2>1. p + 1 < q + 1
    BY <1>3
  <2> QED BY <1>2, <1>4, <2>1
<1>7. ASSUME NEW k \in Head(nx) + 1 .. Len(ops), ops[k].iHash = s PROVE \E p \in DOMAIN t : t[p] = k
  <2>1. k \in Before(nx) + 1 .. Len(ops) /\ k # nx[1]
    BY <1>1, <1>3
  <2>2. PICK q \in DOMAIN nx : nx[q] = k
    BY <1>2, <1>7, <2>1
  <2>3. q - 1 \in DOMAIN t /\ (q - 1) + 1 = q
    BY <1>3, <2>1, <2>2
  <2> QED BY <1>4, <2>2, <2>3
<1>8. Queued(s, t, Head(nx))
  BY <1>3, <1>5, <1>6, <1>7 DEF Queued
<1> QED BY <1>1, <1>8 DEF t

(* When the first operation of a queue is done, the queue behind it and    *)
(* the message behind it.                                                  *)
LEMMA QueueMoves ==
  ASSUME OpsPassed, Len(ops) \in Nat, NEW s \in StateIndex, NEW nx,
         Queued(s, nx, Before(nx)), nx # <<>>
  PROVE  /\ Queued(s, Tail(nx), Before(Tail(nx)))
         /\ Head(nx) \in 1 .. Len(ops) /\ Before(nx) = Head(nx) - 1 /\ ops[Head(nx)].iHash = s
         /\ Before(Tail(nx)) \in Head(nx) .. Len(ops)
         /\ \A k \in Head(nx) + 1 .. Before(Tail(nx)) : ops[k].iHash # s
         /\ MessageAt(Before(Tail(nx)), s) = MessageAt(Head(nx), s)
<1>1. Queued(s, Tail(nx), Head(nx)) /\ Head(nx) \in 1 .. Len(ops)
  BY QueueTail
<1>2. Before(nx) = Head(nx) - 1 /\ ops[Head(nx)].iHash = s
  BY QueueHead
<1> DEFINE h == Head(nx)
           t == Tail(nx)
<1>3. h \in 0 .. Len(ops) /\ Queued(s, t, h)
  BY <1>1
<1> HIDE DEF h, t
<1>4. /\ Before(t) \in h .. Len(ops) /\ Queued(s, t, Before(t))
      /\ \A k \in h + 1 .. Before(t) : ops[k].iHash # s
  BY <1>3, QueueSettles
<1>5. SerialStates[Before(t)][s] = SerialStates[h][s]
  <2> DEFINE b == Before(t)
  <2>1. b \in h .. Len(ops) /\ \A k \in h + 1 .. b : ops[k].iHash # s
    BY <1>4
  <2> HIDE DEF b
  <2>2. SerialStates[b][s] = SerialStates[h][s]
    BY <1>3, <2>1, SerialSkips
  <2> QED BY <2>2 DEF b
<1> QED BY <1>1, <1>2, <1>4, <1>5 DEF h, t, MessageAt

-----------------------------------------------------------------------------
(* Two sequences of bytes of known lengths, one behind the other, as a     *)
(* predicate, which the provers match as a whole.                          *)
JoinedAs(s, t, m, k) ==
  /\ s \o t \in Seq(Int) /\ Len(s \o t) = m + k
  /\ \A l \in 1 .. m + k : (s \o t)[l] = IF l <= m THEN s[l] ELSE t[l - m]

LEMMA Joins ==
  ASSUME NEW s \in Seq(Int), NEW t \in Seq(Int), NEW m, NEW k, Len(s) = m, Len(t) = k
  PROVE  JoinedAs(s, t, m, k)
  BY Joined DEF JoinedAs

(* A sequence of bytes in two parts.                                       *)
Splits(data, n) ==
  /\ SubSeq(data, 1, n) \in Seq(Int) /\ Len(SubSeq(data, 1, n)) = n
  /\ SubSeq(data, n + 1, Len(data)) \in Seq(Int)
  /\ Len(SubSeq(data, n + 1, Len(data))) = Len(data) - n
  /\ SubSeq(data, 1, n) \o SubSeq(data, n + 1, Len(data)) = data

LEMMA InTwoParts ==
  ASSUME NEW data \in Seq(Int), NEW n \in 0 .. Len(data)
  PROVE  Splits(data, n)
<1>1. Len(data) \in Nat /\ n \in Nat /\ n <= Len(data)
  BY LenProperties
<1>2. 1 \in 1 .. Len(data) + 1 /\ n \in 1 - 1 .. Len(data) /\ n + 1 \in 1 .. Len(data) + 1
      /\ Len(data) \in (n + 1) - 1 .. Len(data)
  BY <1>1
<1> DEFINE a == SubSeq(data, 1, n)
           z == SubSeq(data, n + 1, Len(data))
<1>3. a \in Seq(Int) /\ Len(a) = n
  <2>1. a \in Seq(Int) /\ Len(a) = n - 1 + 1
    BY <1>2, PartOf
  <2> QED BY <1>1, <2>1
<1>4. z \in Seq(Int) /\ Len(z) = Len(data) - n
  <2>1. z \in Seq(Int) /\ Len(z) = Len(data) - (n + 1) + 1
    BY <1>2, PartOf
  <2> QED BY <1>1, <2>1
<1>5. (\A k \in 1 .. n : a[k] = data[k]) /\ \A k \in 1 .. Len(data) - n : z[k] = data[n + k]
  <2>1. \A k \in 1 .. n : a[k] = data[k]
    BY <1>1
  <2>2. \A k \in 1 .. Len(data) - n : z[k] = data[n + k]
    BY <1>1
  <2> QED BY <2>1, <2>2
<1> HIDE DEF a, z
<1>6. /\ a \o z \in Seq(Int) /\ Len(a \o z) = n + (Len(data) - n)
      /\ \A k \in 1 .. n + (Len(data) - n) : (a \o z)[k] = IF k <= n THEN a[k] ELSE z[k - n]
  <2>1. JoinedAs(a, z, n, Len(data) - n)
    BY <1>3, <1>4, Joins
  <2> QED BY <2>1 DEF JoinedAs
<1>7. \A k \in 1 .. Len(data) : (a \o z)[k] = data[k]
  <2> TAKE k \in 1 .. Len(data)
  <2>1. CASE k <= n
    BY <1>1, <1>5, <1>6, <2>1
  <2>2. CASE ~(k <= n)
    <3>1. k - n \in 1 .. Len(data) - n /\ n + (k - n) = k /\ k \in 1 .. n + (Len(data) - n)
      BY <1>1, <2>2
    <3>2. (a \o z)[k] = z[k - n]
      BY <1>6, <2>2, <3>1
    <3>3. z[k - n] = data[n + (k - n)]
      BY <1>5, <3>1
    <3> QED BY <3>1, <3>2, <3>3
  <2> QED BY <2>1, <2>2
<1>8. a \o z = data
  <2> DEFINE j == a \o z
  <2>1. j \in Seq(Int) /\ Len(j) = Len(data) /\ \A k \in 1 .. Len(data) : j[k] = data[k]
    BY <1>1, <1>6, <1>7
  <2> HIDE DEF j
  <2>2. j = data
    BY <2>1, SeqEqual
  <2> QED BY <2>2 DEF j
<1> QED BY <1>3, <1>4, <1>8 DEF Splits, a, z

(* The whole blocks of some data.                                          *)
LEMMA WholeIs ==
  ASSUME NEW data \in Seq(Int)
  PROVE  /\ Whole(data) \in Seq(Int) /\ Len(Whole(data)) % InputBlockSize = 0
         /\ Len(data) < InputBlockSize => Whole(data) = <<>>
         /\ Len(data) = InputBlockSize => Whole(data) = data
<1> DEFINE B == InputBlockSize
           q == Len(data) \div B
           r == Len(data) % B
           n == Len(data) - r
<1>1. B \in Nat \ {0} /\ Len(data) \in Nat
  BY HashAssumption, LenProperties
<1>2. q \in Nat /\ r \in 0 .. B - 1 /\ Len(data) = q * B + r
  BY <1>1, Division
<1>3. Whole(data) = SubSeq(data, 1, n)
  BY DEF Whole
<1>a. Len(data) < B => r = Len(data)
  BY <1>1
<1>b. Len(data) = B => r = 0
  BY <1>1
<1> HIDE DEF q, r, B
<1>4. q * B \in Nat
  BY <1>1, <1>2
<1>5. n = q * B /\ n \in 0 .. Len(data)
  BY <1>1, <1>2, <1>4
<1> HIDE DEF n
<1>6. Splits(data, n)
  BY <1>5, InTwoParts
<1>7. Whole(data) \in Seq(Int) /\ Len(Whole(data)) = n
  BY <1>3, <1>6 DEF Splits
<1>8. n % B = 0
  BY <1>2, <1>4, <1>5, WholeBlocks DEF B
<1>9. Len(data) < B => Whole(data) = <<>>
  <2> HAVE Len(data) < B
  <2>1. n = 0
    BY <1>1, <1>a DEF n
  <2> QED BY <1>7, <2>1
<1>10. Len(data) = B => Whole(data) = data
  <2> HAVE Len(data) = B
  <2>1. n = Len(data)
    BY <1>1, <1>b DEF n
  <2> QED BY <1>1, <1>3, <2>1
<1> QED BY <1>7, <1>8, <1>9, <1>10 DEF B

(* Whole blocks taken off the front.                                       *)
LEMMA WholeSplits ==
  ASSUME NEW data \in Seq(Int), NEW n \in 0 .. Len(data), n % InputBlockSize = 0
  PROVE  Whole(data) = SubSeq(data, 1, n) \o Whole(SubSeq(data, n + 1, Len(data)))
<1> DEFINE B == InputBlockSize
           L == Len(data)
           z == SubSeq(data, n + 1, L)
           a == SubSeq(data, 1, n)
           q == n \div B
           r == (L - n) % B
<1>1. B \in Nat \ {0} /\ L \in Nat /\ n \in Nat /\ n <= L /\ L - n \in Nat
  BY HashAssumption, LenProperties
<1>2. q \in Nat /\ n = q * B + 0
  BY <1>1, Division
<1>3. (q * B + (L - n)) % B = r
  <2> HIDE DEF q
  <2> QED BY <1>1, <1>2, MultipleDropped
<1>4. L % B = r
  <2>1. q * B + (L - n) = L
    <3> HIDE DEF q
    <3>1. q * B \in Int
      BY <1>1, <1>2
    <3> QED BY <1>1, <1>2, <3>1
  <2> QED BY <1>3, <2>1
<1>5. r \in 0 .. B - 1 /\ r <= L - n
  <2>1. (L - n) \div B \in Nat /\ r \in 0 .. B - 1 /\ L - n = ((L - n) \div B) * B + r
    BY <1>1, Division
  <2>2. ((L - n) \div B) * B \in Nat
    BY <1>1, <2>1
  <2> HIDE DEF r
  <2> QED BY <1>1, <2>1, <2>2
<1>6. Splits(data, n)
  BY InTwoParts
<1>7. /\ z \in Seq(Int) /\ Len(z) = L - n /\ a \in Seq(Int) /\ Len(a) = n
      /\ \A k \in 1 .. L - n : z[k] = data[n + k]
      /\ \A k \in 1 .. n : a[k] = data[k]
  <2>1. z \in Seq(Int) /\ Len(z) = L - n /\ a \in Seq(Int) /\ Len(a) = n
    BY <1>6 DEF Splits
  <2>2. \A k \in 1 .. L - n : z[k] = data[n + k]
    BY <1>1
  <2>3. \A k \in 1 .. n : a[k] = data[k]
    BY <1>1
  <2> QED BY <2>1, <2>2, <2>3
<1>8. Whole(data) = SubSeq(data, 1, L - r) /\ Whole(z) = SubSeq(z, 1, (L - n) - r)
  BY <1>4, <1>7 DEF Whole
<1> HIDE DEF z, a, q, r, L
<1>9. /\ SubSeq(data, 1, L - r) \in Seq(Int) /\ Len(SubSeq(data, 1, L - r)) = L - r
      /\ \A k \in 1 .. L - r : SubSeq(data, 1, L - r)[k] = data[k]
  <2>1. L - r \in 0 .. Len(data)
    BY <1>1, <1>5 DEF L
  <2>2. Splits(data, L - r)
    BY <2>1, InTwoParts
  <2>3. \A k \in 1 .. L - r : SubSeq(data, 1, L - r)[k] = data[k]
    BY <2>1
  <2> QED BY <2>2, <2>3 DEF Splits
<1>10. /\ SubSeq(z, 1, (L - n) - r) \in Seq(Int) /\ Len(SubSeq(z, 1, (L - n) - r)) = (L - n) - r
       /\ \A k \in 1 .. (L - n) - r : SubSeq(z, 1, (L - n) - r)[k] = z[k]
  <2>1. (L - n) - r \in 0 .. Len(z)
    BY <1>1, <1>5, <1>7
  <2>2. Splits(z, (L - n) - r)
    BY <1>7, <2>1, InTwoParts
  <2>3. \A k \in 1 .. (L - n) - r : SubSeq(z, 1, (L - n) - r)[k] = z[k]
    BY <1>7, <2>1
  <2> QED BY <2>2, <2>3 DEF Splits
<1> DEFINE y == SubSeq(z, 1, (L - n) - r)
           w == SubSeq(data, 1, L - r)
<1> HIDE DEF y, w
<1>11. /\ a \o y \in Seq(Int) /\ Len(a \o y) = n + ((L - n) - r)
       /\ \A k \in 1 .. n + ((L - n) - r) : (a \o y)[k] = IF k <= n THEN a[k] ELSE y[k - n]
  <2>1. y \in Seq(Int) /\ Len(y) = (L - n) - r
    BY <1>10 DEF y
  <2>2. JoinedAs(a, y, n, (L - n) - r)
    BY <1>7, <2>1, Joins
  <2> QED BY <2>2 DEF JoinedAs
<1>12. \A k \in 1 .. L - r : w[k] = (a \o y)[k]
  <2> TAKE k \in 1 .. L - r
  <2>0. k \in Int /\ k <= L - r /\ k >= 1 /\ r \in Int /\ k \in 1 .. n + ((L - n) - r)
    BY <1>1, <1>5
  <2>1. w[k] = data[k]
    BY <1>9 DEF w
  <2>2. CASE k <= n
    <3>1. k \in 1 .. n
      BY <1>1, <2>0, <2>2
    <3>2. (a \o y)[k] = a[k]
      BY <1>11, <2>0, <2>2, Zenon
    <3>3. a[k] = data[k]
      BY <1>7, <3>1, Zenon
    <3> QED BY <2>1, <3>2, <3>3
  <2>3. CASE ~(k <= n)
    <3>1. k - n \in 1 .. (L - n) - r /\ k - n \in 1 .. L - n /\ n + (k - n) = k
      BY <1>1, <1>5, <2>0, <2>3
    <3>2. (a \o y)[k] = y[k - n] /\ y[k - n] = z[k - n] /\ z[k - n] = data[n + (k - n)]
      BY <1>7, <1>10, <1>11, <2>0, <2>3, <3>1 DEF y
    <3> QED BY <2>1, <3>1, <3>2
  <2> QED BY <2>2, <2>3
<1>13. w = a \o y
  <2>1. n + ((L - n) - r) = L - r
    BY <1>1, <1>5
  <2> QED BY <1>9, <1>11, <1>12, <2>1, SeqEqual DEF w
<1> QED BY <1>8, <1>13 DEF w, y, a, z, L

-----------------------------------------------------------------------------
(* A state between two operations.                                         *)
Between(t, x, m) ==
  /\ t \in HashStates /\ x.data \in Seq(Int)
  /\ Len(t.chain) % InputBlockSize = 0
  /\ Ahead(t, x) \o SubSeq(t.buffer, 1, t.bytesInBuffer) = m
  /\ CountIs(t, Len(m))

(* The fields of a state.                                                  *)
LEMMA StateFields ==
  ASSUME NEW t \in HashStates
  PROVE  /\ t.chain \in Seq(Int) /\ t.buffer \in Buffers /\ t.bytesInBuffer \in 0 .. InputBlockSize - 1
         /\ t.dataLengthL \in Words /\ t.dataLengthH \in Words
         /\ t.bytesInBuffer \in Nat
         /\ SubSeq(t.buffer, 1, t.bytesInBuffer) \in Seq(Int)
         /\ Len(SubSeq(t.buffer, 1, t.bytesInBuffer)) = t.bytesInBuffer
         /\ t.bytesInBuffer = 0 => SubSeq(t.buffer, 1, t.bytesInBuffer) = <<>>
<1>1. /\ t.chain \in Seq(Int) /\ t.buffer \in Buffers /\ t.bytesInBuffer \in 0 .. InputBlockSize - 1
      /\ t.dataLengthL \in Words /\ t.dataLengthH \in Words
  BY DEF HashStates, Buffers
<1>2. InputBlockSize \in Nat \ {0}
  BY HashAssumption
<1>3. t.bytesInBuffer \in Nat
  BY <1>1, <1>2
<1>4. \A k \in 1 .. t.bytesInBuffer : t.buffer[k] \in Int
  BY <1>1, <1>2 DEF Buffers
<1>5. /\ SubSeq(t.buffer, 1, t.bytesInBuffer) \in Seq(Int)
      /\ Len(SubSeq(t.buffer, 1, t.bytesInBuffer)) = t.bytesInBuffer
  BY <1>3, <1>4, SubSeqProperties
<1>6. t.bytesInBuffer = 0 => SubSeq(t.buffer, 1, t.bytesInBuffer) = <<>>
  BY SubSeqEmpty
<1> QED BY <1>1, <1>3, <1>5, <1>6

(* Two multiples of the block size.                                        *)
LEMMA SumOfBlocks ==
  ASSUME NEW a \in Nat, NEW c \in Nat, a % InputBlockSize = 0, c % InputBlockSize = 0
  PROVE  (a + c) % InputBlockSize = 0
<1> DEFINE q == a \div InputBlockSize
<1>1. InputBlockSize \in Nat \ {0}
  BY HashAssumption
<1>2. q \in Nat /\ a = q * InputBlockSize + (a % InputBlockSize)
  BY <1>1, Division
<1> HIDE DEF q
<1>3. (q * InputBlockSize + c) % InputBlockSize = c % InputBlockSize
  BY <1>1, <1>2, MultipleDropped
<1>4. q * InputBlockSize \in Nat
  BY <1>1, <1>2
<1>5. a = q * InputBlockSize
  BY <1>2, <1>4
<1> QED BY <1>3, <1>5

(* The chaining state with the blocks in hand compressed.                  *)
LEMMA AheadIs ==
  ASSUME NEW t \in HashStates, NEW x, x.data \in Seq(Int), Len(t.chain) % InputBlockSize = 0
  PROVE  /\ Ahead(t, x) \in Seq(Int) /\ Len(Ahead(t, x)) % InputBlockSize = 0
         /\ Len(x.data) < InputBlockSize => Ahead(t, x) = t.chain
         /\ Len(x.data) = InputBlockSize => Ahead(t, x) = t.chain \o x.data
<1> DEFINE c == t.chain
           w == Whole(x.data)
<1>1. c \in Seq(Int) /\ Len(c) \in Nat
  BY StateFields, LenProperties
<1>2. /\ w \in Seq(Int) /\ Len(w) % InputBlockSize = 0 /\ Len(w) \in Nat
      /\ Len(x.data) < InputBlockSize => w = <<>>
      /\ Len(x.data) = InputBlockSize => w = x.data
  BY WholeIs, LenProperties
<1>3. Ahead(t, x) = c \o w
  BY DEF Ahead
<1>4. Len(c) % InputBlockSize = 0
  OBVIOUS
<1> HIDE DEF c, w
<1>5. c \o w \in Seq(Int) /\ Len(c \o w) = Len(c) + Len(w)
  BY <1>1, <1>2, ConcatProperties
<1>6. (Len(c) + Len(w)) % InputBlockSize = 0
  BY <1>1, <1>2, <1>4, SumOfBlocks
<1>7. w = <<>> => c \o w = c
  BY <1>1, ConcatEmptySeq
<1> QED BY <1>2, <1>3, <1>5, <1>6, <1>7 DEF c

(* What Right says of a state between two operations.                      *)
LEMMA NextIs ==
  ASSUME NEW t, NEW x, NEW m, NEW op, x.processingState = "NEXT"
  PROVE  Right(t, x, m, op) <=> Between(t, x, m)
<1> DEFINE st == [t EXCEPT !.chain = Ahead(t, x)]
<1>1. Right(t, x, m, op) <=> /\ t \in HashStates /\ x.data \in Seq(Int)
                             /\ Len(t.chain) % InputBlockSize = 0 /\ Holds(st, m)
  BY DEF Right
<1>2. ASSUME t \in HashStates, x.data \in Seq(Int), Len(t.chain) % InputBlockSize = 0
      PROVE  Holds(st, m) <=> /\ Ahead(t, x) \o SubSeq(t.buffer, 1, t.bytesInBuffer) = m
                              /\ CountIs(t, Len(m))
  <2> DEFINE c == Ahead(t, x)
  <2>1. c \in Seq(Int) /\ Len(c) % InputBlockSize = 0
    BY <1>2, AheadIs
  <2> HIDE DEF c
  <2> DEFINE s == [t EXCEPT !.chain = c]
  <2>2. /\ s.chain = c /\ s.buffer = t.buffer /\ s.bytesInBuffer = t.bytesInBuffer
        /\ s.dataLengthL = t.dataLengthL /\ s.dataLengthH = t.dataLengthH
    BY <1>2 DEF HashStates
  <2>3. s \in HashStates
    BY <1>2, <2>1 DEF HashStates
  <2> HIDE DEF s
  <2>4. Holds(s, m) <=> c \o SubSeq(t.buffer, 1, t.bytesInBuffer) = m /\ CountIs(t, Len(m))
    BY <2>1, <2>2, <2>3 DEF Holds, CountIs
  <2> QED BY <2>4 DEF s, c
<1> HIDE DEF st
<1> QED BY <1>1, <1>2 DEF Between

(* With less than a block in hand, such a state holds its message.         *)
LEMMA BetweenHolds ==
  ASSUME NEW t, NEW x, NEW m, Between(t, x, m), Len(x.data) < InputBlockSize
  PROVE  Holds(t, m) /\ m \in Seq(Int)
<1>1. t \in HashStates /\ x.data \in Seq(Int) /\ Len(t.chain) % InputBlockSize = 0
  BY DEF Between
<1>2. Ahead(t, x) = t.chain
  BY <1>1, AheadIs
<1>3. Holds(t, m)
  BY <1>1, <1>2 DEF Between, Holds, CountIs
<1> QED BY <1>3, HeldIsBytes

(* And the other way round.                                                *)
LEMMA HoldsBetween ==
  ASSUME NEW t, NEW x, NEW m, Holds(t, m), x.data \in Seq(Int), Len(x.data) < InputBlockSize
  PROVE  Between(t, x, m)
<1>1. t \in HashStates /\ Len(t.chain) % InputBlockSize = 0
  BY DEF Holds
<1>2. Ahead(t, x) = t.chain
  BY <1>1, AheadIs
<1> QED BY <1>1, <1>2 DEF Between, Holds, CountIs

(* The length counted before the data is looked at.                        *)
LEMMA CountedIs ==
  ASSUME NEW t \in HashStates, NEW n \in Nat, NEW cb \in Words, CountIs(t, n)
  PROVE  /\ Counted(t, cb) \in HashStates /\ CountIs(Counted(t, cb), n + cb)
         /\ Counted(t, cb).chain = t.chain /\ Counted(t, cb).buffer = t.buffer
         /\ Counted(t, cb).bytesInBuffer = t.bytesInBuffer
<1> DEFINE l == LengthL(t, cb)
           h == LengthH(t, cb)
           c == [t EXCEPT !.dataLengthL = l, !.dataLengthH = h]
<1>1. l = (n + cb) % WordRange /\ h = ((n + cb) \div WordRange) % WordRange
  BY LengthCounts DEF CountIs
<1>2. l \in Words /\ h \in Words
  <2>1. WordRange \in Nat \ {0} /\ n + cb \in Nat
    BY HashAssumption DEF Words
  <2>2. (n + cb) \div WordRange \in Nat
    BY <2>1, Division
  <2> HIDE DEF l, h
  <2> QED BY <1>1, <2>1, <2>2 DEF Words
<1>3. Counted(t, cb) = c
  BY DEF Counted
<1> HIDE DEF l, h
<1>4. /\ c.chain = t.chain /\ c.buffer = t.buffer /\ c.bytesInBuffer = t.bytesInBuffer
      /\ c.dataLengthL = l /\ c.dataLengthH = h /\ c \in HashStates
  BY <1>2 DEF HashStates
<1> QED BY <1>1, <1>3, <1>4 DEF CountIs

-----------------------------------------------------------------------------
(* The bytes that go to a buffer in use, the buffer and the state then.    *)
Todo(t, d) == Least(InputBlockSize - t.bytesInBuffer, Len(d))
Filled(t, d) == Overwrite(t.buffer, t.bytesInBuffer, SubSeq(d, 1, Todo(t, d)))
Took(t, d) ==
  [Counted(t, Len(d)) EXCEPT !.buffer = Filled(t, d),
                             !.bytesInBuffer = InBuffer(t.bytesInBuffer + Todo(t, d))]

BytesTaken(t, m, d) ==
  /\ Todo(t, d) \in 0 .. Len(d)
  /\ t.bytesInBuffer + Todo(t, d) # InputBlockSize => Todo(t, d) = Len(d)
  /\ Took(t, d) \in HashStates /\ Took(t, d).chain = t.chain
  /\ CountIs(Took(t, d), Len(m) + Len(d))
  /\ Filled(t, d) \in Seq(Int) /\ Len(Filled(t, d)) = InputBlockSize
  /\ t.bytesInBuffer + Todo(t, d) # InputBlockSize
       => t.chain \o SubSeq(Took(t, d).buffer, 1, Took(t, d).bytesInBuffer) = m \o d
  /\ t.bytesInBuffer + Todo(t, d) = InputBlockSize
       => /\ Took(t, d).bytesInBuffer = 0
          /\ t.chain \o Filled(t, d) = m \o SubSeq(d, 1, Todo(t, d))

LEMMA TakesBytes ==
  ASSUME NEW t, NEW m, Holds(t, m), m \in Seq(Int), NEW d \in Seq(Int), Len(d) \in Words
  PROVE  BytesTaken(t, m, d)
<1> DEFINE B == InputBlockSize
           b == t.bytesInBuffer
           todo == Todo(t, d)
           part == SubSeq(d, 1, todo)
           buf == Filled(t, d)
           c == Counted(t, Len(d))
           head == SubSeq(t.buffer, 1, b)
           n == InBuffer(b + todo)
           new == Took(t, d)
<1>0. /\ t \in HashStates /\ CountIs(t, Len(m)) /\ t.chain \o head = m /\ Len(m) \in Nat
  BY LenProperties DEF Holds, CountIs
<1>1. /\ t.chain \in Seq(Int) /\ t.buffer \in Buffers /\ b \in 0 .. B - 1 /\ b \in Nat
      /\ head \in Seq(Int) /\ Len(head) = b /\ B \in Nat \ {0} /\ Len(d) \in Nat
  BY <1>0, StateFields, HashAssumption, LenProperties
<1>2. todo = IF B - b < Len(d) THEN B - b ELSE Len(d)
  BY DEF Todo, Least
<1> HIDE DEF B, b, todo
<1>3. /\ todo \in 0 .. Len(d) /\ b + todo <= B /\ (b + todo # B => todo = Len(d))
      /\ b \in 0 .. B /\ todo \in Nat
  BY <1>1, <1>2
<1>4. part \in Seq(Int) /\ Len(part) = todo /\ (todo = Len(d) => part = d)
  <2>1. Splits(d, todo)
    BY <1>3, InTwoParts
  <2>2. todo = Len(d) => part = d
    BY <1>1
  <2> QED BY <2>1, <2>2 DEF Splits
<1>5. buf = Overwrite(t.buffer, b, part)
  BY DEF Filled, b, todo
<1>6. /\ buf \in Buffers /\ buf \in Seq(Int) /\ Len(buf) = B
      /\ SubSeq(buf, 1, b + todo) = head \o part
  <2> HIDE DEF part, buf, head
  <2> DEFINE o == t.buffer
  <2>1. o \in Buffers
    BY <1>1
  <2> HIDE DEF o
  <2>2. /\ Overwrite(o, b, part) \in Buffers
        /\ Overwrite(o, b, part) \in Seq(Int)
        /\ Len(Overwrite(o, b, part)) = InputBlockSize
        /\ SubSeq(Overwrite(o, b, part), 1, b + Len(part)) = SubSeq(o, 1, b) \o part
    BY <1>3, <1>4, <2>1, OverwriteIs DEF B
  <2> QED BY <1>4, <1>5, <2>2 DEF o, head, B
<1>7. /\ c \in HashStates /\ CountIs(c, Len(m) + Len(d)) /\ c.chain = t.chain
  BY <1>0, CountedIs
<1>8. n \in 0 .. B - 1 /\ (b + todo = B => n = 0) /\ (b + todo # B => n = b + todo)
  BY <1>1, <1>3 DEF InBuffer, B
<1>9. new = [c EXCEPT !.buffer = buf, !.bytesInBuffer = n]
  BY DEF Took, b, todo
<1> HIDE DEF c, buf, n, new
<1>10. /\ new \in HashStates /\ new.chain = c.chain /\ new.buffer = buf /\ new.bytesInBuffer = n
       /\ new.dataLengthL = c.dataLengthL /\ new.dataLengthH = c.dataLengthH
  BY <1>6, <1>7, <1>8, <1>9 DEF HashStates, Buffers, B
<1>11. CountIs(new, Len(m) + Len(d))
  BY <1>7, <1>10 DEF CountIs
<1>12. (t.chain \o head) \o part = t.chain \o (head \o part)
  <2> DEFINE ch == t.chain
  <2>1. ch \in Seq(Int)
    BY <1>1
  <2> HIDE DEF head, part, ch
  <2>2. Regroups(ch, head, part)
    BY <1>1, <1>4, <2>1, RegroupThree, Zenon
  <2> QED BY <2>2 DEF Regroups, ch
<1>13. b + todo # B => t.chain \o SubSeq(new.buffer, 1, new.bytesInBuffer) = m \o d
  <2> HAVE b + todo # B
  <2>1. SubSeq(new.buffer, 1, new.bytesInBuffer) = head \o part
    BY <1>6, <1>8, <1>10
  <2>2. part = d
    BY <1>3, <1>4
  <2> QED BY <1>0, <1>12, <2>1, <2>2
<1>14. b + todo = B => new.bytesInBuffer = 0 /\ t.chain \o buf = m \o part
  <2> HAVE b + todo = B
  <2>1. SubSeq(buf, 1, B) = buf
    BY <1>1, <1>6
  <2>2. buf = head \o part
    BY <1>6, <2>1
  <2> QED BY <1>0, <1>8, <1>10, <1>12, <2>2
<1> QED BY <1>3, <1>6, <1>7, <1>10, <1>11, <1>13, <1>14 DEF BytesTaken, new, buf, B, b, todo

-----------------------------------------------------------------------------
(* A state in the midst of its queue.                                      *)
LEMMA RightParts ==
  ASSUME OpsPassed, Len(ops) \in Nat, NEW s \in StateIndex, NEW t, NEW x, RightFor(s, t, x), x.next # <<>>
  PROVE  /\ Queued(s, x.next, Before(x.next))
         /\ Head(x.next) \in 1 .. Len(ops) /\ ops[Head(x.next)].iHash = s
         /\ Before(x.next) = Head(x.next) - 1
         /\ Right(t, x, MessageAt(Head(x.next) - 1, s), ops[Head(x.next)])
         /\ MessageAt(Head(x.next) - 1, s) \in Seq(Int)
         /\ t \in HashStates /\ x.data \in Seq(Int) /\ Len(t.chain) % InputBlockSize = 0
<1>1. Queued(s, x.next, Before(x.next))
  BY DEF RightFor
<1>2. Head(x.next) \in 1 .. Len(ops) /\ ops[Head(x.next)].iHash = s /\ Before(x.next) = Head(x.next) - 1
  BY <1>1, QueueHead
<1>3. Right(t, x, MessageAt(Head(x.next) - 1, s), ops[Head(x.next)])
  BY <1>2 DEF RightFor, MessageAt
<1>4. MessageAt(Head(x.next) - 1, s) \in Seq(Int)
  BY <1>2, MessageNext
<1> QED BY <1>1, <1>2, <1>3, <1>4 DEF Right

(* A step within an operation.                                             *)
LEMMA Remains ==
  ASSUME NEW s, NEW t, NEW x, RightFor(s, t, x), x.next # <<>>, Before(x.next) = Head(x.next) - 1,
         NEW t1, NEW x1, x1.next = x.next,
         Right(t1, x1, MessageAt(Head(x.next) - 1, s), ops[Head(x.next)])
  PROVE  RightFor(s, t1, x1)
  BY DEF RightFor, MessageAt

(* A step that completes an operation.                                     *)
LEMMA Finishes ==
  ASSUME OpsPassed, Len(ops) \in Nat, NEW s \in StateIndex, NEW t, NEW x, RightFor(s, t, x), x.next # <<>>,
         NEW t1, NEW x1, x1.next = Tail(x.next), x1.processingState = "NEXT",
         Between(t1, x1, MessageAt(Head(x.next), s))
  PROVE  RightFor(s, t1, x1)
<1>1. Queued(s, x.next, Before(x.next))
  BY DEF RightFor
<1>2. /\ Queued(s, x1.next, Before(x1.next))
      /\ MessageAt(Before(x1.next), s) = MessageAt(Head(x.next), s)
  BY <1>1, QueueMoves
<1>3. Right(t1, x1, MessageAt(Before(x1.next), s), ops[Head(x1.next)])
  BY <1>2, NextIs
<1> QED BY <1>2, <1>3 DEF RightFor, MessageAt

(* Filling the buffer: the append is complete, or a block is in hand and   *)
(* the rest of the append is left.                                         *)
LEMMA AppendToBufferRight ==
  ASSUME OpsPassed, Len(ops) \in Nat, NEW s \in StateIndex, NEW t, NEW x, RightFor(s, t, x), x.next # <<>>,
         x.processingState = "NEXT", Len(x.data) < InputBlockSize,
         NEW k, k = Head(x.next), ops[k].hashOperation = "append",
         NEW d, d = ops[k].data,
         NEW full \in BOOLEAN, full <=> t.bytesInBuffer + Todo(t, d) = InputBlockSize,
         NEW whole \in BOOLEAN, whole <=> Todo(t, d) = Len(d),
         NEW x1, x1.data = IF full THEN Filled(t, d) ELSE x.data,
         x1.next = IF full /\ ~whole THEN x.next ELSE Tail(x.next),
         x1.processingState = IF full /\ ~whole THEN "DATA_START" ELSE "NEXT",
         full /\ ~whole => x1.bytesAlreadyProcessed = Todo(t, d)
  PROVE  RightFor(s, Took(t, d), x1)
<1> DEFINE m == MessageAt(k - 1, s)
           t1 == Took(t, d)
<1>1. /\ k \in 1 .. Len(ops) /\ ops[k].iHash = s /\ Before(x.next) = k - 1
      /\ Right(t, x, m, ops[k]) /\ m \in Seq(Int) /\ x.data \in Seq(Int)
      /\ t \in HashStates /\ Len(t.chain) % InputBlockSize = 0
  BY RightParts
<1>2. d \in Seq(Int) /\ Len(d) \in Words /\ Len(d) \in Nat
  BY <1>1, OpIs
<1>3. Holds(t, m)
  BY <1>1, NextIs, BetweenHolds
<1>4. MessageAt(k, s) = m \o d
  BY <1>1, MessageNext
<1> HIDE DEF m, t1
<1>5. /\ Todo(t, d) \in 0 .. Len(d)
      /\ t.bytesInBuffer + Todo(t, d) # InputBlockSize => Todo(t, d) = Len(d)
      /\ t1 \in HashStates /\ t1.chain = t.chain
      /\ CountIs(t1, Len(m) + Len(d))
      /\ Filled(t, d) \in Seq(Int) /\ Len(Filled(t, d)) = InputBlockSize
      /\ t.bytesInBuffer + Todo(t, d) # InputBlockSize
           => t.chain \o SubSeq(t1.buffer, 1, t1.bytesInBuffer) = m \o d
      /\ t.bytesInBuffer + Todo(t, d) = InputBlockSize
           => t1.bytesInBuffer = 0 /\ t.chain \o Filled(t, d) = m \o SubSeq(d, 1, Todo(t, d))
  <2>1. BytesTaken(t, m, d)
    BY <1>1, <1>2, <1>3, TakesBytes
  <2> QED BY <2>1 DEF BytesTaken, t1
<1>6. m \o d \in Seq(Int) /\ Len(m \o d) = Len(m) + Len(d)
  BY <1>1, <1>2, ConcatProperties
<1>7. CASE ~full
  <2>1. x1.data = x.data /\ x1.next = Tail(x.next) /\ x1.processingState = "NEXT"
    BY <1>7
  <2>2. t1.chain \o SubSeq(t1.buffer, 1, t1.bytesInBuffer) = m \o d
    BY <1>5, <1>7
  <2>3. Holds(t1, m \o d)
    BY <1>1, <1>5, <1>6, <2>2 DEF Holds, CountIs
  <2>4. Between(t1, x1, m \o d)
    BY <1>1, <2>1, <2>3, HoldsBetween
  <2> QED BY <1>4, <2>1, <2>4, Finishes DEF t1
<1>8. CASE full
  <2>1. x1.data = Filled(t, d) /\ Len(x1.data) = InputBlockSize /\ x1.data \in Seq(Int)
    BY <1>5, <1>8
  <2>2. Ahead(t1, x1) = t.chain \o Filled(t, d)
    <3>1. t1 \in HashStates /\ x1.data \in Seq(Int) /\ Len(t1.chain) % InputBlockSize = 0
      BY <1>1, <1>5, <2>1
    <3>2. Ahead(t1, x1) = t1.chain \o x1.data
      BY <2>1, <3>1, AheadIs
    <3> QED BY <1>5, <2>1, <3>2
  <2>3. Ahead(t1, x1) = m \o SubSeq(d, 1, Todo(t, d)) /\ t1.bytesInBuffer = 0
    BY <1>5, <1>8, <2>2
  <2>4. CASE whole
    <3>1. x1.next = Tail(x.next) /\ x1.processingState = "NEXT"
      BY <2>4
    <3>2. SubSeq(d, 1, Len(d)) = d
      BY <1>2
    <3>3. Ahead(t1, x1) = m \o d
      BY <2>3, <2>4, <3>2
    <3>4. SubSeq(t1.buffer, 1, t1.bytesInBuffer) = <<>>
      BY <1>5, <2>3, StateFields
    <3>5. Ahead(t1, x1) \o SubSeq(t1.buffer, 1, t1.bytesInBuffer) = m \o d
      BY <1>6, <3>3, <3>4, ConcatEmptySeq
    <3>6. Between(t1, x1, m \o d)
      BY <1>1, <1>5, <1>6, <2>1, <3>5 DEF Between
    <3> QED BY <1>4, <3>1, <3>6, Finishes DEF t1
  <2>5. CASE ~whole
    <3>1. /\ x1.next = x.next /\ x1.processingState = "DATA_START"
          /\ x1.bytesAlreadyProcessed = Todo(t, d)
      BY <1>8, <2>5
    <3>2. Right(t1, x1, m, ops[k])
      BY <1>1, <1>5, <2>1, <2>3, <3>1 DEF Right
    <3> QED BY <1>1, <3>1, <3>2, Remains DEF t1, m
  <2> QED BY <2>4, <2>5
<1> QED BY <1>7, <1>8

(* An append to an empty buffer: all of it is in hand.                     *)
LEMMA AppendBulkRight ==
  ASSUME OpsPassed, Len(ops) \in Nat, NEW s \in StateIndex, NEW t, NEW x, RightFor(s, t, x), x.next # <<>>,
         x.processingState = "NEXT", Len(x.data) < InputBlockSize, t.bytesInBuffer = 0,
         NEW k, k = Head(x.next), ops[k].hashOperation = "append",
         NEW d, d = ops[k].data,
         NEW x1, x1.data = d, x1.next = x.next, x1.processingState = "DATA_END"
  PROVE  RightFor(s, Counted(t, Len(d)), x1)
<1> DEFINE m == MessageAt(k - 1, s)
           t1 == Counted(t, Len(d))
<1>1. /\ k \in 1 .. Len(ops) /\ Before(x.next) = k - 1
      /\ Right(t, x, m, ops[k]) /\ m \in Seq(Int)
      /\ t \in HashStates /\ Len(t.chain) % InputBlockSize = 0
  BY RightParts
<1>2. d \in Seq(Int) /\ Len(d) \in Words /\ Len(d) \in Nat
  BY <1>1, OpIs
<1>3. Holds(t, m)
  BY <1>1, NextIs, BetweenHolds
<1> HIDE DEF m, t1
<1>4. CountIs(t, Len(m)) /\ t.chain \o SubSeq(t.buffer, 1, t.bytesInBuffer) = m /\ Len(m) \in Nat
  BY <1>1, <1>3, LenProperties DEF Holds, CountIs
<1>5. t1 \in HashStates /\ CountIs(t1, Len(m) + Len(d)) /\ t1.chain = t.chain /\ t1.bytesInBuffer = 0
  BY <1>1, <1>2, <1>4, CountedIs DEF t1
<1>6. t.chain = m
  <2>1. t.chain \in Seq(Int) /\ SubSeq(t.buffer, 1, t.bytesInBuffer) = <<>>
    BY <1>1, StateFields
  <2> QED BY <1>4, <2>1, ConcatEmptySeq
<1>7. t1.chain \o x1.data = m \o d
  BY <1>5, <1>6
<1>8. Right(t1, x1, m, ops[k])
  BY <1>1, <1>2, <1>5, <1>7 DEF Right
<1> QED BY <1>1, <1>8, Remains DEF t1, m

(* The rest of an append goes to the empty buffer.                         *)
Rested(t, rest) ==
  IF rest = <<>> THEN t
  ELSE [t EXCEPT !.buffer = Overwrite(t.buffer, 0, rest), !.bytesInBuffer = Len(rest)]

LEMMA RestedHolds ==
  ASSUME NEW t \in HashStates, NEW m \in Seq(Int), NEW rest \in Seq(Int),
         Len(t.chain) % InputBlockSize = 0, Len(rest) < InputBlockSize,
         t.bytesInBuffer = 0, CountIs(t, Len(m)), t.chain \o rest = m
  PROVE  Holds(Rested(t, rest), m)
<1>1. /\ t.chain \in Seq(Int) /\ t.buffer \in Buffers
      /\ SubSeq(t.buffer, 1, t.bytesInBuffer) = <<>>
  BY StateFields
<1>2. CASE rest = <<>>
  <2>1. t.chain \o SubSeq(t.buffer, 1, t.bytesInBuffer) = m
    BY <1>1, <1>2
  <2> QED BY <1>2, <2>1 DEF Holds, CountIs, Rested
<1>3. CASE rest # <<>>
  <2> DEFINE n == Len(rest)
             o == t.buffer
             buf == Overwrite(o, 0, rest)
             new == [t EXCEPT !.buffer = buf, !.bytesInBuffer = n]
  <2>0. InputBlockSize \in Nat /\ 0 \in 0 .. InputBlockSize /\ n \in Nat /\ n \in 0 .. InputBlockSize - 1 /\ o \in Buffers
    BY <1>1, HashAssumption, LenProperties
  <2>1. buf \in Buffers /\ SubSeq(buf, 1, n) = rest
    <3> HIDE DEF o
    <3>1. 0 + Len(rest) <= InputBlockSize /\ 0 + Len(rest) = n
      BY <2>0
    <3>2. buf \in Buffers /\ SubSeq(buf, 1, 0 + Len(rest)) = SubSeq(o, 1, 0) \o rest
      BY <2>0, <3>1, OverwriteIs
    <3>3. SubSeq(o, 1, 0) = <<>>
      BY SubSeqEmpty
    <3>4. <<>> \o rest = rest
      BY ConcatEmptySeq
    <3> QED BY <3>1, <3>2, <3>3, <3>4
  <2>2. Rested(t, rest) = new
    BY <1>3 DEF Rested
  <2> HIDE DEF buf, n
  <2>3. /\ new \in HashStates /\ new.chain = t.chain /\ new.buffer = buf /\ new.bytesInBuffer = n
        /\ new.dataLengthL = t.dataLengthL /\ new.dataLengthH = t.dataLengthH
    BY <2>0, <2>1 DEF HashStates, Buffers
  <2> HIDE DEF new
  <2>4. Holds(new, m)
    BY <2>1, <2>3 DEF Holds, CountIs
  <2> QED BY <2>2, <2>4
<1> QED BY <1>2, <1>3

(* What is left of an append in STATE_DATA_START.                          *)
RestOf(x, d) == SubSeq(d, x.bytesAlreadyProcessed + 1, Len(d))

Started(s, t, x, k, d, m) ==
  /\ x.next # <<>> /\ k \in 1 .. Len(ops) /\ Before(x.next) = k - 1 /\ ops[k].iHash = s
  /\ ops[k].hashOperation = "append"
  /\ d \in Seq(Int) /\ m \in Seq(Int) /\ RestOf(x, d) \in Seq(Int)
  /\ t \in HashStates /\ Len(t.chain) % InputBlockSize = 0 /\ t.bytesInBuffer = 0
  /\ CountIs(t, Len(m) + Len(d)) /\ t.chain \o RestOf(x, d) = m \o d
  /\ Len(m \o d) = Len(m) + Len(d) /\ m \o d \in Seq(Int)

LEMMA StartIs ==
  ASSUME OpsPassed, Len(ops) \in Nat, NEW s \in StateIndex, NEW t, NEW x, RightFor(s, t, x),
         x.processingState = "DATA_START", Len(x.data) < InputBlockSize,
         NEW k, k = Head(x.next), NEW d, d = ops[k].data, NEW m, m = MessageAt(k - 1, s)
  PROVE  Started(s, t, x, k, d, m)
<1>1. x.next # <<>>
  BY DEF RightFor
<1>2. /\ k \in 1 .. Len(ops) /\ Before(x.next) = k - 1 /\ ops[k].iHash = s
      /\ Right(t, x, m, ops[k]) /\ m \in Seq(Int) /\ x.data \in Seq(Int)
      /\ t \in HashStates /\ Len(t.chain) % InputBlockSize = 0
  BY <1>1, RightParts
<1>3. d \in Seq(Int)
  BY <1>2, OpIs
<1> DEFINE b == x.bytesAlreadyProcessed
<1>4. /\ ops[k].hashOperation = "append" /\ b \in 0 .. Len(d) /\ t.bytesInBuffer = 0
      /\ CountIs(t, Len(m) + Len(d)) /\ Ahead(t, x) = m \o SubSeq(d, 1, b)
  BY <1>2 DEF Right
<1>5. Ahead(t, x) = t.chain
  BY <1>2, AheadIs
<1> HIDE DEF b
<1>6. Splits(d, b)
  BY <1>3, <1>4, InTwoParts
<1> DEFINE d1 == SubSeq(d, 1, b)
           d2 == SubSeq(d, b + 1, Len(d))
<1>7. d1 \in Seq(Int) /\ d2 \in Seq(Int) /\ d1 \o d2 = d
  BY <1>6 DEF Splits
<1>8. t.chain = m \o d1 /\ RestOf(x, d) = d2
  BY <1>4, <1>5 DEF RestOf, b
<1> HIDE DEF d1, d2
<1>9. Regroups(m, d1, d2)
  BY <1>2, <1>7, RegroupThree, Zenon
<1>10. t.chain \o d2 = m \o d
  BY <1>7, <1>8, <1>9 DEF Regroups
<1>11. Len(m \o d) = Len(m) + Len(d) /\ m \o d \in Seq(Int)
  BY <1>2, <1>3, ConcatProperties
<1> QED BY <1>1, <1>2, <1>3, <1>4, <1>7, <1>8, <1>10, <1>11 DEF Started

(* Blocks of the rest of an append: all of the rest is in hand.            *)
LEMMA DataStartBulkRight ==
  ASSUME OpsPassed, Len(ops) \in Nat, NEW s \in StateIndex, NEW t, NEW x, RightFor(s, t, x),
         x.processingState = "DATA_START", Len(x.data) < InputBlockSize,
         NEW d, d = ops[Head(x.next)].data,
         NEW x1, x1.data = RestOf(x, d), x1.next = x.next, x1.processingState = "DATA_END"
  PROVE  RightFor(s, t, x1)
<1> DEFINE k == Head(x.next)
           m == MessageAt(k - 1, s)
<1>1. /\ x.next # <<>> /\ Before(x.next) = k - 1
      /\ ops[k].hashOperation = "append" /\ RestOf(x, d) \in Seq(Int)
      /\ t \in HashStates /\ Len(t.chain) % InputBlockSize = 0 /\ t.bytesInBuffer = 0
      /\ CountIs(t, Len(m) + Len(d)) /\ t.chain \o RestOf(x, d) = m \o d
  <2>1. Started(s, t, x, k, d, m)
    BY StartIs
  <2> QED BY <2>1 DEF Started
<1>2. d = ops[k].data
  OBVIOUS
<1> HIDE DEF k, m
<1>3. Right(t, x1, m, ops[k])
  BY <1>1, <1>2 DEF Right
<1> QED BY <1>1, <1>3, Remains DEF k, m

(* The end of an append: the rest is what the longer message still lacks.  *)
LEMMA EndsAppend ==
  ASSUME OpsPassed, Len(ops) \in Nat, NEW s \in StateIndex, NEW t, NEW x, RightFor(s, t, x), x.next # <<>>,
         NEW k, k = Head(x.next), ops[k].hashOperation = "append",
         NEW d, d = ops[k].data, NEW m, m = MessageAt(k - 1, s),
         NEW rest \in Seq(Int), Len(rest) < InputBlockSize,
         t.bytesInBuffer = 0, CountIs(t, Len(m) + Len(d)), t.chain \o rest = m \o d,
         NEW x1, x1.data = rest, x1.next = Tail(x.next), x1.processingState = "NEXT"
  PROVE  RightFor(s, Rested(t, rest), x1)
<1>1. /\ k \in 1 .. Len(ops) /\ ops[k].iHash = s /\ m \in Seq(Int)
      /\ t \in HashStates /\ Len(t.chain) % InputBlockSize = 0
  BY RightParts
<1>2. d \in Seq(Int)
  BY <1>1, OpIs
<1>3. m \o d \in Seq(Int) /\ Len(m \o d) = Len(m) + Len(d)
  <2>1. m \in Seq(Int)
    BY <1>1
  <2> QED BY <1>2, <2>1, ConcatProperties
<1>4. MessageAt(k, s) = m \o d
  BY <1>1, MessageNext
<1>5. Holds(Rested(t, rest), m \o d)
  BY <1>1, <1>3, RestedHolds
<1>6. Between(Rested(t, rest), x1, m \o d)
  BY <1>5, HoldsBetween
<1> QED BY <1>4, <1>6, Finishes

(* A rest of less than a block goes to the buffer and completes the        *)
(* append.                                                                 *)
LEMMA DataStartEndRight ==
  ASSUME OpsPassed, Len(ops) \in Nat, NEW s \in StateIndex, NEW t, NEW x, RightFor(s, t, x),
         x.processingState = "DATA_START", Len(x.data) < InputBlockSize,
         NEW d, d = ops[Head(x.next)].data, NEW rest, rest = RestOf(x, d), Len(rest) < InputBlockSize,
         NEW x1, x1.data = rest, x1.next = Tail(x.next), x1.processingState = "NEXT"
  PROVE  RightFor(s, Rested(t, rest), x1)
<1> DEFINE k == Head(x.next)
           m == MessageAt(k - 1, s)
<1>1. /\ x.next # <<>> /\ ops[k].hashOperation = "append" /\ rest \in Seq(Int)
      /\ t.bytesInBuffer = 0 /\ CountIs(t, Len(m) + Len(d)) /\ t.chain \o rest = m \o d
  <2>1. Started(s, t, x, k, d, m)
    BY StartIs
  <2> QED BY <2>1 DEF Started
<1>2. k = Head(x.next) /\ d = ops[k].data /\ m = MessageAt(k - 1, s)
  OBVIOUS
<1> HIDE DEF k, m
<1> QED BY <1>1, <1>2, EndsAppend

(* So does what the whole blocks have left.                                *)
LEMMA DataEndRight ==
  ASSUME OpsPassed, Len(ops) \in Nat, NEW s \in StateIndex, NEW t, NEW x, RightFor(s, t, x),
         x.processingState = "DATA_END", Len(x.data) < InputBlockSize,
         NEW x1, x1.data = x.data, x1.next = Tail(x.next), x1.processingState = "NEXT"
  PROVE  RightFor(s, Rested(t, x.data), x1)
<1> DEFINE k == Head(x.next)
           m == MessageAt(k - 1, s)
           d == ops[k].data
           rest == x.data
<1>1. x.next # <<>>
  BY DEF RightFor
<1>2. Right(t, x, m, ops[k]) /\ rest \in Seq(Int)
  BY <1>1, RightParts
<1>3. /\ ops[k].hashOperation = "append"
      /\ t.bytesInBuffer = 0 /\ CountIs(t, Len(m) + Len(d)) /\ t.chain \o rest = m \o d
  BY <1>2 DEF Right
<1>4. /\ k = Head(x.next) /\ d = ops[k].data /\ m = MessageAt(k - 1, s)
      /\ Len(rest) < InputBlockSize /\ x1.data = rest
  OBVIOUS
<1> HIDE DEF k, m, d, rest
<1>5. RightFor(s, Rested(t, rest), x1)
  BY <1>1, <1>2, <1>3, <1>4, EndsAppend
<1> QED BY <1>5 DEF rest

-----------------------------------------------------------------------------
(* The length field of a state, and what it depends on.                    *)
LEMMA LengthFieldType ==
  ASSUME NEW t \in HashStates
  PROVE  LengthField(t) \in Seq(Int) /\ Len(LengthField(t)) = LengthWords
<1>1. \A w \in Nat : LengthWord(w) \in Int
  BY HashAssumption DEF LengthWord
<1> DEFINE l == t.dataLengthL
           h == t.dataLengthH
           w == WordRange \div 8
<1>2. l \in Nat /\ h \in Nat
  BY StateFields, HashAssumption DEF Words
<1>3. w \in Nat \ {0}
  <2>1. WordRange \in Nat \ {0} /\ WordRange % 8 = 0
    BY HashAssumption
  <2> QED BY <2>1
<1> HIDE DEF l, h, w
<1>4. l \div w \in Nat
  BY <1>2, <1>3, Division
<1>5. l * 8 \in Nat /\ h * 8 + l \div w \in Nat
  BY <1>2, <1>4
<1>6. LengthWord(l * 8) \in Int /\ LengthWord(h * 8 + l \div w) \in Int
  BY <1>1, <1>5
<1>7. LengthField(t) = IF LengthWords = 1 THEN <<LengthWord(l * 8)>>
                       ELSE <<LengthWord(h * 8 + l \div w), LengthWord(l * 8)>>
  BY DEF LengthField, l, h, w
<1>8. LengthWords = 1 \/ LengthWords = 2
  BY HashAssumption
<1> QED BY <1>6, <1>7, <1>8

(* A buffer with the length at its end is a block.                         *)
LEMMA PutLengthIs ==
  ASSUME NEW t \in HashStates, NEW buffer \in Buffers
  PROVE  /\ PutLength(buffer, t) \in Buffers /\ PutLength(buffer, t) \in Seq(Int)
         /\ Len(PutLength(buffer, t)) = InputBlockSize
<1> DEFINE f == LengthField(t)
           at == InputBlockSize - LengthWords
<1>1. f \in Seq(Int) /\ Len(f) = LengthWords
  BY LengthFieldType
<1>2. at \in 0 .. InputBlockSize /\ at + LengthWords <= InputBlockSize
  BY HashAssumption
<1>3. PutLength(buffer, t) = Overwrite(buffer, at, f)
  BY DEF PutLength
<1> HIDE DEF f, at
<1> QED BY <1>1, <1>2, <1>3, OverwriteIs

(* So is the buffer with its padding.                                      *)
LEMMA Pad1Is ==
  ASSUME NEW t \in HashStates
  PROVE  Pad1(t) \in Buffers /\ Pad1(t) \in Seq(Int) /\ Len(Pad1(t)) = InputBlockSize
<1>1. t.buffer \in Buffers /\ InputBlockSize \in Nat
  BY StateFields, HashAssumption
<1>2. Pad1(t) \in Buffers
  BY <1>1 DEF Pad1, Buffers, Pad80, Zero
<1> QED BY <1>1, <1>2, IsASeq DEF Buffers

(* A state with another buffer.                                            *)
LEMMA OtherBuffer ==
  ASSUME NEW t \in HashStates, NEW buffer \in Buffers,
         NEW t1, t1 = [t EXCEPT !.buffer = buffer]
  PROVE  /\ t1 \in HashStates /\ t1.chain = t.chain /\ LengthField(t1) = LengthField(t)
         /\ PutLength(ZeroBuffer, t1) = PutLength(ZeroBuffer, t)
<1>1. /\ t1 \in HashStates /\ t1.chain = t.chain
      /\ t1.dataLengthL = t.dataLengthL /\ t1.dataLengthH = t.dataLengthH
  BY DEF HashStates, Buffers
<1>2. LengthField(t1) = LengthField(t)
  BY <1>1 DEF LengthField
<1> QED BY <1>1, <1>2 DEF PutLength

(* parResult1Func: what is ahead is the padded message, or the padded      *)
(* message but for its last block.                                         *)
LEMMA Result1Right ==
  ASSUME OpsPassed, Len(ops) \in Nat, NEW s \in StateIndex, NEW t, NEW x, RightFor(s, t, x), x.next # <<>>,
         x.processingState = "NEXT", Len(x.data) < InputBlockSize,
         NEW k, k = Head(x.next), ops[k].hashOperation = "result",
         NEW buffer, buffer = IF NeedsTwoBlocks(t) THEN Pad1(t) ELSE PutLength(Pad1(t), t),
         NEW x1, x1.data = buffer, x1.next = x.next,
         x1.processingState = IF NeedsTwoBlocks(t) THEN "RESULT2" ELSE "RESULT_DONE"
  PROVE  RightFor(s, [t EXCEPT !.buffer = buffer], x1)
<1> DEFINE m == MessageAt(k - 1, s)
           t1 == [t EXCEPT !.buffer = buffer]
           c == t.chain
<1>1. /\ k \in 1 .. Len(ops) /\ Before(x.next) = k - 1
      /\ Right(t, x, m, ops[k]) /\ m \in Seq(Int)
      /\ t \in HashStates /\ Len(c) % InputBlockSize = 0
  BY RightParts
<1>2. Holds(t, m)
  BY <1>1, NextIs, BetweenHolds
<1>3. HashDigest(t) = PaddedMessage(m)
  BY <1>1, <1>2, DigestIsPadded
<1>4. /\ Pad1(t) \in Buffers /\ Pad1(t) \in Seq(Int) /\ Len(Pad1(t)) = InputBlockSize
      /\ PutLength(Pad1(t), t) \in Buffers /\ PutLength(Pad1(t), t) \in Seq(Int)
      /\ Len(PutLength(Pad1(t), t)) = InputBlockSize
      /\ PutLength(ZeroBuffer, t) \in Seq(Int)
  BY <1>1, Pad1Is, PutLengthIs, ZeroIsBuffer
<1>5. buffer \in Buffers /\ buffer \in Seq(Int) /\ Len(buffer) = InputBlockSize
  BY <1>4
<1>6. /\ t1 \in HashStates /\ t1.chain = c /\ PutLength(ZeroBuffer, t1) = PutLength(ZeroBuffer, t)
  BY <1>1, <1>5, OtherBuffer
<1>7. c \in Seq(Int)
  BY <1>1, StateFields
<1> HIDE DEF m, t1
<1>8. Ahead(t1, x1) = c \o buffer
  <2>1. x1.data \in Seq(Int) /\ Len(x1.data) = InputBlockSize /\ Len(t1.chain) % InputBlockSize = 0
    BY <1>1, <1>5, <1>6
  <2>2. Ahead(t1, x1) = t1.chain \o x1.data
    BY <1>6, <2>1, AheadIs
  <2> QED BY <1>6, <2>2
<1>9. Right(t1, x1, m, ops[k])
  <2>1. CASE NeedsTwoBlocks(t)
    <3> DEFINE p == Pad1(t)
               l == PutLength(ZeroBuffer, t)
    <3>1. c \o (p \o l) = PaddedMessage(m)
      BY <1>3, <2>1 DEF HashDigest, HashPadding
    <3>2. p \in Seq(Int) /\ l \in Seq(Int) /\ buffer = p
      BY <1>4, <2>1
    <3> HIDE DEF p, l, c
    <3>3. Regroups(c, p, l)
      BY <1>7, <3>2, RegroupThree, Zenon
    <3>4. (c \o p) \o l = PaddedMessage(m)
      BY <3>1, <3>3 DEF Regroups
    <3>5. Ahead(t1, x1) \o PutLength(ZeroBuffer, t1) = PaddedMessage(m)
      BY <1>6, <1>8, <3>2, <3>4 DEF l
    <3> QED BY <1>1, <1>5, <1>6, <2>1, <3>5 DEF Right, c
  <2>2. CASE ~NeedsTwoBlocks(t)
    <3>1. c \o buffer = PaddedMessage(m)
      BY <1>3, <2>2 DEF HashDigest, HashPadding
    <3> QED BY <1>1, <1>5, <1>6, <1>8, <2>2, <3>1 DEF Right
  <2> QED BY <2>1, <2>2
<1> QED BY <1>1, <1>9, Remains DEF t1, m

(* parResult2Func: the block in hand is the last of the padded message.    *)
LEMMA Result2Right ==
  ASSUME OpsPassed, Len(ops) \in Nat, NEW s \in StateIndex, NEW t, NEW x, RightFor(s, t, x),
         x.processingState = "RESULT2", Len(x.data) < InputBlockSize,
         NEW buffer, buffer = PutLength(ZeroBuffer, t),
         NEW x1, x1.data = buffer, x1.next = x.next, x1.processingState = "RESULT_DONE"
  PROVE  RightFor(s, [t EXCEPT !.buffer = buffer], x1)
<1> DEFINE k == Head(x.next)
           m == MessageAt(k - 1, s)
           t1 == [t EXCEPT !.buffer = buffer]
<1>1. x.next # <<>>
  BY DEF RightFor
<1>2. /\ Before(x.next) = k - 1 /\ Right(t, x, m, ops[k])
      /\ t \in HashStates /\ Len(t.chain) % InputBlockSize = 0 /\ x.data \in Seq(Int)
  BY <1>1, RightParts
<1>3. ops[k].hashOperation = "result" /\ Ahead(t, x) \o PutLength(ZeroBuffer, t) = PaddedMessage(m)
  BY <1>2 DEF Right
<1>4. Ahead(t, x) = t.chain
  BY <1>2, AheadIs
<1>5. buffer \in Buffers /\ buffer \in Seq(Int) /\ Len(buffer) = InputBlockSize
  BY <1>2, PutLengthIs, ZeroIsBuffer
<1>6. t1 \in HashStates /\ t1.chain = t.chain
  BY <1>2, <1>5, OtherBuffer
<1> HIDE DEF m, t1, k
<1>7. Ahead(t1, x1) = PaddedMessage(m)
  <2>1. x1.data \in Seq(Int) /\ Len(x1.data) = InputBlockSize /\ Len(t1.chain) % InputBlockSize = 0
    BY <1>2, <1>5, <1>6
  <2>2. Ahead(t1, x1) = t1.chain \o x1.data
    BY <1>6, <2>1, AheadIs
  <2> QED BY <1>3, <1>4, <1>6, <2>2
<1>8. Right(t1, x1, m, ops[k])
  BY <1>2, <1>3, <1>5, <1>6, <1>7 DEF Right
<1> QED BY <1>1, <1>2, <1>8, Remains DEF t1, m, k

(* The end of a result: the digest is that of the serial code.             *)
LEMMA ResultDoneRight ==
  ASSUME OpsPassed, Len(ops) \in Nat, NEW s \in StateIndex, NEW t, NEW x, RightFor(s, t, x),
         x.processingState = "RESULT_DONE", Len(x.data) < InputBlockSize,
         NEW x1, x1.data = x.data, x1.next = Tail(x.next), x1.processingState = "NEXT"
  PROVE  /\ RightFor(s, WipedState, x1)
         /\ x.next # <<>> /\ Head(x.next) \in 1 .. Len(ops)
         /\ t.chain = SerialOutput[Head(x.next)]
<1> DEFINE k == Head(x.next)
           m == MessageAt(k - 1, s)
<1>1. x.next # <<>>
  BY DEF RightFor
<1>2. /\ Before(x.next) = k - 1 /\ Right(t, x, m, ops[k]) /\ k \in 1 .. Len(ops) /\ ops[k].iHash = s
      /\ t \in HashStates /\ Len(t.chain) % InputBlockSize = 0 /\ x.data \in Seq(Int) /\ m \in Seq(Int)
  BY <1>1, RightParts
<1>3. ops[k].hashOperation = "result" /\ Ahead(t, x) = PaddedMessage(m)
  BY <1>2 DEF Right
<1>4. t.chain = PaddedMessage(m)
  BY <1>2, <1>3, AheadIs
<1>5. MessageAt(k, s) = <<>> /\ Holds(SerialStates[k - 1][s], m)
  BY <1>2, <1>3, MessageNext
<1>6. HashDigest(SerialStates[k - 1][s]) = PaddedMessage(m)
  BY <1>2, <1>5, DigestIsPadded
<1>7. SerialOutput[k] = HashDigest(SerialStates[k - 1][s])
  <2>1. k \in DOMAIN ops
    BY <1>2, OpIs
  <2>2. SerialOutput[k] = IF ops[k].hashOperation = "append" THEN <<>>
                          ELSE HashDigest(SerialStates[k - 1][ops[k].iHash])
    BY <2>1 DEF SerialOutput
  <2> QED BY <1>2, <1>3, <2>2
<1>8. Between(WipedState, x1, <<>>)
  BY <1>2, WipedHolds, HoldsBetween
<1>9. RightFor(s, WipedState, x1)
  BY <1>1, <1>5, <1>8, Finishes
<1> QED BY <1>1, <1>2, <1>4, <1>6, <1>7, <1>9

-----------------------------------------------------------------------------
(* The results given out when the queues are these.                        *)
OutputWith(sc) ==
  [k \in DOMAIN ops |-> IF k <= Before(sc[ops[k].iHash].next) THEN SerialOutput[k] ELSE <<>>]

SameOutput(sc, sc1) == OutputWith(sc1) = OutputWith(sc)
MovedOutput(sc, sc1, h) ==
  /\ OutputWith(sc1) = [OutputWith(sc) EXCEPT ![h] = SerialOutput[h]]
  /\ ops[h].hashOperation = "append" => SameOutput(sc, sc1)

LEMMA OutputStays ==
  ASSUME OpsPassed, NEW s \in StateIndex, NEW sc, DOMAIN sc = StateIndex, NEW x1, x1.next = sc[s].next,
         NEW sc1, sc1 = [sc EXCEPT ![s] = x1]
  PROVE  SameOutput(sc, sc1)
<1>1. \A r \in StateIndex : sc1[r].next = sc[r].next
  <2> TAKE r \in StateIndex
  <2>1. sc1[r] = IF r = s THEN x1 ELSE sc[r]
    OBVIOUS
  <2> QED BY <2>1
<1>2. \A k \in DOMAIN ops : sc1[ops[k].iHash].next = sc[ops[k].iHash].next
  <2> TAKE k \in DOMAIN ops
  <2>1. k \in 1 .. Len(ops)
    BY DEF OpsPassed
  <2>2. ops[k].iHash \in StateIndex
    BY <2>1, OpIs
  <2> QED BY <1>1, <2>2
<1> QED BY <1>2 DEF OutputWith, SameOutput

(* An operation that is complete has given out its result, if it is one.   *)
LEMMA OutputMoves ==
  ASSUME OpsPassed, Len(ops) \in Nat, NEW s \in StateIndex, NEW sc, DOMAIN sc = StateIndex,
         Queued(s, sc[s].next, Before(sc[s].next)), sc[s].next # <<>>,
         NEW x1, x1.next = Tail(sc[s].next), NEW sc1, sc1 = [sc EXCEPT ![s] = x1],
         NEW h, h = Head(sc[s].next)
  PROVE  MovedOutput(sc, sc1, h)
<1> DEFINE nx == sc[s].next
<1>1. /\ h \in 1 .. Len(ops) /\ Before(nx) = h - 1 /\ ops[h].iHash = s
      /\ Before(Tail(nx)) \in h .. Len(ops)
      /\ \A k \in h + 1 .. Before(Tail(nx)) : ops[k].iHash # s
  BY QueueMoves
<1>2. \A r \in StateIndex : sc1[r].next = IF r = s THEN Tail(nx) ELSE sc[r].next
  <2> TAKE r \in StateIndex
  <2>1. sc1[r] = IF r = s THEN x1 ELSE sc[r]
    OBVIOUS
  <2> QED BY <2>1
<1> HIDE DEF nx
<1>3. DOMAIN ops = 1 .. Len(ops) /\ h \in DOMAIN ops
  BY <1>1, OpIs
<1> DEFINE o == OutputWith(sc)
           n == OutputWith(sc1)
           e == [o EXCEPT ![h] = SerialOutput[h]]
<1>4. ASSUME NEW k \in DOMAIN ops PROVE n[k] = e[k]
  <2>1. ops[k].iHash \in StateIndex
    BY <1>3, OpIs
  <2>2. n[k] = IF k <= Before(sc1[ops[k].iHash].next) THEN SerialOutput[k] ELSE <<>>
    BY DEF OutputWith
  <2>3. o[k] = IF k <= Before(sc[ops[k].iHash].next) THEN SerialOutput[k] ELSE <<>>
    BY DEF OutputWith
  <2>4. e[k] = IF k = h THEN SerialOutput[h] ELSE o[k]
    BY DEF OutputWith
  <2> HIDE DEF o, n, e
  <2>5. CASE ops[k].iHash # s
    <3>1. k # h /\ sc1[ops[k].iHash].next = sc[ops[k].iHash].next
      BY <1>1, <1>2, <2>1, <2>5
    <3> QED BY <2>2, <2>3, <2>4, <3>1
  <2>6. CASE ops[k].iHash = s
    <3>1. Before(sc1[ops[k].iHash].next) = Before(Tail(nx)) /\ Before(sc[ops[k].iHash].next) = Before(nx)
      BY <1>2, <2>6 DEF nx
    <3>2. k = h \/ ((k <= Before(Tail(nx))) <=> (k <= Before(nx)))
      <4>1. k \in 1 .. Len(ops)
        BY <1>3
      <4>2. ~(k \in h + 1 .. Before(Tail(nx)))
        BY <1>1, <2>6
      <4> QED BY <1>1, <4>1, <4>2
    <3>3. h <= Before(Tail(nx))
      BY <1>1
    <3> QED BY <2>2, <2>3, <2>4, <3>1, <3>2, <3>3
  <2> QED BY <2>5, <2>6
<1>5. n = [k \in DOMAIN ops |-> n[k]] /\ e = [k \in DOMAIN ops |-> e[k]]
  BY DEF OutputWith
<1>6. n = e
  <2> HIDE DEF n, e
  <2> QED BY <1>4, <1>5
<1>7. ASSUME ops[h].hashOperation = "append" PROVE n = o
  <2>1. SerialOutput[h] = <<>>
    BY <1>3, <1>7 DEF SerialOutput
  <2>2. o[h] = IF h <= Before(sc[ops[h].iHash].next) THEN SerialOutput[h] ELSE <<>>
    BY <1>3 DEF OutputWith
  <2>3. o = [k \in DOMAIN ops |-> o[k]]
    BY DEF OutputWith
  <2> HIDE DEF o, n
  <2>4. e = o
    BY <2>1, <2>2, <2>3
  <2> QED BY <1>6, <2>4
<1> QED BY <1>6, <1>7 DEF MovedOutput, SameOutput
-----------------------------------------------------------------------------
(* The operations do not change.                                           *)
LEMMA OpsSame ==
  ASSUME UNCHANGED ops
  PROVE  /\ SerialStates' = SerialStates /\ SerialOutput' = SerialOutput /\ DOMAIN ops' = DOMAIN ops
         /\ (OutputInv <=> output = OutputWith(scratch))
         /\ (OutputInv' <=> output' = OutputWith(scratch'))
<1>1. SerialStates' = SerialStates
  BY DEF SerialStates
<1>2. SerialOutput' = SerialOutput
  BY <1>1 DEF SerialOutput
<1>3. OutputInv <=> output = OutputWith(scratch)
  BY DEF OutputInv, OutputWith
<1>4. OutputInv' <=> output' = OutputWith(scratch')
  BY <1>2 DEF OutputInv, OutputWith, Before
<1> QED BY <1>1, <1>2, <1>3, <1>4

(* The operations being the same, a state that is right of the old ones is *)
(* right of the new.                                                       *)
LEMMA RightSame ==
  ASSUME UNCHANGED ops, NEW s, RightFor(s, states'[s], scratch'[s])
  PROVE  RightFor(s, states[s], scratch[s])'
<1>1. SerialStates' = SerialStates
  BY OpsSame
<1> QED BY <1>1 DEF RightFor, Queued, Before, Right, Ahead, CountIs

-----------------------------------------------------------------------------
Hashing == phase \in {"first", "append", "scan"}

(* What the invariant says once the operations are linked.                 *)
LEMMA HashingIs ==
  ASSUME ParallelInv, Hashing
  PROVE  /\ OpsPassed /\ Len(ops) \in Nat /\ OpsInv
         /\ DOMAIN states = StateIndex /\ DOMAIN scratch = StateIndex
         /\ \A s \in StateIndex : DOMAIN scratch[s] = DOMAIN EmptyScratch
         /\ \A s \in StateIndex : RightFor(s, states[s], scratch[s])
         /\ output = OutputWith(scratch) /\ WorkInv
<1>1. OpsInv /\ DOMAIN states = StateIndex /\ DOMAIN scratch = StateIndex
      /\ (\A s \in StateIndex : DOMAIN scratch[s] = DOMAIN EmptyScratch)
      /\ (\A s \in StateIndex : RightFor(s, states[s], scratch[s])) /\ OutputInv /\ WorkInv
  BY DEF ParallelInv, Hashing
<1>2. ops \in Seq(OpRecords) /\ Len(ops) \in Nat /\ DOMAIN ops = 1 .. Len(ops)
  BY <1>1 DEF OpsInv, OpRecords
<1>3. OpsPassed
  BY <1>1, <1>2 DEF OpsInv, OpsPassed, Hashing
<1>4. output = OutputWith(scratch)
  BY <1>1 DEF OutputInv, OutputWith
<1> QED BY <1>1, <1>2, <1>3, <1>4

(* What a step between the linking and the end has to keep.                *)
LEMMA HashingKeeps ==
  ASSUME ParallelInv, Hashing, UNCHANGED ops, phase' \in {"first", "append", "scan"},
         DOMAIN states' = StateIndex, DOMAIN scratch' = StateIndex,
         \A s \in StateIndex : DOMAIN scratch'[s] = DOMAIN EmptyScratch,
         \A s \in StateIndex : RightFor(s, states'[s], scratch'[s]),
         output' = OutputWith(scratch'), WorkInv'
  PROVE  ParallelInv'
<1>1. OpsInv'
  BY HashingIs DEF OpsInv, Hashing, Valid
<1>2. OutputInv'
  BY OpsSame
<1>3. \A s \in StateIndex : RightFor(s, states[s], scratch[s])'
  BY RightSame
<1>4. SameAsSerial'
  BY DEF SameAsSerial
<1> QED BY <1>1, <1>2, <1>3, <1>4 DEF ParallelInv

(* A turn of the loop of SymCryptParallelHashSetNextWork: where it is.     *)
LEMMA SettingIs ==
  ASSUME ParallelInv, Setting
  PROVE  /\ Hashing /\ OpsPassed /\ Len(ops) \in Nat
         /\ i \in DOMAIN work /\ Current \in StateIndex
         /\ RightFor(Current, states[Current], scratch[Current])
         /\ DOMAIN scratch = StateIndex /\ DOMAIN states = StateIndex
         /\ DOMAIN scratch[Current] = DOMAIN EmptyScratch
         /\ output = OutputWith(scratch)
         /\ Len(scratch[Current].data) < InputBlockSize
<1>1. Hashing
  BY DEF Hashing, Setting
<1>2. WorkInv
  BY <1>1, HashingIs
<1>3. Len(work) \in Nat /\ DOMAIN work = 1 .. Len(work) /\ \A k \in DOMAIN work : work[k] \in StateIndex
  BY <1>2 DEF WorkInv
<1>4. i \in DOMAIN work /\ Len(scratch[work[i]].data) < InputBlockSize
  <2>1. CASE phase = "first"
    <3>1. nWork \in 0 .. Len(work) /\ i \in 1 .. nWork + 1 /\ i <= nWork /\ answer = "run"
      BY <1>2, <2>1 DEF WorkInv, Setting
    <3>2. i \in DOMAIN work /\ i \in i .. nWork
      BY <1>3, <3>1
    <3>3. Len(scratch[work[i]].data) < InputBlockSize
      BY <1>2, <2>1, <3>1, <3>2 DEF WorkInv
    <3> QED BY <3>2, <3>3
  <2>2. CASE phase = "scan"
    <3>1. nWork \in 0 .. Len(work) /\ nPar \in 1 .. nWork /\ i \in 1 .. nPar
          /\ Len(scratch[work[i]].data) < InputBlockSize
      BY <1>2, <2>2 DEF WorkInv, Setting
    <3>2. i \in DOMAIN work
      BY <1>3, <3>1
    <3> QED BY <3>1, <3>2
  <2> QED BY <2>1, <2>2 DEF Setting
<1>5. Current \in StateIndex
  BY <1>3, <1>4 DEF Current
<1> QED BY <1>1, <1>4, <1>5, HashingIs DEF Current

(* It changes one state, and leaves the loop with a block to compress, or  *)
(* with nothing to do.                                                     *)
LEMMA TurnKeeps ==
  ASSUME ParallelInv, Setting, UNCHANGED SetNextWorkVars,
         NEW t1, DOMAIN states' = StateIndex,
         \A s \in StateIndex : states'[s] = IF s = Current THEN t1 ELSE states[s],
         NEW x1, DOMAIN scratch' = StateIndex,
         \A s \in StateIndex : scratch'[s] = IF s = Current THEN x1 ELSE scratch[s],
         DOMAIN x1 = DOMAIN EmptyScratch, RightFor(Current, t1, x1),
         output' = OutputWith(scratch'),
         answer' # "true" => Len(x1.data) < InputBlockSize,
         answer' = "false" => x1.next = <<>>
  PROVE  ParallelInv'
<1>1. /\ Hashing /\ OpsPassed /\ Len(ops) \in Nat /\ i \in DOMAIN work /\ Current \in StateIndex
  BY SettingIs
<1>2. /\ DOMAIN states = StateIndex /\ DOMAIN scratch = StateIndex
      /\ \A s \in StateIndex : RightFor(s, states[s], scratch[s])
      /\ WorkInv
  BY <1>1, HashingIs
<1>3. /\ UNCHANGED <<ops, work, nWork, nPar, nextWork, i, phase>>
  BY DEF SetNextWorkVars
<1>4. DOMAIN states' = StateIndex /\ DOMAIN scratch' = StateIndex
  OBVIOUS
<1>5. \A s \in StateIndex : /\ states'[s] = IF s = Current THEN t1 ELSE states[s]
                            /\ scratch'[s] = IF s = Current THEN x1 ELSE scratch[s]
  OBVIOUS
<1>6. \A s \in StateIndex : RightFor(s, states'[s], scratch'[s])
  BY <1>2, <1>5
<1>a. \A s \in StateIndex : DOMAIN scratch'[s] = DOMAIN EmptyScratch
  <2>1. \A s \in StateIndex : DOMAIN scratch[s] = DOMAIN EmptyScratch
    BY <1>1, HashingIs
  <2> QED BY <1>5, <2>1
<1>7. /\ work \in Seq(StateIndex) /\ nWork \in 0 .. Len(work) /\ Len(work) \in Nat
      /\ DOMAIN work = 1 .. Len(work) /\ \A k \in DOMAIN work : work[k] \in StateIndex
  BY <1>2 DEF WorkInv
<1>8. ASSUME NEW s \in StateIndex PROVE (Idle(s) \/ Listed(s))'
  <2>1. Idle(s) \/ Listed(s)
    BY <1>2 DEF WorkInv
  <2>2. CASE s = Current
    <3>1. Listed(s)'
      <4>1. CASE phase = "first"
        <5>1. i <= nWork
          BY <4>1 DEF Setting
        <5> QED BY <1>1, <1>3, <2>2, <4>1, <5>1 DEF Listed, Current
      <4>2. CASE phase = "scan"
        <5>1. i <= nPar
          BY <1>2, <4>2 DEF WorkInv
        <5> QED BY <1>1, <1>3, <2>2, <4>2, <5>1 DEF Listed, Current
      <4> QED BY <4>1, <4>2 DEF Setting
    <3> QED BY <3>1
  <2>3. CASE s # Current
    <3>1. scratch'[s] = scratch[s]
      BY <1>5, <2>3
    <3>2. Idle(s)' <=> Idle(s)
      BY <3>1 DEF Idle
    <3>3. Listed(s)' <=> Listed(s)
      BY <1>3 DEF Listed
    <3> QED BY <2>1, <3>2, <3>3
  <2> QED BY <2>2, <2>3
<1>9. phase = "first" => /\ \A k \in i .. nWork : k > i \/ answer' # "true"
                              => Len(scratch'[work[k]].data) < InputBlockSize
                         /\ i <= nWork /\ answer' = "false" => scratch'[work[i]].next = <<>>
  <2> HAVE phase = "first"
  <2>1. /\ i \in 1 .. nWork + 1 /\ i <= nWork /\ answer = "run"
        /\ \A k, l \in 1 .. nWork : work[k] = work[l] => k = l
        /\ \A k \in i .. nWork : k > i \/ answer # "true" => Len(scratch[work[k]].data) < InputBlockSize
    BY <1>2 DEF WorkInv, Setting
  <2>2. ASSUME NEW k \in i .. nWork, k > i \/ answer' # "true" PROVE Len(scratch'[work[k]].data) < InputBlockSize
    <3>1. k \in DOMAIN work /\ k \in 1 .. nWork /\ i \in 1 .. nWork /\ work[k] \in StateIndex
      BY <1>7, <2>1
    <3>2. CASE k = i
      <4>1. work[k] = Current /\ scratch'[work[k]] = x1 /\ answer' # "true"
        BY <1>1, <1>5, <2>1, <2>2, <3>1, <3>2 DEF Current
      <4> QED BY <4>1
    <3>3. CASE k # i
      <4>1. work[k] # Current
        BY <2>1, <3>1, <3>3 DEF Current
      <4>2. scratch'[work[k]] = scratch[work[k]]
        BY <1>5, <3>1, <4>1
      <4>3. k > i
        BY <2>1, <3>3
      <4> QED BY <2>1, <4>2, <4>3
    <3> QED BY <3>2, <3>3
  <2>3. scratch'[work[i]] = x1
    BY <1>1, <1>5 DEF Current
  <2> QED BY <2>2, <2>3
<1>10. scratch'[work[i]] = x1
  BY <1>1, <1>5 DEF Current
<1>11. WorkInv'
  BY <1>2, <1>3, <1>8, <1>9, <1>10 DEF WorkInv
<1> QED BY <1>1, <1>3, <1>4, <1>6, <1>a, <1>11, HashingKeeps DEF Hashing

(* Each turn of the loop keeps the invariant.                              *)
LEMMA NothingLeftKeeps == ParallelInv /\ NothingLeft => ParallelInv'
<1> SUFFICES ASSUME ParallelInv, NothingLeft PROVE ParallelInv'
  OBVIOUS
<1> DEFINE s == Current
           x == scratch[s]
           t == states[s]
<1>1. /\ Setting /\ x.next = <<>> /\ answer' = "false"
      /\ UNCHANGED <<states, scratch, output, SetNextWorkVars>>
  BY DEF NothingLeft, InState, Pending
<1>2. /\ OpsPassed /\ s \in StateIndex /\ RightFor(s, t, x) /\ Len(x.data) < InputBlockSize
      /\ DOMAIN scratch = StateIndex /\ DOMAIN states = StateIndex
      /\ DOMAIN x = DOMAIN EmptyScratch /\ output = OutputWith(scratch)
  BY <1>1, SettingIs
<1>3. /\ DOMAIN states' = StateIndex /\ DOMAIN scratch' = StateIndex
      /\ \A r \in StateIndex : states'[r] = IF r = s THEN t ELSE states[r]
      /\ \A r \in StateIndex : scratch'[r] = IF r = s THEN x ELSE scratch[r]
  BY <1>1, <1>2
<1>4. UNCHANGED SetNextWorkVars /\ output' = OutputWith(scratch)
  BY <1>1, <1>2
<1>5. OutputWith(scratch') = OutputWith(scratch)
  BY <1>1
<1> HIDE DEF x, t
<1> QED BY <1>1, <1>2, <1>3, <1>4, <1>5, TurnKeeps DEF s

(* An append that fills the buffer.                                        *)
LEMMA AppendToBufferKeeps == ParallelInv /\ AppendToBuffer => ParallelInv'
<1> SUFFICES ASSUME ParallelInv, AppendToBuffer PROVE ParallelInv'
  OBVIOUS
<1> DEFINE s == Current
           x == scratch[s]
           t == states[s]
           k == Head(x.next)
           d == ops[k].data
           full == t.bytesInBuffer + Todo(t, d) = InputBlockSize
           whole == Todo(t, d) = Len(d)
           x1 == [x EXCEPT !.data = IF full THEN Filled(t, d) ELSE @,
                           !.next = IF full /\ ~whole THEN @ ELSE Tail(@),
                           !.processingState = IF full /\ ~whole THEN "DATA_START" ELSE @,
                           !.bytesAlreadyProcessed = IF full /\ ~whole THEN Todo(t, d) ELSE @]
<1>1. /\ Setting /\ x.next # <<>> /\ x.processingState = "NEXT" /\ ops[k].hashOperation = "append"
      /\ UNCHANGED <<output, SetNextWorkVars>>
  BY DEF AppendToBuffer, InState, Pending, CurrentOp
<1>2. /\ OpsPassed /\ Len(ops) \in Nat /\ s \in StateIndex /\ RightFor(s, t, x)
      /\ Len(x.data) < InputBlockSize
      /\ DOMAIN scratch = StateIndex /\ DOMAIN states = StateIndex
      /\ DOMAIN x = DOMAIN EmptyScratch /\ output = OutputWith(scratch)
  BY <1>1, SettingIs
<1>3. t \in HashStates
  BY <1>2 DEF RightFor, Right
<1>4. /\ states' = [states EXCEPT ![s] = Took(t, d)]
      /\ scratch' = [scratch EXCEPT ![s] = x1]
      /\ answer' = IF full THEN "true" ELSE "run"
  <2> DEFINE st == Counted(t, Len(d))
  <2>1. st.bytesInBuffer = t.bytesInBuffer /\ st.buffer = t.buffer
    BY <1>3 DEF Counted, HashStates
  <2>2. /\ states' = [states EXCEPT ![s] =
              [st EXCEPT !.buffer = Overwrite(st.buffer, st.bytesInBuffer,
                                      SubSeq(d, 1, Least(InputBlockSize - st.bytesInBuffer, Len(d)))),
                         !.bytesInBuffer = InBuffer(st.bytesInBuffer
                                             + Least(InputBlockSize - st.bytesInBuffer, Len(d)))]]
    BY DEF AppendToBuffer, CurrentOp, Pending
  <2>3. states' = [states EXCEPT ![s] = Took(t, d)]
    <3> HIDE DEF st, s, t, d
    <3>1. Took(t, d) = [st EXCEPT !.buffer = Filled(t, d), !.bytesInBuffer = InBuffer(t.bytesInBuffer + Todo(t, d))]
      BY DEF Took, st
    <3> QED BY <2>1, <2>2, <3>1 DEF Filled, Todo
  <2> DEFINE todo == Least(InputBlockSize - st.bytesInBuffer, Len(d))
             fl == st.bytesInBuffer + todo = InputBlockSize
             wh == todo = Len(d)
             x2 == [x EXCEPT !.data = IF fl THEN Overwrite(st.buffer, st.bytesInBuffer, SubSeq(d, 1, todo)) ELSE @,
                             !.next = IF fl /\ ~wh THEN @ ELSE Tail(@),
                             !.processingState = IF fl /\ ~wh THEN "DATA_START" ELSE @,
                             !.bytesAlreadyProcessed = IF fl /\ ~wh THEN todo ELSE @]
  <2>4. scratch' = [scratch EXCEPT ![s] = x2] /\ answer' = IF fl THEN "true" ELSE "run"
    <3>1. answer' = IF fl THEN "true" ELSE "run"
      BY DEF AppendToBuffer, CurrentOp, Pending
    <3>2. scratch' = [scratch EXCEPT ![s] = x2]
      BY Zenon DEF AppendToBuffer, CurrentOp, Pending
    <3> QED BY <3>1, <3>2
  <2>5. todo = Todo(t, d)
    <3> HIDE DEF st, t, d
    <3> QED BY <2>1 DEF Todo
  <2>6. (fl <=> full) /\ (wh <=> whole) /\ Filled(t, d) = Overwrite(st.buffer, st.bytesInBuffer, SubSeq(d, 1, todo))
    <3> HIDE DEF st, t, d, todo
    <3> QED BY <2>1, <2>5 DEF Filled
  <2>7. x1 = x2
    <3> HIDE DEF st, t, d, todo, fl, wh, full, whole, x
    <3> QED BY <2>5, <2>6
  <2>8. answer' = IF full THEN "true" ELSE "run"
    <3> HIDE DEF fl, full
    <3> QED BY <2>4, <2>6
  <2> HIDE DEF x1, x2
  <2> QED BY <2>3, <2>4, <2>7, <2>8
<1> HIDE DEF s, x, t, k, d, full, whole
<1>5. /\ x1.data = (IF full THEN Filled(t, d) ELSE x.data)
      /\ x1.next = (IF full /\ ~whole THEN x.next ELSE Tail(x.next))
      /\ x1.processingState = (IF full /\ ~whole THEN "DATA_START" ELSE "NEXT")
      /\ full /\ ~whole => x1.bytesAlreadyProcessed = Todo(t, d)
      /\ DOMAIN x1 = DOMAIN EmptyScratch
  BY <1>1, <1>2 DEF EmptyScratch
<1> HIDE DEF x1
<1>6. RightFor(s, Took(t, d), x1)
  BY <1>1, <1>2, <1>5, AppendToBufferRight DEF k, d, full, whole
<1>7. output' = OutputWith(scratch')
  <2>1. scratch[s] = x
    BY DEF x
  <2>2. Queued(s, x.next, Before(x.next))
    BY <1>2 DEF RightFor
  <2>3. CASE full /\ ~whole
    <3>1. x1.next = scratch[s].next
      BY <1>5, <2>1, <2>3
    <3>2. OutputWith(scratch') = OutputWith(scratch)
      <4>1. SameOutput(scratch, scratch')
        BY <1>2, <1>4, <3>1, OutputStays, Zenon
      <4> QED BY <4>1 DEF SameOutput
    <3> QED BY <1>1, <1>2, <3>2
  <2>4. CASE ~(full /\ ~whole)
    <3>1. x1.next = Tail(scratch[s].next)
      BY <1>5, <2>1, <2>4
    <3>2. OutputWith(scratch') = OutputWith(scratch)
      <4>1. /\ Queued(s, scratch[s].next, Before(scratch[s].next)) /\ scratch[s].next # <<>>
            /\ k = Head(scratch[s].next) /\ ops[k].hashOperation = "append"
        BY <1>1, <2>1, <2>2 DEF k
      <4>2. MovedOutput(scratch, scratch', k)
        BY <1>2, <1>4, <3>1, <4>1, OutputMoves, Zenon
      <4> QED BY <4>1, <4>2 DEF MovedOutput, SameOutput
    <3> QED BY <1>1, <1>2, <3>2
  <2> QED BY <2>3, <2>4
<1>8. answer' # "true" => Len(x1.data) < InputBlockSize
  BY <1>2, <1>4, <1>5
<1>9. answer' # "false"
  BY <1>4
<1>10. UNCHANGED SetNextWorkVars
  BY <1>1
<1>11. /\ DOMAIN states' = StateIndex /\ DOMAIN scratch' = StateIndex
       /\ \A r \in StateIndex : states'[r] = IF r = s THEN Took(t, d) ELSE states[r]
       /\ \A r \in StateIndex : scratch'[r] = IF r = s THEN x1 ELSE scratch[r]
  BY <1>2, <1>4
<1> QED BY <1>1, <1>5, <1>6, <1>7, <1>8, <1>9, <1>10, <1>11, TurnKeeps DEF s

(* A turn given by the new state and scratch state.                        *)
LEMMA TurnBy ==
  ASSUME ParallelInv, Setting, UNCHANGED SetNextWorkVars,
         NEW t1, states' = [states EXCEPT ![Current] = t1],
         NEW x1, scratch' = [scratch EXCEPT ![Current] = x1],
         DOMAIN x1 = DOMAIN EmptyScratch, RightFor(Current, t1, x1),
         output' = OutputWith(scratch'),
         answer' # "true" => Len(x1.data) < InputBlockSize,
         answer' # "false"
  PROVE  ParallelInv'
<1>1. Current \in StateIndex /\ DOMAIN scratch = StateIndex /\ DOMAIN states = StateIndex
  BY SettingIs
<1>2. /\ DOMAIN states' = StateIndex /\ DOMAIN scratch' = StateIndex
      /\ \A r \in StateIndex : states'[r] = IF r = Current THEN t1 ELSE states[r]
      /\ \A r \in StateIndex : scratch'[r] = IF r = Current THEN x1 ELSE scratch[r]
  BY <1>1
<1> QED BY <1>2, TurnKeeps

(* The results, when the queue stays and when it moves on.                 *)
LEMMA TurnOutput ==
  ASSUME ParallelInv, Setting, NEW x1, scratch' = [scratch EXCEPT ![Current] = x1]
  PROVE  /\ x1.next = scratch[Current].next /\ output' = output => output' = OutputWith(scratch')
         /\ /\ scratch[Current].next # <<>> /\ x1.next = Tail(scratch[Current].next)
            /\ output' = output /\ ops[Head(scratch[Current].next)].hashOperation = "append"
            => output' = OutputWith(scratch')
         /\ /\ scratch[Current].next # <<>> /\ x1.next = Tail(scratch[Current].next)
            /\ output' = [output EXCEPT ![Head(scratch[Current].next)] = SerialOutput[Head(scratch[Current].next)]]
            => output' = OutputWith(scratch')
<1> DEFINE s == Current
           nx == scratch[s].next
           k == Head(nx)
<1>1. /\ OpsPassed /\ Len(ops) \in Nat /\ s \in StateIndex /\ DOMAIN scratch = StateIndex
      /\ output = OutputWith(scratch) /\ Queued(s, nx, Before(nx))
  BY SettingIs DEF RightFor
<1>2. ASSUME x1.next = nx, output' = output PROVE output' = OutputWith(scratch')
  <2>1. SameOutput(scratch, scratch')
    BY <1>1, <1>2, OutputStays, Zenon
  <2> QED BY <1>1, <1>2, <2>1 DEF SameOutput
<1>3. ASSUME nx # <<>>, x1.next = Tail(nx) PROVE MovedOutput(scratch, scratch', k)
  BY <1>1, <1>3, OutputMoves, Zenon
<1> QED BY <1>1, <1>2, <1>3 DEF MovedOutput, SameOutput

(* An append to an empty buffer.                                           *)
LEMMA AppendBulkKeeps == ParallelInv /\ AppendBulk => ParallelInv'
<1> SUFFICES ASSUME ParallelInv, AppendBulk PROVE ParallelInv'
  OBVIOUS
<1> DEFINE s == Current
           x == scratch[s]
           t == states[s]
           k == Head(x.next)
           d == ops[k].data
           x1 == [x EXCEPT !.data = d, !.processingState = "DATA_END"]
           t1 == Counted(t, Len(d))
<1>1. /\ Setting /\ x.next # <<>> /\ x.processingState = "NEXT" /\ ops[k].hashOperation = "append"
      /\ t.bytesInBuffer = 0 /\ UNCHANGED SetNextWorkVars /\ output' = output
      /\ answer' = IF Len(d) >= InputBlockSize THEN "true" ELSE "run"
  BY DEF AppendBulk, InState, Pending, CurrentOp
<1>2. /\ OpsPassed /\ Len(ops) \in Nat /\ s \in StateIndex /\ RightFor(s, t, x)
      /\ Len(x.data) < InputBlockSize
      /\ DOMAIN scratch = StateIndex /\ DOMAIN states = StateIndex
      /\ DOMAIN x = DOMAIN EmptyScratch
  BY <1>1, SettingIs
<1>3. /\ states' = [states EXCEPT ![s] = t1]
      /\ scratch' = [scratch EXCEPT ![s] = x1]
  <2>1. states' = [states EXCEPT ![s] = t1]
    BY DEF AppendBulk, CurrentOp, Pending
  <2>2. scratch' = [scratch EXCEPT ![s].data = d, ![s].processingState = "DATA_END"]
    BY DEF AppendBulk, CurrentOp, Pending
  <2> HIDE DEF d, s
  <2>3. scratch' = [scratch EXCEPT ![s] = x1]
    BY <1>2, <2>2
  <2> QED BY <2>1, <2>3
<1>4. d \in Seq(Int) /\ Len(d) \in Nat /\ InputBlockSize \in Nat
  <2>1. k \in 1 .. Len(ops)
    BY <1>1, <1>2, RightParts
  <2> QED BY <1>2, <2>1, OpIs, HashAssumption
<1> HIDE DEF s, x, t, k, d, t1
<1>5. x1.data = d /\ x1.next = x.next /\ x1.processingState = "DATA_END" /\ DOMAIN x1 = DOMAIN EmptyScratch
  BY <1>2 DEF EmptyScratch
<1> HIDE DEF x1
<1>6. RightFor(s, t1, x1)
  BY <1>1, <1>2, <1>5, AppendBulkRight DEF k, d, t1
<1>7. output' = OutputWith(scratch')
  BY <1>1, <1>3, <1>5, TurnOutput DEF s, x
<1>8. answer' # "false" /\ (answer' # "true" => Len(x1.data) < InputBlockSize)
  BY <1>1, <1>4, <1>5
<1> QED BY <1>1, <1>3, <1>5, <1>6, <1>7, <1>8, TurnBy DEF s

(* The first block of the padding.                                         *)
LEMMA Result1Keeps == ParallelInv /\ Result1 => ParallelInv'
<1> SUFFICES ASSUME ParallelInv, Result1 PROVE ParallelInv'
  OBVIOUS
<1> DEFINE s == Current
           x == scratch[s]
           t == states[s]
           k == Head(x.next)
           buffer == IF NeedsTwoBlocks(t) THEN Pad1(t) ELSE PutLength(Pad1(t), t)
           p == IF NeedsTwoBlocks(t) THEN "RESULT2" ELSE "RESULT_DONE"
           x1 == [x EXCEPT !.data = buffer, !.processingState = p]
           t1 == [t EXCEPT !.buffer = buffer]
<1>1. /\ Setting /\ x.next # <<>> /\ x.processingState = "NEXT" /\ ops[k].hashOperation = "result"
      /\ UNCHANGED SetNextWorkVars /\ output' = output /\ answer' = "true"
  BY DEF Result1, InState, Pending, CurrentOp
<1>2. /\ OpsPassed /\ Len(ops) \in Nat /\ s \in StateIndex /\ RightFor(s, t, x)
      /\ Len(x.data) < InputBlockSize
      /\ DOMAIN scratch = StateIndex /\ DOMAIN states = StateIndex
      /\ DOMAIN x = DOMAIN EmptyScratch
  BY <1>1, SettingIs
<1>3. /\ states' = [states EXCEPT ![s] = t1]
      /\ scratch' = [scratch EXCEPT ![s] = x1]
  <2>1. states' = [states EXCEPT ![s].buffer = buffer]
    BY DEF Result1
  <2>2. scratch' = [scratch EXCEPT ![s].data = buffer, ![s].processingState = p]
    BY DEF Result1
  <2> HIDE DEF buffer, p, s
  <2>3. scratch' = [scratch EXCEPT ![s] = x1]
    BY <1>2, <2>2
  <2>4. states' = [states EXCEPT ![s] = t1]
    BY <1>2, <2>1
  <2> QED BY <2>3, <2>4
<1>a. /\ buffer = (IF NeedsTwoBlocks(t) THEN Pad1(t) ELSE PutLength(Pad1(t), t))
      /\ p = (IF NeedsTwoBlocks(t) THEN "RESULT2" ELSE "RESULT_DONE")
  OBVIOUS
<1> HIDE DEF s, x, t, k, buffer, p
<1>4. /\ x1.data = buffer /\ x1.next = x.next /\ x1.processingState = p
      /\ DOMAIN x1 = DOMAIN EmptyScratch
  BY <1>2 DEF EmptyScratch
<1> HIDE DEF x1
<1>5. RightFor(s, [t EXCEPT !.buffer = buffer], x1)
  BY <1>1, <1>2, <1>4, <1>a, Result1Right DEF k
<1>6. RightFor(s, t1, x1)
  BY <1>5
<1> HIDE DEF t1
<1>7. output' = OutputWith(scratch')
  BY <1>1, <1>3, <1>4, TurnOutput DEF s, x
<1>8. answer' # "false" /\ answer' = "true"
  BY <1>1
<1> QED BY <1>1, <1>3, <1>4, <1>6, <1>7, <1>8, TurnBy DEF s

(* The whole blocks of the rest of an append.                              *)
LEMMA DataStartBulkKeeps == ParallelInv /\ DataStartBulk => ParallelInv'
<1> SUFFICES ASSUME ParallelInv, DataStartBulk PROVE ParallelInv'
  OBVIOUS
<1> DEFINE s == Current
           x == scratch[s]
           t == states[s]
           d == ops[Head(x.next)].data
           rest == RestOf(x, d)
           x1 == [x EXCEPT !.data = rest, !.processingState = "DATA_END"]
<1>1. /\ Setting /\ x.processingState = "DATA_START"
      /\ UNCHANGED SetNextWorkVars /\ output' = output /\ states' = states /\ answer' = "true"
  BY DEF DataStartBulk, InState
<1>2. /\ OpsPassed /\ Len(ops) \in Nat /\ s \in StateIndex /\ RightFor(s, t, x)
      /\ Len(x.data) < InputBlockSize
      /\ DOMAIN scratch = StateIndex /\ DOMAIN states = StateIndex
      /\ DOMAIN x = DOMAIN EmptyScratch
  BY <1>1, SettingIs
<1>3. scratch' = [scratch EXCEPT ![s] = x1]
  <2>1. scratch' = [scratch EXCEPT ![s].data = rest, ![s].processingState = "DATA_END"]
    BY DEF DataStartBulk, CurrentOp, Pending, RestOf
  <2> HIDE DEF rest, s
  <2> QED BY <1>2, <2>1
<1> HIDE DEF s, x, t, d, rest
<1>4. /\ x1.data = rest /\ x1.next = x.next /\ x1.processingState = "DATA_END"
      /\ DOMAIN x1 = DOMAIN EmptyScratch
  BY <1>2 DEF EmptyScratch
<1> HIDE DEF x1
<1>5. RightFor(s, t, x1)
  <2>1. d = ops[Head(x.next)].data /\ x1.data = RestOf(x, d)
    BY <1>4 DEF d, rest
  <2> QED BY <1>1, <1>2, <1>4, <2>1, DataStartBulkRight
<1>6. output' = OutputWith(scratch')
  BY <1>1, <1>3, <1>4, TurnOutput DEF s, x
<1>7. /\ DOMAIN states' = StateIndex /\ DOMAIN scratch' = StateIndex
      /\ \A r \in StateIndex : states'[r] = IF r = s THEN t ELSE states[r]
      /\ \A r \in StateIndex : scratch'[r] = IF r = s THEN x1 ELSE scratch[r]
  BY <1>1, <1>2, <1>3 DEF t
<1>8. answer' # "false" /\ answer' = "true"
  BY <1>1
<1> QED BY <1>1, <1>4, <1>5, <1>6, <1>7, <1>8, TurnKeeps DEF s

(* The end of an append, as both of its actions have it.                   *)
LEMMA EndOfDataKeeps ==
  ASSUME ParallelInv, Setting, UNCHANGED SetNextWorkVars, output' = output, answer' = answer,
         NEW rest, EndOfData(rest), Len(rest) < InputBlockSize,
         scratch[Current].next # <<>>, ops[Head(scratch[Current].next)].hashOperation = "append",
         \A x1 : /\ x1.data = rest /\ x1.next = Tail(scratch[Current].next) /\ x1.processingState = "NEXT"
                 => RightFor(Current, Rested(states[Current], rest), x1)
  PROVE  ParallelInv'
<1> DEFINE s == Current
           x == scratch[s]
           t == states[s]
           x1 == [x EXCEPT !.data = rest, !.next = Tail(x.next), !.processingState = "NEXT"]
<1>1. /\ s \in StateIndex /\ DOMAIN scratch = StateIndex /\ DOMAIN states = StateIndex
      /\ DOMAIN x = DOMAIN EmptyScratch
  BY SettingIs
<1>2. scratch' = [scratch EXCEPT ![s] = x1]
  <2>1. scratch' = [scratch EXCEPT ![s].data = rest, ![s].next = Tail(@), ![s].processingState = "NEXT"]
    BY DEF EndOfData
  <2> HIDE DEF s
  <2>2. scratch' = [scratch EXCEPT ![s].data = rest, ![s].next = Tail(x.next), ![s].processingState = "NEXT"]
    BY <1>1, <2>1
  <2> QED BY <1>1, <2>2
<1>3. states' = [states EXCEPT ![s] = Rested(t, rest)]
  BY DEF EndOfData, Rested
<1> HIDE DEF s, x, t
<1>4. /\ x1.data = rest /\ x1.next = Tail(x.next) /\ x1.processingState = "NEXT"
      /\ DOMAIN x1 = DOMAIN EmptyScratch
  BY <1>1 DEF EmptyScratch
<1> HIDE DEF x1
<1>5. RightFor(s, Rested(t, rest), x1)
  BY <1>4, Zenon DEF s, t, x
<1>6. output' = OutputWith(scratch')
  BY <1>2, <1>4, TurnOutput DEF s, x
<1>7. answer' # "false"
  BY DEF Setting
<1> QED BY <1>2, <1>3, <1>4, <1>5, <1>6, <1>7, TurnBy DEF s

(* A rest that is less than a block.                                       *)
LEMMA DataStartEndKeeps == ParallelInv /\ DataStartEnd => ParallelInv'
<1> SUFFICES ASSUME ParallelInv, DataStartEnd PROVE ParallelInv'
  OBVIOUS
<1> DEFINE s == Current
           x == scratch[s]
           t == states[s]
           d == ops[Head(x.next)].data
           rest == RestOf(x, d)
<1>1. /\ Setting /\ x.processingState = "DATA_START"
      /\ UNCHANGED SetNextWorkVars /\ output' = output /\ answer' = answer
      /\ Len(rest) < InputBlockSize /\ EndOfData(rest)
  BY DEF DataStartEnd, InState, CurrentOp, Pending, RestOf
<1>2. /\ OpsPassed /\ Len(ops) \in Nat /\ s \in StateIndex /\ RightFor(s, t, x)
      /\ Len(x.data) < InputBlockSize
  BY <1>1, SettingIs
<1> HIDE DEF s, x, t, rest
<1>3. x.next # <<>> /\ ops[Head(x.next)].hashOperation = "append"
  <2>1. Started(s, t, x, Head(x.next), d, MessageAt(Head(x.next) - 1, s))
    BY <1>1, <1>2, StartIs
  <2> QED BY <2>1 DEF Started
<1>4. ASSUME NEW x1, x1.data = rest, x1.next = Tail(x.next), x1.processingState = "NEXT"
      PROVE  RightFor(s, Rested(t, rest), x1)
  BY <1>1, <1>2, <1>4, DataStartEndRight DEF rest
<1>5. \A x1 : /\ x1.data = rest /\ x1.next = Tail(scratch[Current].next) /\ x1.processingState = "NEXT"
              => RightFor(Current, Rested(states[Current], rest), x1)
  BY <1>4, Zenon DEF s, t, x
<1> QED BY <1>1, <1>3, <1>5, EndOfDataKeeps DEF s, x

(* What is left behind the whole blocks.                                   *)
LEMMA DataEndKeeps == ParallelInv /\ DataEnd => ParallelInv'
<1> SUFFICES ASSUME ParallelInv, DataEnd PROVE ParallelInv'
  OBVIOUS
<1> DEFINE s == Current
           x == scratch[s]
           t == states[s]
<1>1. /\ Setting /\ x.processingState = "DATA_END"
      /\ UNCHANGED SetNextWorkVars /\ output' = output /\ answer' = answer
      /\ EndOfData(x.data)
  BY DEF DataEnd, InState
<1>2. /\ OpsPassed /\ Len(ops) \in Nat /\ s \in StateIndex /\ RightFor(s, t, x)
      /\ Len(x.data) < InputBlockSize
  BY <1>1, SettingIs
<1> HIDE DEF s, x, t
<1>3. x.next # <<>>
  BY <1>1, <1>2 DEF RightFor
<1>4. Right(t, x, MessageAt(Head(x.next) - 1, s), ops[Head(x.next)])
  BY <1>2, <1>3, RightParts
<1>5. ops[Head(x.next)].hashOperation = "append"
  BY <1>1, <1>4 DEF Right
<1>6. ASSUME NEW x1, x1.data = x.data, x1.next = Tail(x.next), x1.processingState = "NEXT"
      PROVE  RightFor(s, Rested(t, x.data), x1)
  BY <1>1, <1>2, <1>6, DataEndRight
<1>7. \A x1 : /\ x1.data = x.data /\ x1.next = Tail(scratch[Current].next) /\ x1.processingState = "NEXT"
              => RightFor(Current, Rested(states[Current], x.data), x1)
  BY <1>6, Zenon DEF s, t, x
<1> QED BY <1>1, <1>2, <1>3, <1>5, <1>7, EndOfDataKeeps DEF s, x

(* The second block of the padding.                                        *)
LEMMA Result2Keeps == ParallelInv /\ Result2 => ParallelInv'
<1> SUFFICES ASSUME ParallelInv, Result2 PROVE ParallelInv'
  OBVIOUS
<1> DEFINE s == Current
           x == scratch[s]
           t == states[s]
           buffer == PutLength(ZeroBuffer, t)
           x1 == [x EXCEPT !.data = buffer, !.processingState = "RESULT_DONE"]
           t1 == [t EXCEPT !.buffer = buffer]
<1>1. /\ Setting /\ x.processingState = "RESULT2"
      /\ UNCHANGED SetNextWorkVars /\ output' = output /\ answer' = "true"
  BY DEF Result2, InState
<1>2. /\ OpsPassed /\ Len(ops) \in Nat /\ s \in StateIndex /\ RightFor(s, t, x)
      /\ Len(x.data) < InputBlockSize
      /\ DOMAIN scratch = StateIndex /\ DOMAIN states = StateIndex
      /\ DOMAIN x = DOMAIN EmptyScratch
  BY <1>1, SettingIs
<1>3. /\ states' = [states EXCEPT ![s] = t1]
      /\ scratch' = [scratch EXCEPT ![s] = x1]
  <2>1. states' = [states EXCEPT ![s].buffer = buffer]
    BY DEF Result2
  <2>2. scratch' = [scratch EXCEPT ![s].data = buffer, ![s].processingState = "RESULT_DONE"]
    BY DEF Result2
  <2> HIDE DEF buffer, s
  <2>3. scratch' = [scratch EXCEPT ![s] = x1]
    BY <1>2, <2>2
  <2>4. states' = [states EXCEPT ![s] = t1]
    BY <1>2, <2>1
  <2> QED BY <2>3, <2>4
<1>a. buffer = PutLength(ZeroBuffer, t)
  OBVIOUS
<1> HIDE DEF s, x, t, buffer
<1>4. /\ x1.data = buffer /\ x1.next = x.next /\ x1.processingState = "RESULT_DONE"
      /\ DOMAIN x1 = DOMAIN EmptyScratch
  BY <1>2 DEF EmptyScratch
<1> HIDE DEF x1
<1>5. RightFor(s, [t EXCEPT !.buffer = buffer], x1)
  BY <1>1, <1>2, <1>4, <1>a, Result2Right
<1>6. RightFor(s, t1, x1)
  BY <1>5
<1> HIDE DEF t1
<1>7. output' = OutputWith(scratch')
  BY <1>1, <1>3, <1>4, TurnOutput DEF s, x
<1>8. answer' # "false" /\ answer' = "true"
  BY <1>1
<1> QED BY <1>1, <1>3, <1>4, <1>6, <1>7, <1>8, TurnBy DEF s

(* The result is given out, and it is the one of the serial code.          *)
LEMMA ResultDoneKeeps == ParallelInv /\ ResultDone => ParallelInv'
<1> SUFFICES ASSUME ParallelInv, ResultDone PROVE ParallelInv'
  OBVIOUS
<1> DEFINE s == Current
           x == scratch[s]
           t == states[s]
           k == Head(x.next)
           x1 == [x EXCEPT !.next = Tail(x.next), !.processingState = "NEXT"]
<1>1. /\ Setting /\ x.processingState = "RESULT_DONE"
      /\ UNCHANGED SetNextWorkVars /\ answer' = answer
      /\ output' = [output EXCEPT ![k] = t.chain]
      /\ states' = [states EXCEPT ![s] = WipedState]
  BY DEF ResultDone, InState, Pending
<1>2. /\ OpsPassed /\ Len(ops) \in Nat /\ s \in StateIndex /\ RightFor(s, t, x)
      /\ Len(x.data) < InputBlockSize
      /\ DOMAIN scratch = StateIndex /\ DOMAIN states = StateIndex
      /\ DOMAIN x = DOMAIN EmptyScratch
  BY <1>1, SettingIs
<1>3. scratch' = [scratch EXCEPT ![s] = x1]
  <2>1. scratch' = [scratch EXCEPT ![s].next = Tail(@), ![s].processingState = "NEXT"]
    BY DEF ResultDone
  <2> HIDE DEF s
  <2> QED BY <1>2, <2>1
<1> HIDE DEF s, x, t, k
<1>4. /\ x1.data = x.data /\ x1.next = Tail(x.next) /\ x1.processingState = "NEXT"
      /\ DOMAIN x1 = DOMAIN EmptyScratch
  BY <1>2 DEF EmptyScratch
<1> HIDE DEF x1
<1>5. RightFor(s, WipedState, x1) /\ x.next # <<>> /\ t.chain = SerialOutput[k]
  BY <1>1, <1>2, <1>4, ResultDoneRight DEF k
<1>6. output' = OutputWith(scratch')
  <2>1. /\ scratch[Current].next # <<>> /\ x1.next = Tail(scratch[Current].next)
        /\ output' = [output EXCEPT ![Head(scratch[Current].next)] = SerialOutput[Head(scratch[Current].next)]]
    BY <1>1, <1>4, <1>5 DEF s, x, k
  <2> QED BY <1>1, <1>3, <2>1, TurnOutput DEF s
<1>7. answer' # "false"
  BY <1>1 DEF Setting
<1> QED BY <1>1, <1>2, <1>3, <1>4, <1>5, <1>6, <1>7, TurnBy DEF s

-----------------------------------------------------------------------------
(* Two sequences cut at the same place.                                    *)
LEMMA SameParts ==
  ASSUME NEW ca \in Seq(Int), NEW cb \in Seq(Int), NEW ha \in Seq(Int), NEW hb \in Seq(Int),
         Len(ca) = Len(cb), Len(ha) = Len(hb), ca \o ha = cb \o hb
  PROVE  ca = cb /\ ha = hb
<1> DEFINE l == Len(ca)
           n == Len(ha)
<1>1. l \in Nat /\ n \in Nat
  BY LenProperties
<1>2. \A k \in 1 .. l + n : (ca \o ha)[k] = IF k <= l THEN ca[k] ELSE ha[k - l]
  BY ConcatProperties
<1>3. \A k \in 1 .. l + n : (cb \o hb)[k] = IF k <= l THEN cb[k] ELSE hb[k - l]
  BY Joined
<1>4. ca = cb
  <2>1. \A k \in 1 .. l : k \in 1 .. l + n /\ k <= l
    BY <1>1
  <2>2. \A k \in 1 .. l : ca[k] = cb[k]
    BY <1>2, <1>3, <2>1
  <2> QED BY <2>2, SeqEqual
<1>5. ha = hb
  <2>1. \A k \in 1 .. n : l + k \in 1 .. l + n /\ ~(l + k <= l) /\ (l + k) - l = k
    BY <1>1
  <2>2. \A k \in 1 .. n : ha[k] = (ca \o ha)[l + k] /\ hb[k] = (ca \o ha)[l + k]
    BY <1>2, <1>3, <2>1
  <2>3. \A k \in 1 .. n : ha[k] = hb[k]
    BY <2>2
  <2> QED BY <2>3, SeqEqual
<1> QED BY <1>4, <1>5

(* Two states that hold the same message cannot be told apart.             *)
LEMMA SameObserved ==
  ASSUME NEW a, NEW b, NEW m \in Seq(Int), Holds(a, m), Holds(b, m)
  PROVE  Observed(a) = Observed(b)
<1> DEFINE ca == a.chain
           cb == b.chain
           ha == SubSeq(a.buffer, 1, a.bytesInBuffer)
           hb == SubSeq(b.buffer, 1, b.bytesInBuffer)
           n == a.bytesInBuffer
<1>1. a.dataLengthL = b.dataLengthL /\ a.dataLengthH = b.dataLengthH
  BY DEF Holds
<1>2. a.bytesInBuffer = b.bytesInBuffer
  <2>1. a.dataLengthL % InputBlockSize = a.bytesInBuffer /\ b.dataLengthL % InputBlockSize = b.bytesInBuffer
    BY BytesFromLength
  <2> QED BY <1>1, <2>1
<1>3. /\ ca \in Seq(Int) /\ ha \in Seq(Int) /\ Len(ha) = n /\ Len(m) = Len(ca) + n /\ n \in 0 .. InputBlockSize - 1
      /\ ca \o ha = m
  BY HoldsParts DEF Holds
<1>4. /\ cb \in Seq(Int) /\ hb \in Seq(Int) /\ Len(hb) = n /\ Len(m) = Len(cb) + n
      /\ cb \o hb = m
  <2>1. /\ cb \in Seq(Int) /\ hb \in Seq(Int) /\ Len(hb) = b.bytesInBuffer
        /\ Len(m) = Len(cb) + b.bytesInBuffer
    BY HoldsParts
  <2>2. cb \o hb = m
    BY DEF Holds
  <2> QED BY <1>2, <2>1, <2>2
<1> HIDE DEF ca, cb, ha, hb, n
<1>5. n \in Nat /\ Len(ca) \in Nat /\ Len(cb) \in Nat /\ Len(m) \in Nat
  BY <1>3, <1>4, HashAssumption, LenProperties
<1>6. Len(cb) = Len(ca)
  BY <1>3, <1>4, <1>5
<1>7. ca \o ha = cb \o hb
  BY <1>3, <1>4
<1>8. ca = cb /\ ha = hb
  <2>1. ca \in Seq(Int) /\ ha \in Seq(Int) /\ cb \in Seq(Int) /\ hb \in Seq(Int) /\ Len(ha) = Len(hb)
    BY <1>3, <1>4
  <2> QED BY <1>6, <1>7, <2>1, SameParts
<1> QED BY <1>1, <1>8 DEF Observed, ca, cb, ha, hb

(* When all states are idle, everything is as the serial code leaves it.   *)
LEMMA AllIdle ==
  ASSUME ParallelInv, Hashing, \A s \in StateIndex : Idle(s)
  PROVE  /\ output = SerialOutput
         /\ \A s \in StateIndex : Observed(states[s]) = Observed(SerialStates[Len(ops)][s])
<1>1. /\ OpsPassed /\ Len(ops) \in Nat
      /\ \A s \in StateIndex : RightFor(s, states[s], scratch[s])
      /\ output = OutputWith(scratch)
  BY HashingIs
<1>2. Before(<<>>) = Len(ops)
  BY DEF Before
<1>3. output = SerialOutput
  <2>1. \A k \in DOMAIN ops : k <= Before(scratch[ops[k].iHash].next)
    <3> TAKE k \in DOMAIN ops
    <3>1. k \in 1 .. Len(ops)
      BY <1>1 DEF OpsPassed
    <3>2. ops[k].iHash \in StateIndex
      BY <1>1, <3>1, OpIs
    <3>3. scratch[ops[k].iHash].next = <<>>
      BY <3>2 DEF Idle
    <3> QED BY <1>1, <1>2, <3>1, <3>3
  <2>2. OutputWith(scratch) = [k \in DOMAIN ops |-> SerialOutput[k]]
    BY <2>1 DEF OutputWith
  <2>3. SerialOutput = [k \in DOMAIN ops |-> SerialOutput[k]]
    BY DEF SerialOutput
  <2> QED BY <1>1, <2>2, <2>3
<1>4. ASSUME NEW s \in StateIndex PROVE Observed(states[s]) = Observed(SerialStates[Len(ops)][s])
  <2> DEFINE x == scratch[s]
             t == states[s]
             m == MessageAt(Len(ops), s)
             st == SerialStates[Len(ops)][s]
  <2>1. x.next = <<>> /\ Len(x.data) < InputBlockSize /\ RightFor(s, t, x)
    BY <1>1 DEF Idle
  <2>2. x.processingState = "NEXT" /\ Right(t, x, m, ops[Head(x.next)])
    BY <1>2, <2>1 DEF RightFor, MessageAt
  <2> HIDE DEF x, t, m
  <2>3. Between(t, x, m)
    BY <2>2, NextIs
  <2>4. Holds(t, m) /\ m \in Seq(Int)
    BY <2>1, <2>3, BetweenHolds
  <2>5. SerialHoldsAt(Len(ops))
    BY <1>1, SerialHolds
  <2>6. Holds(st, m)
    BY <2>5 DEF SerialHoldsAt, m, MessageAt
  <2> QED BY <2>4, <2>6, SameObserved DEF t
<1> QED BY <1>3, <1>4

(* The call is over.                                                       *)
LEMMA DoneKeeps ==
  ASSUME ParallelInv, Hashing, UNCHANGED <<ops, states, scratch, output>>, phase' = "done",
         \A s \in StateIndex : Idle(s)
  PROVE  ParallelInv'
<1>1. OpsInv'
  BY HashingIs DEF OpsInv, Hashing, Valid
<1>2. SameAsSerial'
  <2>1. /\ output = SerialOutput
        /\ \A s \in StateIndex : Observed(states[s]) = Observed(SerialStates[Len(ops)][s])
    BY AllIdle
  <2>2. SerialStates' = SerialStates /\ SerialOutput' = SerialOutput
    BY OpsSame
  <2> QED BY <2>1, <2>2 DEF SameAsSerial
<1>3. /\ DOMAIN states = StateIndex /\ DOMAIN scratch = StateIndex
      /\ \A s \in StateIndex : DOMAIN scratch[s] = DOMAIN EmptyScratch
  BY HashingIs
<1> QED BY <1>1, <1>2, <1>3 DEF ParallelInv

(* A step of the loops that only chooses the next state to look at.        *)
LEMMA LoopKeeps ==
  ASSUME ParallelInv, Hashing, UNCHANGED <<ops, states, scratch, output>>,
         phase' \in {"first", "append", "scan"}, WorkInv'
  PROVE  ParallelInv'
<1>1. /\ DOMAIN states = StateIndex /\ DOMAIN scratch = StateIndex
      /\ \A s \in StateIndex : DOMAIN scratch[s] = DOMAIN EmptyScratch
      /\ \A s \in StateIndex : RightFor(s, states[s], scratch[s])
      /\ output = OutputWith(scratch)
  BY HashingIs
<1> QED BY <1>1, HashingKeeps

(* What is known of pWork.                                                 *)
LEMMA WorkIs ==
  ASSUME ParallelInv, Hashing
  PROVE  /\ work \in Seq(StateIndex) /\ Len(work) \in Nat /\ DOMAIN work = 1 .. Len(work)
         /\ \A k \in 1 .. Len(work) : work[k] \in StateIndex
         /\ nWork \in 0 .. Len(work) /\ nWork \in Nat
         /\ \A s \in StateIndex : Idle(s) \/ Listed(s)
<1>1. WorkInv
  BY HashingIs
<1>2. work \in Seq(StateIndex) /\ nWork \in 0 .. Len(work) /\ \A s \in StateIndex : Idle(s) \/ Listed(s)
  BY <1>1 DEF WorkInv
<1> QED BY <1>2

(* What is known of the first round.                                       *)
LEMMA FirstIs ==
  ASSUME ParallelInv, phase = "first"
  PROVE  /\ Hashing /\ i \in 1 .. nWork + 1
         /\ \A k, l \in 1 .. nWork : work[k] = work[l] => k = l
         /\ \A k \in i .. nWork : k > i \/ answer # "true" => Len(scratch[work[k]].data) < InputBlockSize
         /\ i <= nWork /\ answer = "false" => scratch[work[i]].next = <<>>
         /\ \A s \in StateIndex : Idle(s) \/ \E k \in 1 .. nWork : work[k] = s
<1>1. Hashing
  BY DEF Hashing
<1>2. WorkInv
  BY <1>1, HashingIs
<1>3. /\ i \in 1 .. nWork + 1
      /\ \A k, l \in 1 .. nWork : work[k] = work[l] => k = l
      /\ \A k \in i .. nWork : k > i \/ answer # "true" => Len(scratch[work[k]].data) < InputBlockSize
      /\ i <= nWork /\ answer = "false" => scratch[work[i]].next = <<>>
  BY <1>2 DEF WorkInv
<1>4. \A s \in StateIndex : Listed(s) => \E k \in 1 .. nWork : work[k] = s
  BY <1>1, WorkIs DEF Listed
<1> QED BY <1>1, <1>3, <1>4, WorkIs

(* A state that has something to compress stays in pWork.                  *)
LEMMA FirstKeepKeeps == ParallelInv /\ FirstKeep => ParallelInv'
<1> SUFFICES ASSUME ParallelInv, FirstKeep PROVE ParallelInv'
  OBVIOUS
<1>1. /\ phase = "first" /\ i <= nWork /\ i' = i + 1 /\ answer' = "run"
      /\ UNCHANGED <<ops, states, scratch, output, work, nWork, nPar, nextWork, phase>>
  BY DEF FirstKeep, HashVars
<1>2. /\ Hashing /\ i \in 1 .. nWork + 1
      /\ \A k, l \in 1 .. nWork : work[k] = work[l] => k = l
      /\ \A k \in i .. nWork : k > i \/ answer # "true" => Len(scratch[work[k]].data) < InputBlockSize
  BY <1>1, FirstIs
<1>3. /\ work \in Seq(StateIndex) /\ nWork \in 0 .. Len(work) /\ nWork \in Nat
      /\ \A s \in StateIndex : Idle(s) \/ Listed(s)
  BY <1>2, WorkIs
<1>4. \A s \in StateIndex : (Idle(s) \/ Listed(s))'
  BY <1>1, <1>3 DEF Idle, Listed
<1>5. i' \in 1 .. nWork + 1
  BY <1>1, <1>2, <1>3
<1>6. \A k \in i + 1 .. nWork : k \in i .. nWork /\ k > i
  BY <1>2, <1>3
<1>7. \A k \in i' .. nWork : Len(scratch[work[k]].data) < InputBlockSize
  BY <1>1, <1>2, <1>6
<1>8. WorkInv'
  BY <1>1, <1>2, <1>3, <1>4, <1>5, <1>7 DEF WorkInv
<1> QED BY <1>1, <1>2, <1>8, LoopKeeps

(* One that has not gives its place to the last.                           *)
LEMMA FirstDropKeeps == ParallelInv /\ FirstDrop => ParallelInv'
<1> SUFFICES ASSUME ParallelInv, FirstDrop PROVE ParallelInv'
  OBVIOUS
<1>1. /\ phase = "first" /\ i <= nWork /\ answer = "false" /\ answer' = "run"
      /\ work' = [work EXCEPT ![i] = work[nWork]] /\ nWork' = nWork - 1
      /\ UNCHANGED <<ops, states, scratch, output, nPar, nextWork, i, phase>>
  BY DEF FirstDrop, HashVars
<1>2. /\ Hashing /\ i \in 1 .. nWork + 1
      /\ \A k, l \in 1 .. nWork : work[k] = work[l] => k = l
      /\ \A k \in i .. nWork : k > i \/ answer # "true" => Len(scratch[work[k]].data) < InputBlockSize
      /\ i <= nWork /\ answer = "false" => scratch[work[i]].next = <<>>
      /\ \A s \in StateIndex : Idle(s) \/ \E k \in 1 .. nWork : work[k] = s
  BY <1>1, FirstIs
<1>3. /\ work \in Seq(StateIndex) /\ Len(work) \in Nat /\ DOMAIN work = 1 .. Len(work)
      /\ \A k \in 1 .. Len(work) : work[k] \in StateIndex
      /\ nWork \in 0 .. Len(work) /\ nWork \in Nat
  BY <1>2, WorkIs
<1>4. i \in 1 .. nWork /\ nWork \in 1 .. Len(work) /\ i \in 1 .. Len(work) /\ nWork - 1 \in Nat /\ i \in Nat
  BY <1>1, <1>2, <1>3
<1>5. /\ work' \in Seq(StateIndex) /\ Len(work') = Len(work) /\ DOMAIN work' = 1 .. Len(work)
      /\ \A k \in 1 .. Len(work) : work'[k] = IF k = i THEN work[nWork] ELSE work[k]
  BY <1>1, <1>3, <1>4
<1>6. ASSUME NEW s \in StateIndex PROVE (Idle(s) \/ Listed(s))'
  <2> SUFFICES ASSUME ~Idle(s) PROVE Listed(s)'
    BY <1>1 DEF Idle
  <2>1. PICK k \in 1 .. nWork : work[k] = s
    BY <1>2
  <2>2. k # i
    <3> SUFFICES ASSUME k = i PROVE FALSE
      OBVIOUS
    <3>1. i \in i .. nWork /\ answer # "true"
      BY <1>1, <1>4
    <3>2. Len(scratch[work[i]].data) < InputBlockSize /\ scratch[work[i]].next = <<>>
      BY <1>1, <1>2, <3>1
    <3> QED BY <2>1, <3>2 DEF Idle
  <2>3. \E l \in 1 .. Len(work) : work'[l] = s /\ l <= nWork - 1
    <3>1. CASE k = nWork
      <4>1. i <= nWork - 1 /\ work'[i] = s
        BY <1>4, <1>5, <2>1, <2>2, <3>1
      <4> QED BY <1>4, <4>1
    <3>2. CASE k # nWork
      <4>1. k \in 1 .. Len(work) /\ k <= nWork - 1
        BY <1>3, <1>4, <2>1, <3>2
      <4>2. work'[k] = s
        BY <1>5, <2>1, <2>2, <4>1
      <4> QED BY <4>1, <4>2
    <3> QED BY <3>1, <3>2
  <2> QED BY <1>1, <1>5, <2>3 DEF Listed
<1>7. \A k, l \in 1 .. nWork - 1 : work'[k] = work'[l] => k = l
  <2> TAKE k, l \in 1 .. nWork - 1
  <2>1. /\ k \in 1 .. nWork /\ l \in 1 .. nWork /\ k # nWork /\ l # nWork /\ nWork \in 1 .. nWork
        /\ k \in 1 .. Len(work) /\ l \in 1 .. Len(work)
    BY <1>3, <1>4
  <2> QED BY <1>2, <1>5, <2>1
<1>8. \A k \in i .. nWork - 1 : Len(scratch[work'[k]].data) < InputBlockSize
  <2> TAKE k \in i .. nWork - 1
  <2>1. /\ k \in 1 .. Len(work) /\ k \in i .. nWork /\ nWork \in i .. nWork
        /\ answer # "true"
    BY <1>1, <1>3, <1>4
  <2> QED BY <1>2, <1>5, <2>1
<1>9. i \in 1 .. (nWork - 1) + 1 /\ nWork - 1 \in 0 .. Len(work)
  BY <1>3, <1>4
<1>10. WorkInv'
  BY <1>1, <1>5, <1>6, <1>7, <1>8, <1>9 DEF WorkInv
<1> QED BY <1>1, <1>2, <1>10, LoopKeeps

-----------------------------------------------------------------------------
(* The places of pWork that hold a state with something to do, once the    *)
(* first round is over: the active ones, and those that wait from next.    *)
InUse(k, par, next, left) == k <= par \/ k \in next .. next + (left - par) - 1

(* What is known of the later rounds.                                      *)
LEMMA RoundIs ==
  ASSUME ParallelInv, phase \in {"append", "scan"}
  PROVE  /\ Hashing /\ nPar \in 1 .. nWork /\ nextWork \in nPar + 1 .. Len(work) + 1
         /\ nextWork + (nWork - nPar) - 1 <= Len(work)
         /\ phase = "scan" => /\ i \in 1 .. nPar
                              /\ answer # "true" => Len(scratch[work[i]].data) < InputBlockSize
                              /\ answer = "false" => scratch[work[i]].next = <<>>
         /\ \A s \in StateIndex : Idle(s) \/ \E k \in 1 .. Len(work) : work[k] = s /\ InUse(k, nPar, nextWork, nWork)
<1>1. Hashing
  BY DEF Hashing
<1>2. WorkInv
  BY <1>1, HashingIs
<1>3. /\ nPar \in 1 .. nWork /\ nextWork \in nPar + 1 .. Len(work) + 1
      /\ nextWork + (nWork - nPar) - 1 <= Len(work)
      /\ phase = "scan" => /\ i \in 1 .. nPar
                           /\ answer # "true" => Len(scratch[work[i]].data) < InputBlockSize
                           /\ answer = "false" => scratch[work[i]].next = <<>>
  BY <1>2 DEF WorkInv
<1>4. \A s \in StateIndex : Listed(s) => \E k \in 1 .. Len(work) : work[k] = s /\ InUse(k, nPar, nextWork, nWork)
  BY <1>1, WorkIs DEF Listed, InUse
<1> QED BY <1>1, <1>3, <1>4, WorkIs

(* The loop variables as a round may find them.                            *)
RoundVars(w, par, next, left) ==
  /\ w \in Seq(StateIndex) /\ left \in 0 .. Len(w) /\ par \in 0 .. left /\ (left > 0 => par > 0)
  /\ next \in par + 1 .. Len(w) + 1 /\ next + (left - par) - 1 <= Len(w)
  /\ \A s \in StateIndex : Idle(s) \/ \E k \in 1 .. Len(w) : w[k] = s /\ InUse(k, par, next, left)

RoundVarsNext(w, par, next, left) == work' = w /\ nPar' = par /\ nextWork' = next /\ nWork' = left

(* What the entry into a round has to set up.                              *)
LEMMA RoundKeeps ==
  ASSUME ParallelInv, Hashing, UNCHANGED <<ops, states, scratch, output>>,
         phase' \in {"append", "scan"},
         NEW w, NEW par, NEW next, NEW left, RoundVars(w, par, next, left), left > 0,
         RoundVarsNext(w, par, next, left),
         phase' = "scan" => /\ i' \in 1 .. par /\ answer' # "false"
                            /\ answer' # "true" => Len(scratch[w[i']].data) < InputBlockSize
  PROVE  ParallelInv'
<1>1. DOMAIN w = 1 .. Len(w) /\ work' = w /\ nPar' = par /\ nextWork' = next /\ nWork' = left
  BY DEF RoundVars, RoundVarsNext
<1>2. ASSUME NEW s \in StateIndex PROVE (Idle(s) \/ Listed(s))'
  <2>1. CASE Idle(s)
    BY <2>1 DEF Idle
  <2>2. CASE \E k \in 1 .. Len(w) : w[k] = s /\ InUse(k, par, next, left)
    <3>1. PICK k \in 1 .. Len(w) : w[k] = s /\ InUse(k, par, next, left)
      BY <2>2
    <3> QED BY <1>1, <3>1 DEF Listed, InUse
  <2> QED BY <2>1, <2>2 DEF RoundVars
<1>3. /\ w \in Seq(StateIndex) /\ left \in 0 .. Len(w) /\ par \in 1 .. left
      /\ next \in par + 1 .. Len(w) + 1 /\ next + (left - par) - 1 <= Len(w)
  BY DEF RoundVars
<1>4. WorkInv'
  BY <1>1, <1>2, <1>3 DEF WorkInv
<1> QED BY <1>4, LoopKeeps

(* The end of the first round: the largest first, and as many at a time as *)
(* can be compressed in parallel.                                          *)
LEMMA FirstDoneKeeps == ParallelInv /\ FirstDone => ParallelInv'
<1> SUFFICES ASSUME ParallelInv, FirstDone PROVE ParallelInv'
  OBVIOUS
<1>1. /\ phase = "first" /\ UNCHANGED <<ops, states, scratch, output, nWork, i, answer>>
      /\ \/ work' = work
         \/ \E w \in SortedWork : work' = w \o SubSeq(work, nWork + 1, Len(work))
      /\ nPar' = Least(nWork, MaxParallel) /\ nextWork' = nPar' + 1
      /\ phase' = IF nWork = 0 THEN "done" ELSE "append"
  BY DEF FirstDone, HashVars
<1>2. Hashing /\ \A s \in StateIndex : Idle(s) \/ \E k \in 1 .. nWork : work[k] = s
  BY <1>1, FirstIs
<1>3. /\ work \in Seq(StateIndex) /\ Len(work) \in Nat /\ DOMAIN work = 1 .. Len(work)
      /\ \A k \in 1 .. Len(work) : work[k] \in StateIndex
      /\ nWork \in 0 .. Len(work) /\ nWork \in Nat
  BY <1>2, WorkIs
<1>4. CASE nWork = 0
  <2>1. phase' = "done" /\ \A s \in StateIndex : Idle(s)
    BY <1>1, <1>2, <1>4
  <2> QED BY <1>1, <1>2, <2>1, DoneKeeps
<1>5. CASE nWork # 0
  <2>1. MaxParallel \in Nat \ {0}
    BY ParallelAssumption
  <2> DEFINE par == Least(nWork, MaxParallel)
  <2>2. par \in 1 .. nWork /\ par \in Nat
    BY <1>3, <1>5, <2>1 DEF Least
  <2> HIDE DEF par
  <2>3. /\ work' \in Seq(StateIndex) /\ Len(work') = Len(work)
        /\ \A k \in 1 .. nWork : \E l \in 1 .. nWork : work'[l] = work[k]
    <3>1. CASE work' = work
      BY <1>3, <3>1
    <3>2. CASE \E w \in SortedWork : work' = w \o SubSeq(work, nWork + 1, Len(work))
      <4> DEFINE W == {work[k] : k \in 1 .. nWork}
                 z == SubSeq(work, nWork + 1, Len(work))
      <4>1. PICK w \in SortedWork : work' = w \o z
        BY <3>2
      <4>2. w \in [1 .. nWork -> W] /\ {w[k] : k \in DOMAIN w} = W
        BY DEF SortedWork, Range
      <4>3. W \subseteq StateIndex
        BY <1>3
      <4>4. w \in Seq(StateIndex) /\ Len(w) = nWork
        BY <1>3, <4>2, <4>3
      <4>5. z \in Seq(StateIndex) /\ Len(z) = Len(work) - nWork
        <5>1. nWork + 1 \in 1 .. Len(work) + 1 /\ Len(work) \in (nWork + 1) - 1 .. Len(work)
          BY <1>3
        <5>2. \A k \in nWork + 1 .. Len(work) : work[k] \in StateIndex
          BY <1>3
        <5>3. Len(work) - (nWork + 1) + 1 = Len(work) - nWork /\ Len(work) - nWork >= 0
          BY <1>3
        <5>4. z \in Seq(StateIndex) /\ Len(z) = IF nWork + 1 <= Len(work) THEN Len(work) - (nWork + 1) + 1 ELSE 0
          BY <1>3, <5>1, <5>2, SubSeqProperties
        <5> HIDE DEF z
        <5>5. CASE nWork + 1 <= Len(work)
          BY <5>3, <5>4, <5>5
        <5>6. CASE ~(nWork + 1 <= Len(work))
          <6>1. Len(work) - nWork = 0
            <7>1. nWork \in Nat /\ Len(work) \in Nat /\ nWork <= Len(work)
              BY <1>3
            <7> QED BY <5>6, <7>1
          <6> QED BY <5>4, <5>6, <6>1
        <5> QED BY <5>5, <5>6
      <4>6. \A k \in 1 .. nWork : \E l \in 1 .. nWork : w[l] = work[k]
        BY <4>2
      <4> HIDE DEF z, W
      <4>7. w \o z \in Seq(StateIndex) /\ Len(w \o z) = Len(work) /\ \A l \in 1 .. nWork : (w \o z)[l] = w[l]
        <5>1. /\ w \o z \in Seq(StateIndex) /\ Len(w \o z) = Len(w) + Len(z)
              /\ \A l \in 1 .. Len(w) + Len(z) : (w \o z)[l] = IF l <= Len(w) THEN w[l] ELSE z[l - Len(w)]
          BY <4>4, <4>5, ConcatProperties
        <5>2. Len(w) + Len(z) = Len(work)
          BY <1>3, <4>4, <4>5
        <5>3. \A l \in 1 .. nWork : l \in 1 .. Len(work) /\ l <= nWork
          BY <1>3
        <5> QED BY <4>4, <5>1, <5>2, <5>3
      <4> QED BY <4>1, <4>6, <4>7
    <3> QED BY <1>1, <3>1, <3>2
  <2>4. PICK w : w = work'
    OBVIOUS
  <2>5. ASSUME NEW k \in 1 .. nWork PROVE k \in 1 .. Len(w) /\ InUse(k, par, par + 1, nWork)
    <3>1. k \in 1 .. Len(work) /\ k \in Nat
      BY <1>3
    <3>2. k <= par \/ k \in par + 1 .. (par + 1) + (nWork - par) - 1
      BY <1>3, <2>2, <3>1
    <3> QED BY <2>3, <2>4, <3>1, <3>2 DEF InUse
  <2>6. \A s \in StateIndex : Idle(s) \/ \E k \in 1 .. Len(w) : w[k] = s /\ InUse(k, par, par + 1, nWork)
    BY <1>2, <2>3, <2>4, <2>5
  <2>7. /\ par + 1 \in par + 1 .. Len(work) + 1 /\ (par + 1) + (nWork - par) - 1 <= Len(work)
        /\ nWork > 0 /\ par > 0 /\ par \in 0 .. nWork
    BY <1>3, <1>5, <2>2
  <2>8. RoundVars(w, par, par + 1, nWork)
    BY <1>3, <2>3, <2>4, <2>6, <2>7 DEF RoundVars
  <2>9. RoundVarsNext(w, par, par + 1, nWork)
    BY <1>1, <2>4 DEF RoundVarsNext, par
  <2>10. phase' = "append"
    BY <1>1, <1>5
  <2> QED BY <1>1, <1>2, <2>7, <2>8, <2>9, <2>10, RoundKeeps
<1> QED BY <1>4, <1>5

(* The next turn of the for loop, or the next round, or the end.           *)
LEMMA ScanFromKeeps ==
  ASSUME ParallelInv, Hashing, UNCHANGED <<ops, states, scratch, output>>,
         NEW k \in Nat \ {0}, NEW w, NEW par, NEW next, NEW left, RoundVars(w, par, next, left),
         RoundVarsNext(w, par, next, left), ScanFrom(k, w, par, left)
  PROVE  ParallelInv'
<1>1. Len(w) \in Nat /\ left \in Nat /\ par \in Nat /\ par <= left /\ next \in Nat
      /\ (left > 0 => par > 0)
  <2>1. Len(w) \in Nat
    BY LenProperties DEF RoundVars
  <2> QED BY <2>1 DEF RoundVars
<1>2. CASE k <= par
  <2>1. /\ i' = k /\ phase' = "scan"
        /\ answer' = IF Len(scratch[w[k]].data) < InputBlockSize THEN "run" ELSE "true"
    BY <1>2 DEF ScanFrom
  <2>2. left > 0 /\ k \in 1 .. par
    BY <1>1, <1>2
  <2> QED BY <2>1, <2>2, RoundKeeps
<1>3. CASE ~(k <= par)
  <2>1. phase' = IF left = 0 THEN "done" ELSE "append"
    BY <1>3 DEF ScanFrom
  <2>2. CASE left = 0
    <3>0. par = 0
      BY <1>1, <2>2
    <3>1. ASSUME NEW l \in 1 .. Len(w) PROVE ~InUse(l, par, next, left)
      <4>1. l \in Nat /\ ~(l <= 0)
        BY <1>1
      <4>2. ~(l \in next .. next + (0 - 0) - 1)
        BY <1>1, <4>1
      <4> QED BY <2>2, <3>0, <4>1, <4>2 DEF InUse
    <3>2. \A s \in StateIndex : Idle(s)
      BY <3>1 DEF RoundVars
    <3> QED BY <2>1, <2>2, <3>2, DoneKeeps
  <2>3. CASE left # 0
    <3>1. phase' = "append" /\ left > 0
      BY <1>1, <2>1, <2>3
    <3> QED BY <3>1, RoundKeeps
  <2> QED BY <2>2, <2>3
<1> QED BY <1>2, <1>3

(* A state that still has a block stays active.                            *)
LEMMA ScanKeepKeeps == ParallelInv /\ ScanKeep => ParallelInv'
<1> SUFFICES ASSUME ParallelInv, ScanKeep PROVE ParallelInv'
  OBVIOUS
<1>1. /\ phase = "scan" /\ ScanFrom(i + 1, work, nPar, nWork)
      /\ UNCHANGED <<ops, states, scratch, output, work, nWork, nPar, nextWork>>
  BY DEF ScanKeep, HashVars
<1>2. /\ Hashing /\ nPar \in 1 .. nWork /\ nextWork \in nPar + 1 .. Len(work) + 1
      /\ nextWork + (nWork - nPar) - 1 <= Len(work) /\ i \in 1 .. nPar
      /\ \A s \in StateIndex : Idle(s) \/ \E k \in 1 .. Len(work) : work[k] = s /\ InUse(k, nPar, nextWork, nWork)
  BY <1>1, RoundIs
<1>3. work \in Seq(StateIndex) /\ nWork \in 0 .. Len(work) /\ nWork \in Nat
  BY <1>2, WorkIs
<1>4. nPar \in 0 .. nWork /\ nPar > 0 /\ i + 1 \in Nat \ {0}
  BY <1>2, <1>3
<1>5. RoundVars(work, nPar, nextWork, nWork)
  BY <1>2, <1>3, <1>4 DEF RoundVars
<1>6. RoundVarsNext(work, nPar, nextWork, nWork)
  BY <1>1 DEF RoundVarsNext
<1> QED BY <1>1, <1>2, <1>4, <1>5, <1>6, ScanFromKeeps

(* One that is done gives its place to the next that waits.                *)
LEMMA ScanReplaceKeeps == ParallelInv /\ ScanReplace => ParallelInv'
<1> SUFFICES ASSUME ParallelInv, ScanReplace PROVE ParallelInv'
  OBVIOUS
<1> DEFINE w == [work EXCEPT ![i] = work[nextWork]]
<1>1. /\ phase = "scan" /\ answer = "false" /\ nWork > nPar
      /\ work' = w /\ nextWork' = nextWork + 1 /\ nWork' = nWork - 1
      /\ UNCHANGED <<ops, states, scratch, output, nPar>>
      /\ ScanFrom(i + 1, work', nPar, nWork')
  BY DEF ScanReplace, HashVars
<1>2. /\ Hashing /\ nPar \in 1 .. nWork /\ nextWork \in nPar + 1 .. Len(work) + 1
      /\ nextWork + (nWork - nPar) - 1 <= Len(work) /\ i \in 1 .. nPar
      /\ Len(scratch[work[i]].data) < InputBlockSize /\ scratch[work[i]].next = <<>>
      /\ \A s \in StateIndex : Idle(s) \/ \E k \in 1 .. Len(work) : work[k] = s /\ InUse(k, nPar, nextWork, nWork)
  BY <1>1, RoundIs
<1>3. /\ work \in Seq(StateIndex) /\ Len(work) \in Nat /\ DOMAIN work = 1 .. Len(work)
      /\ \A k \in 1 .. Len(work) : work[k] \in StateIndex
      /\ nWork \in 0 .. Len(work) /\ nWork \in Nat
  BY <1>2, WorkIs
<1>4. /\ nWork \in Nat /\ Len(work) \in Nat /\ nWork <= Len(work) /\ nPar \in Nat /\ nPar < nWork /\ nPar >= 1
      /\ nextWork \in Nat /\ nextWork > nPar /\ i \in Nat /\ i >= 1 /\ i <= nPar
      /\ nextWork + (nWork - nPar) - 1 <= Len(work)
  BY <1>1, <1>2, <1>3
<1>5. nextWork \in 1 .. Len(work) /\ i \in 1 .. Len(work) /\ i # nextWork
  BY <1>4
<1>6. /\ w \in Seq(StateIndex) /\ Len(w) = Len(work)
      /\ \A k \in 1 .. Len(work) : w[k] = IF k = i THEN work[nextWork] ELSE work[k]
  BY <1>3, <1>5
<1>7. /\ nWork - 1 \in 0 .. Len(work) /\ nPar \in 0 .. nWork - 1 /\ nPar > 0
      /\ nextWork + 1 \in nPar + 1 .. Len(work) + 1
      /\ (nextWork + 1) + ((nWork - 1) - nPar) - 1 <= Len(work)
      /\ i + 1 \in Nat \ {0}
  BY <1>4
<1>8. ASSUME NEW s \in StateIndex, ~Idle(s)
      PROVE  \E k \in 1 .. Len(work) : w[k] = s /\ InUse(k, nPar, nextWork + 1, nWork - 1)
  <2>1. PICK k \in 1 .. Len(work) : work[k] = s /\ InUse(k, nPar, nextWork, nWork)
    BY <1>2, <1>8
  <2>2. k # i
    BY <1>2, <1>8, <2>1 DEF Idle
  <2>3. CASE k = nextWork
    <3>1. w[i] = s
      BY <1>5, <1>6, <2>1, <2>3
    <3>2. InUse(i, nPar, nextWork + 1, nWork - 1)
      BY <1>4 DEF InUse
    <3> QED BY <1>5, <3>1, <3>2
  <2>4. CASE k # nextWork
    <3>1. w[k] = s
      BY <1>6, <2>1, <2>2
    <3>2. InUse(k, nPar, nextWork + 1, nWork - 1)
      BY <1>4, <2>1, <2>4 DEF InUse
    <3> QED BY <3>1, <3>2
  <2> QED BY <2>3, <2>4
<1> HIDE DEF w
<1>9. RoundVars(w, nPar, nextWork + 1, nWork - 1)
  BY <1>6, <1>7, <1>8 DEF RoundVars
<1>10. RoundVarsNext(w, nPar, nextWork + 1, nWork - 1)
  BY <1>1 DEF RoundVarsNext
<1>11. ScanFrom(i + 1, w, nPar, nWork - 1)
  BY <1>1
<1> QED BY <1>1, <1>2, <1>7, <1>9, <1>10, <1>11, ScanFromKeeps

(* Or to the last that is active, which is looked at in its turn.          *)
LEMMA ScanShrinkKeeps == ParallelInv /\ ScanShrink => ParallelInv'
<1> SUFFICES ASSUME ParallelInv, ScanShrink PROVE ParallelInv'
  OBVIOUS
<1> DEFINE w == [work EXCEPT ![i] = work[nPar]]
<1>1. /\ phase = "scan" /\ answer = "false" /\ nWork <= nPar
      /\ work' = w /\ nPar' = nPar - 1 /\ nWork' = nWork - 1
      /\ UNCHANGED <<ops, states, scratch, output, nextWork>>
      /\ ScanFrom(i, work', nPar', nWork')
  BY DEF ScanShrink, HashVars
<1>2. /\ Hashing /\ nPar \in 1 .. nWork /\ nextWork \in nPar + 1 .. Len(work) + 1
      /\ nextWork + (nWork - nPar) - 1 <= Len(work) /\ i \in 1 .. nPar
      /\ Len(scratch[work[i]].data) < InputBlockSize /\ scratch[work[i]].next = <<>>
      /\ \A s \in StateIndex : Idle(s) \/ \E k \in 1 .. Len(work) : work[k] = s /\ InUse(k, nPar, nextWork, nWork)
  BY <1>1, RoundIs
<1>3. /\ work \in Seq(StateIndex) /\ Len(work) \in Nat /\ DOMAIN work = 1 .. Len(work)
      /\ \A k \in 1 .. Len(work) : work[k] \in StateIndex
      /\ nWork \in 0 .. Len(work) /\ nWork \in Nat
  BY <1>2, WorkIs
<1>4. /\ nWork \in Nat /\ Len(work) \in Nat /\ nWork <= Len(work) /\ nPar \in Nat /\ nPar = nWork /\ nPar >= 1
      /\ nextWork \in Nat /\ nextWork > nPar /\ nextWork <= Len(work) + 1
      /\ i \in Nat /\ i >= 1 /\ i <= nPar
  BY <1>1, <1>2, <1>3
<1>5. nPar \in 1 .. Len(work) /\ i \in 1 .. Len(work) /\ i \in Nat \ {0}
  BY <1>4
<1>6. /\ w \in Seq(StateIndex) /\ Len(w) = Len(work)
      /\ \A k \in 1 .. Len(work) : w[k] = IF k = i THEN work[nPar] ELSE work[k]
  BY <1>3, <1>5
<1>7. /\ nWork - 1 \in 0 .. Len(work) /\ nPar - 1 \in 0 .. nWork - 1 /\ (nWork - 1 > 0 => nPar - 1 > 0)
      /\ nextWork \in (nPar - 1) + 1 .. Len(work) + 1
      /\ nextWork + ((nWork - 1) - (nPar - 1)) - 1 <= Len(work)
  BY <1>4
<1>8. ASSUME NEW s \in StateIndex, ~Idle(s)
      PROVE  \E k \in 1 .. Len(work) : w[k] = s /\ InUse(k, nPar - 1, nextWork, nWork - 1)
  <2>1. PICK k \in 1 .. Len(work) : work[k] = s /\ InUse(k, nPar, nextWork, nWork)
    BY <1>2, <1>8
  <2>2. k # i
    BY <1>2, <1>8, <2>1 DEF Idle
  <2>a. k <= nPar
    BY <1>4, <2>1 DEF InUse
  <2>3. CASE k = nPar
    <3>1. w[i] = s
      BY <1>5, <1>6, <2>1, <2>3
    <3>2. InUse(i, nPar - 1, nextWork, nWork - 1)
      BY <1>4, <2>2, <2>3 DEF InUse
    <3> QED BY <1>5, <3>1, <3>2
  <2>4. CASE k # nPar
    <3>1. w[k] = s
      BY <1>6, <2>1, <2>2
    <3>2. InUse(k, nPar - 1, nextWork, nWork - 1)
      BY <1>4, <2>a, <2>4 DEF InUse
    <3> QED BY <3>1, <3>2
  <2> QED BY <2>3, <2>4
<1> HIDE DEF w
<1>9. RoundVars(w, nPar - 1, nextWork, nWork - 1)
  BY <1>6, <1>7, <1>8 DEF RoundVars
<1>10. RoundVarsNext(w, nPar - 1, nextWork, nWork - 1)
  BY <1>1 DEF RoundVarsNext
<1>11. ScanFrom(i, w, nPar - 1, nWork - 1)
  BY <1>1
<1> QED BY <1>1, <1>2, <1>5, <1>9, <1>10, <1>11, ScanFromKeeps

-----------------------------------------------------------------------------
(* A state after n bytes of the data in hand are compressed.               *)
Chained(t, x, n) == [t EXCEPT !.chain = t.chain \o SubSeq(x.data, 1, n)]
Advanced(x, n) == [x EXCEPT !.data = SubSeq(x.data, n + 1, Len(x.data))]

AdvancedIs(t, x, n) ==
  /\ Chained(t, x, n) \in HashStates /\ Advanced(x, n).data \in Seq(Int)
  /\ Len(Chained(t, x, n).chain) % InputBlockSize = 0
  /\ Ahead(Chained(t, x, n), Advanced(x, n)) = Ahead(t, x)
  /\ Chained(t, x, n).chain \o Advanced(x, n).data = t.chain \o x.data
  /\ Chained(t, x, n).buffer = t.buffer /\ Chained(t, x, n).bytesInBuffer = t.bytesInBuffer
  /\ Chained(t, x, n).dataLengthL = t.dataLengthL /\ Chained(t, x, n).dataLengthH = t.dataLengthH
  /\ DOMAIN Advanced(x, n) = DOMAIN EmptyScratch
  /\ Advanced(x, n).next = x.next /\ Advanced(x, n).processingState = x.processingState
  /\ Advanced(x, n).bytesAlreadyProcessed = x.bytesAlreadyProcessed
  /\ Len(Advanced(x, n).data) <= Len(x.data)

(* Compressing whole blocks of the data leaves what is ahead as it was.    *)
LEMMA Advances ==
  ASSUME NEW t \in HashStates, NEW x, x.data \in Seq(Int), DOMAIN x = DOMAIN EmptyScratch,
         Len(t.chain) % InputBlockSize = 0,
         NEW n \in 0 .. Len(x.data), n % InputBlockSize = 0
  PROVE  AdvancedIs(t, x, n)
<1> DEFINE c == t.chain
           d == x.data
           a == SubSeq(d, 1, n)
           z == SubSeq(d, n + 1, Len(d))
           t1 == [t EXCEPT !.chain = c \o a]
           x1 == [x EXCEPT !.data = z]
<1>1. Chained(t, x, n) = t1 /\ Advanced(x, n) = x1
  BY DEF Chained, Advanced
<1>2. c \in Seq(Int) /\ Len(c) \in Nat /\ Len(c) % InputBlockSize = 0
  BY StateFields, LenProperties
<1>3. d \in Seq(Int) /\ n \in 0 .. Len(d) /\ Len(d) \in Nat /\ n \in Nat
  BY LenProperties
<1>4. Splits(d, n)
  BY <1>3, InTwoParts
<1>5. a \in Seq(Int) /\ Len(a) = n /\ z \in Seq(Int) /\ Len(z) = Len(d) - n /\ a \o z = d
  BY <1>4 DEF Splits
<1>6. Whole(d) = a \o Whole(z)
  BY <1>3, WholeSplits
<1>7. Whole(z) \in Seq(Int)
  BY <1>5, WholeIs
<1> HIDE DEF a, z
<1>8. c \o a \in Seq(Int) /\ Len(c \o a) = Len(c) + Len(a)
  BY <1>2, <1>5, ConcatProperties
<1>9. Len(c \o a) % InputBlockSize = 0
  BY <1>2, <1>3, <1>5, <1>8, SumOfBlocks
<1>10. /\ t1 \in HashStates /\ t1.chain = c \o a /\ t1.buffer = t.buffer /\ t1.bytesInBuffer = t.bytesInBuffer
       /\ t1.dataLengthL = t.dataLengthL /\ t1.dataLengthH = t.dataLengthH
  <2> HIDE DEF c
  <2> QED BY <1>8 DEF HashStates
<1>11. /\ DOMAIN x1 = DOMAIN EmptyScratch /\ x1.data = z /\ x1.next = x.next
       /\ x1.processingState = x.processingState /\ x1.bytesAlreadyProcessed = x.bytesAlreadyProcessed
  BY DEF EmptyScratch
<1> HIDE DEF t1, x1
<1>12. (c \o a) \o Whole(z) = c \o (a \o Whole(z)) /\ (c \o a) \o z = c \o (a \o z)
  <2> DEFINE v == Whole(z)
  <2>1. c \in Seq(Int) /\ a \in Seq(Int) /\ z \in Seq(Int) /\ v \in Seq(Int)
    BY <1>2, <1>5, <1>7
  <2> HIDE DEF c, v
  <2>2. (c \o a) \o v = c \o (a \o v)
    BY <2>1, Regroup
  <2>3. (c \o a) \o z = c \o (a \o z)
    BY <2>1, Regroup
  <2> QED BY <2>2, <2>3 DEF v
<1>13. Ahead(t1, x1) = c \o Whole(d)
  BY <1>6, <1>10, <1>11, <1>12 DEF Ahead
<1>14. Ahead(t, x) = c \o Whole(d)
  BY DEF Ahead
<1>15. Len(z) <= Len(d)
  BY <1>3, <1>5
<1> QED BY <1>1, <1>5, <1>9, <1>10, <1>11, <1>12, <1>13, <1>14, <1>15 DEF AdvancedIs

(* And keeps the state right.                                              *)
LEMMA AdvancedRight ==
  ASSUME NEW t, NEW x, NEW m, NEW op, Right(t, x, m, op), DOMAIN x = DOMAIN EmptyScratch,
         NEW n \in 0 .. Len(x.data), n % InputBlockSize = 0
  PROVE  Right(Chained(t, x, n), Advanced(x, n), m, op)
<1> DEFINE t1 == Chained(t, x, n)
           x1 == Advanced(x, n)
<1>1. t \in HashStates /\ x.data \in Seq(Int) /\ Len(t.chain) % InputBlockSize = 0
  BY DEF Right
<1>2. AdvancedIs(t, x, n)
  BY <1>1, Advances
<1>3. /\ t1 \in HashStates /\ x1.data \in Seq(Int) /\ Len(t1.chain) % InputBlockSize = 0
      /\ Ahead(t1, x1) = Ahead(t, x) /\ t1.chain \o x1.data = t.chain \o x.data
      /\ t1.buffer = t.buffer /\ t1.bytesInBuffer = t.bytesInBuffer
      /\ t1.dataLengthL = t.dataLengthL /\ t1.dataLengthH = t.dataLengthH
      /\ x1.processingState = x.processingState /\ x1.bytesAlreadyProcessed = x.bytesAlreadyProcessed
  BY <1>2 DEF AdvancedIs
<1> HIDE DEF t1, x1
<1>4. PutLength(ZeroBuffer, t1) = PutLength(ZeroBuffer, t)
  BY <1>3 DEF PutLength, LengthField
<1>5. \A k : CountIs(t1, k) <=> CountIs(t, k)
  BY <1>3 DEF CountIs
<1>6. CASE x.processingState = "NEXT"
  <2>1. Between(t, x, m)
    BY <1>6, NextIs
  <2>2. Between(t1, x1, m)
    BY <1>3, <1>5, <2>1 DEF Between
  <2>3. x1.processingState = "NEXT"
    BY <1>3, <1>6
  <2> QED BY <2>2, <2>3, NextIs DEF t1, x1
<1>7. CASE x.processingState # "NEXT"
  <2>1. Right(t1, x1, m, op)
    BY <1>3, <1>4, <1>5, <1>7 DEF Right
  <2> QED BY <2>1 DEF t1, x1
<1> QED BY <1>6, <1>7

(* The same with the queue of the state.                                   *)
LEMMA AdvancedRightFor ==
  ASSUME NEW s, NEW t, NEW x, RightFor(s, t, x), DOMAIN x = DOMAIN EmptyScratch,
         NEW n \in 0 .. Len(x.data), n % InputBlockSize = 0
  PROVE  RightFor(s, Chained(t, x, n), Advanced(x, n))
<1>1. Right(t, x, Message(SerialStates[Before(x.next)][s]), ops[Head(x.next)])
  BY DEF RightFor
<1>2. t \in HashStates /\ x.data \in Seq(Int) /\ Len(t.chain) % InputBlockSize = 0
  BY <1>1 DEF Right
<1>3. AdvancedIs(t, x, n)
  BY <1>2, Advances
<1>4. Advanced(x, n).next = x.next /\ Advanced(x, n).processingState = x.processingState
  BY <1>3 DEF AdvancedIs
<1>5. Right(Chained(t, x, n), Advanced(x, n), Message(SerialStates[Before(x.next)][s]), ops[Head(x.next)])
  BY <1>1, AdvancedRight
<1> QED BY <1>4, <1>5 DEF RightFor

(* The blocks every active state has.                                      *)
LEMMA ShortestIs ==
  ASSUME nPar \in Nat \ {0}, \A k \in 1 .. nPar : scratch[work[k]].data \in Seq(Int)
  PROVE  /\ Shortest \in Nat
         /\ \A k \in 1 .. nPar : Shortest <= Len(scratch[work[k]].data)
<1> DEFINE S == {Len(scratch[work[k]].data) : k \in 1 .. nPar}
           Low(n) == \A k \in 1 .. nPar : n <= Len(scratch[work[k]].data)
<1>1. \A k \in 1 .. nPar : Len(scratch[work[k]].data) \in Nat
  BY LenProperties
<1>2. S \in SUBSET Nat /\ S # {}
  <2>1. 1 \in 1 .. nPar
    OBVIOUS
  <2> QED BY <1>1, <2>1
<1>3. \E n \in S : \A l \in S : n <= l
  <2> HIDE DEF S
  <2> QED BY <1>2, LeastNatural
<1>4. \E n \in S : Low(n)
  BY <1>3
<1>5. Shortest = CHOOSE n \in S : Low(n)
  BY DEF Shortest
<1> HIDE DEF S, Low
<1>6. Shortest \in S /\ Low(Shortest)
  BY <1>4, <1>5
<1> QED BY <1>2, <1>6 DEF Low

(* The whole blocks of that.                                               *)
LEMMA BlocksOf ==
  ASSUME NEW l \in Nat
  PROVE  l - (l % InputBlockSize) \in 0 .. l /\ (l - (l % InputBlockSize)) % InputBlockSize = 0
<1> DEFINE B == InputBlockSize
           q == l \div B
           r == l % B
<1>1. B \in Nat \ {0}
  BY HashAssumption
<1>2. q \in Nat /\ r \in 0 .. B - 1 /\ l = q * B + r
  BY <1>1, Division
<1> HIDE DEF q, r, B
<1>3. q * B \in Nat
  BY <1>1, <1>2
<1>4. l - r = q * B /\ l - r \in 0 .. l
  BY <1>1, <1>2, <1>3
<1>5. (q * B) % B = 0
  BY <1>2, <1>3, WholeBlocks DEF B
<1> QED BY <1>4, <1>5 DEF r, B

(* parAppendFunc keeps the invariant: what is ahead of every state stays.  *)
LEMMA ParAppendKeeps == ParallelInv /\ ParAppend => ParallelInv'
<1> SUFFICES ASSUME ParallelInv, ParAppend PROVE ParallelInv'
  OBVIOUS
<1> DEFINE n == Shortest - (Shortest % InputBlockSize)
<1>1. /\ phase = "append" /\ phase' = "scan" /\ i' = 1
      /\ states' = [s \in StateIndex |->
              IF Active(s) THEN [states[s] EXCEPT !.chain = @ \o SubSeq(scratch[s].data, 1, n)] ELSE states[s]]
      /\ scratch' = [s \in StateIndex |->
              IF Active(s) THEN [scratch[s] EXCEPT !.data = SubSeq(@, n + 1, Len(@))] ELSE scratch[s]]
      /\ answer' = IF Len(scratch'[work[1]].data) < InputBlockSize THEN "run" ELSE "true"
      /\ UNCHANGED <<ops, output, work, nWork, nPar, nextWork>>
  BY DEF ParAppend
<1>2. /\ Hashing /\ nPar \in 1 .. nWork /\ nextWork \in nPar + 1 .. Len(work) + 1
      /\ nextWork + (nWork - nPar) - 1 <= Len(work)
  BY <1>1, RoundIs
<1>3. /\ OpsPassed /\ Len(ops) \in Nat
      /\ DOMAIN states = StateIndex /\ DOMAIN scratch = StateIndex
      /\ \A s \in StateIndex : DOMAIN scratch[s] = DOMAIN EmptyScratch
      /\ \A s \in StateIndex : RightFor(s, states[s], scratch[s])
      /\ output = OutputWith(scratch)
  BY <1>2, HashingIs
<1>4. /\ work \in Seq(StateIndex) /\ Len(work) \in Nat /\ DOMAIN work = 1 .. Len(work)
      /\ \A k \in 1 .. Len(work) : work[k] \in StateIndex
      /\ nWork \in 0 .. Len(work) /\ nWork \in Nat
      /\ \A s \in StateIndex : Idle(s) \/ Listed(s)
  BY <1>2, WorkIs
<1>5. nPar \in Nat \ {0} /\ \A k \in 1 .. nPar : k \in 1 .. Len(work)
  BY <1>2, <1>4
<1>6. \A s \in StateIndex : scratch[s].data \in Seq(Int) /\ states[s] \in HashStates
                            /\ Len(states[s].chain) % InputBlockSize = 0
  BY <1>3 DEF RightFor, Right
<1>7. Shortest \in Nat /\ \A k \in 1 .. nPar : Shortest <= Len(scratch[work[k]].data)
  <2>1. \A k \in 1 .. nPar : scratch[work[k]].data \in Seq(Int)
    BY <1>4, <1>5, <1>6
  <2> QED BY <1>5, <2>1, ShortestIs
<1>8. n \in 0 .. Shortest /\ n % InputBlockSize = 0
  BY <1>7, BlocksOf
<1> HIDE DEF n
<1>9. ASSUME NEW s \in StateIndex, Active(s) PROVE n \in 0 .. Len(scratch[s].data)
  <2>1. PICK k \in 1 .. nPar : work[k] = s
    BY <1>9 DEF Active
  <2>2. Shortest <= Len(scratch[s].data) /\ Len(scratch[s].data) \in Nat
    BY <1>6, <1>7, <2>1, LenProperties
  <2> QED BY <1>7, <1>8, <2>2
<1>10. \A s \in StateIndex :
         /\ states'[s] = IF Active(s) THEN Chained(states[s], scratch[s], n) ELSE states[s]
         /\ scratch'[s] = IF Active(s) THEN Advanced(scratch[s], n) ELSE scratch[s]
  <2> TAKE s \in StateIndex
  <2>1. states'[s] = IF Active(s) THEN [states[s] EXCEPT !.chain = @ \o SubSeq(scratch[s].data, 1, n)] ELSE states[s]
    BY <1>1
  <2>2. scratch'[s] = IF Active(s) THEN [scratch[s] EXCEPT !.data = SubSeq(@, n + 1, Len(@))] ELSE scratch[s]
    BY <1>1
  <2> QED BY <2>1, <2>2 DEF Chained, Advanced
<1>11. DOMAIN states' = StateIndex /\ DOMAIN scratch' = StateIndex
  BY <1>1
<1>12. ASSUME NEW s \in StateIndex
       PROVE  /\ RightFor(s, states'[s], scratch'[s]) /\ DOMAIN scratch'[s] = DOMAIN EmptyScratch
              /\ scratch'[s].next = scratch[s].next
              /\ Idle(s) => Len(scratch'[s].data) < InputBlockSize
  <2>1. CASE Active(s)
    <3>1. n \in 0 .. Len(scratch[s].data)
      BY <1>9, <2>1
    <3>2. AdvancedIs(states[s], scratch[s], n)
      BY <1>3, <1>6, <1>8, <3>1, Advances
    <3>3. RightFor(s, Chained(states[s], scratch[s], n), Advanced(scratch[s], n))
      BY <1>3, <1>8, <3>1, AdvancedRightFor
    <3>4. states'[s] = Chained(states[s], scratch[s], n) /\ scratch'[s] = Advanced(scratch[s], n)
      BY <1>10, <2>1
    <3>5. /\ DOMAIN scratch'[s] = DOMAIN EmptyScratch /\ scratch'[s].next = scratch[s].next
          /\ Len(scratch'[s].data) <= Len(scratch[s].data) /\ scratch'[s].data \in Seq(Int)
      BY <3>2, <3>4 DEF AdvancedIs
    <3>6. Idle(s) => Len(scratch'[s].data) < InputBlockSize
      <4>1. Len(scratch'[s].data) \in Nat /\ Len(scratch[s].data) \in Nat /\ InputBlockSize \in Nat
        BY <1>6, <3>5, LenProperties, HashAssumption
      <4>2. PICK l \in Nat : l = Len(scratch'[s].data)
        BY <4>1
      <4> QED BY <3>5, <4>1, <4>2 DEF Idle
    <3> QED BY <3>3, <3>4, <3>5, <3>6
  <2>2. CASE ~Active(s)
    <3>1. states'[s] = states[s] /\ scratch'[s] = scratch[s]
      BY <1>10, <2>2
    <3> QED BY <1>3, <3>1 DEF Idle
  <2> QED BY <2>1, <2>2
<1>13. output' = OutputWith(scratch')
  <2>1. \A k \in DOMAIN ops : scratch'[ops[k].iHash].next = scratch[ops[k].iHash].next
    <3> TAKE k \in DOMAIN ops
    <3>1. k \in 1 .. Len(ops)
      BY <1>3 DEF OpsPassed
    <3>2. ops[k].iHash \in StateIndex
      BY <1>3, <3>1, OpIs
    <3> QED BY <1>12, <3>2
  <2>2. OutputWith(scratch') = OutputWith(scratch)
    BY <2>1 DEF OutputWith
  <2> QED BY <1>1, <1>3, <2>2
<1>14. ASSUME NEW s \in StateIndex PROVE (Idle(s) \/ Listed(s))'
  <2>1. CASE Idle(s)
    <3>1. Idle(s)'
      BY <1>12, <2>1 DEF Idle
    <3> QED BY <3>1
  <2>2. CASE Listed(s)
    BY <1>1, <2>2 DEF Listed
  <2> QED BY <1>4, <2>1, <2>2
<1>15. 1 \in 1 .. nPar
  BY <1>5
<1>16. WorkInv'
  BY <1>1, <1>2, <1>4, <1>14, <1>15 DEF WorkInv
<1> QED BY <1>1, <1>2, <1>11, <1>12, <1>13, <1>16, HashingKeeps

-----------------------------------------------------------------------------
(* Linking an operation to its state puts it before those behind it.       *)
LEMMA QueueAdds ==
  ASSUME Len(ops) \in Nat, NEW s, NEW nx, NEW n \in 1 .. Len(ops), Queued(s, nx, n), ops[n].iHash = s
  PROVE  Queued(s, <<n>> \o nx, n - 1)
<1> DEFINE y == <<n>> \o nx
<1>1. /\ nx \in Seq(1 .. Len(ops)) /\ Len(nx) \in Nat /\ DOMAIN nx = 1 .. Len(nx)
      /\ \A p \in 1 .. Len(nx) : nx[p] > n /\ ops[nx[p]].iHash = s /\ nx[p] \in 1 .. Len(ops)
      /\ \A p, q \in 1 .. Len(nx) : p < q => nx[p] < nx[q]
      /\ \A k \in n + 1 .. Len(ops) : ops[k].iHash = s => \E p \in 1 .. Len(nx) : nx[p] = k
  <2>1. nx \in Seq(1 .. Len(ops))
    BY DEF Queued
  <2>2. Len(nx) \in Nat /\ DOMAIN nx = 1 .. Len(nx) /\ \A p \in 1 .. Len(nx) : nx[p] \in 1 .. Len(ops)
    BY <2>1
  <2> QED BY <2>1, <2>2 DEF Queued
<1> DEFINE l == Len(nx)
<1>2. n \in Nat /\ l \in Nat
  BY <1>1
<1>3. /\ y \in Seq(1 .. Len(ops)) /\ Len(y) = l + 1 /\ DOMAIN y = 1 .. l + 1
      /\ y[1] = n /\ \A p \in 1 .. l : y[p + 1] = nx[p]
  <2>1. <<n>> \in Seq(1 .. Len(ops)) /\ Len(<<n>>) = 1 /\ <<n>>[1] = n
    OBVIOUS
  <2>2. /\ y \in Seq(1 .. Len(ops)) /\ Len(y) = 1 + l
        /\ \A p \in 1 .. 1 + l : y[p] = IF p <= 1 THEN <<n>>[p] ELSE nx[p - 1]
    BY <1>1, <2>1, ConcatProperties
  <2>3. 1 \in 1 .. 1 + l /\ \A p \in 1 .. l : p + 1 \in 1 .. 1 + l /\ ~(p + 1 <= 1) /\ (p + 1) - 1 = p
    BY <1>2
  <2>4. y[1] = n
    BY <2>1, <2>2, <2>3
  <2>5. \A p \in 1 .. l : y[p + 1] = nx[p]
    BY <2>2, <2>3
  <2>6. 1 + l = l + 1 /\ DOMAIN y = 1 .. Len(y)
    BY <1>2, <2>2
  <2> QED BY <2>2, <2>4, <2>5, <2>6
<1> HIDE DEF y, l
<1>4. \A p \in 1 .. l + 1 : p = 1 \/ (p - 1 \in 1 .. l /\ (p - 1) + 1 = p)
  BY <1>2
<1>5. \A p \in 1 .. l + 1 : IF p = 1 THEN y[p] = n ELSE y[p] = nx[p - 1]
  BY <1>3, <1>4
<1>6. \A p \in 1 .. l + 1 : y[p] > n - 1 /\ ops[y[p]].iHash = s
  <2> TAKE p \in 1 .. l + 1
  <2>1. CASE p = 1
    BY <1>2, <1>3, <2>1
  <2>2. CASE p # 1
    <3>1. p - 1 \in 1 .. l /\ y[p] = nx[p - 1]
      BY <1>4, <1>5, <2>2
    <3>2. nx[p - 1] > n /\ ops[nx[p - 1]].iHash = s /\ nx[p - 1] \in Nat
      BY <1>1, <3>1 DEF l
    <3> QED BY <1>2, <3>1, <3>2
  <2> QED BY <2>1, <2>2
<1>7. \A p, q \in 1 .. l + 1 : p < q => y[p] < y[q]
  <2> TAKE p, q \in 1 .. l + 1
  <2> HAVE p < q
  <2>1. q # 1 /\ q - 1 \in 1 .. l
    BY <1>2, <1>4
  <2>2. y[q] = nx[q - 1]
    BY <1>5, <2>1
  <2>3. nx[q - 1] > n /\ nx[q - 1] \in Nat
    BY <1>1, <2>1 DEF l
  <2>4. CASE p = 1
    BY <1>2, <1>3, <2>2, <2>3, <2>4
  <2>5. CASE p # 1
    <3>1. p - 1 \in 1 .. l /\ y[p] = nx[p - 1] /\ p - 1 < q - 1
      BY <1>2, <1>4, <1>5, <2>5
    <3> QED BY <1>1, <2>1, <2>2, <3>1 DEF l
  <2> QED BY <2>4, <2>5
<1>8. \A k \in (n - 1) + 1 .. Len(ops) : ops[k].iHash = s => \E p \in 1 .. l + 1 : y[p] = k
  <2> TAKE k \in (n - 1) + 1 .. Len(ops)
  <2> HAVE ops[k].iHash = s
  <2>1. CASE k = n
    <3>1. 1 \in 1 .. l + 1
      BY <1>2
    <3> QED BY <1>3, <2>1, <3>1
  <2>2. CASE k # n
    <3>1. k \in n + 1 .. Len(ops)
      BY <1>2, <2>2
    <3>2. PICK p \in 1 .. l : nx[p] = k
      BY <1>1, <3>1 DEF l
    <3>3. p + 1 \in 1 .. l + 1 /\ y[p + 1] = k
      BY <1>2, <1>3, <3>2
    <3> QED BY <3>3
  <2> QED BY <2>1, <2>2
<1>9. Queued(s, y, n - 1)
  BY <1>3, <1>6, <1>7, <1>8 DEF Queued
<1> QED BY <1>9 DEF y

(* It leaves the queues of the other states alone.                         *)
LEMMA QueueMisses ==
  ASSUME Len(ops) \in Nat, NEW s, NEW nx, NEW n \in 1 .. Len(ops), Queued(s, nx, n), ops[n].iHash # s
  PROVE  Queued(s, nx, n - 1)
<1>1. /\ nx \in Seq(1 .. Len(ops))
      /\ \A p \in DOMAIN nx : nx[p] > n /\ ops[nx[p]].iHash = s
      /\ \A p, q \in DOMAIN nx : p < q => nx[p] < nx[q]
      /\ \A k \in n + 1 .. Len(ops) : ops[k].iHash = s => \E p \in DOMAIN nx : nx[p] = k
  BY DEF Queued
<1>2. \A p \in DOMAIN nx : nx[p] \in Nat
  BY <1>1
<1>3. \A p \in DOMAIN nx : nx[p] > n - 1
  BY <1>1, <1>2
<1>4. \A k \in (n - 1) + 1 .. Len(ops) : k = n \/ k \in n + 1 .. Len(ops)
  OBVIOUS
<1>5. \A k \in (n - 1) + 1 .. Len(ops) : ops[k].iHash = s => \E p \in DOMAIN nx : nx[p] = k
  BY <1>1, <1>4
<1> QED BY <1>1, <1>3, <1>5 DEF Queued

-----------------------------------------------------------------------------
Linking == phase \in {"start", "link"}

(* What the invariant says before and during the linking.                  *)
LEMMA LinkingIs ==
  ASSUME ParallelInv, Linking
  PROVE  /\ LinkInv /\ ops \in Seq(OpRecords) /\ Len(ops) \in Nat /\ DOMAIN ops = 1 .. Len(ops)
         /\ \A k \in DOMAIN ops : Len(ops[k].data) \in Words
         /\ DOMAIN states = StateIndex /\ DOMAIN scratch = StateIndex
         /\ \A s \in StateIndex : DOMAIN scratch[s] = DOMAIN EmptyScratch
<1>1. /\ OpsInv /\ DOMAIN states = StateIndex /\ DOMAIN scratch = StateIndex /\ LinkInv
      /\ \A s \in StateIndex : DOMAIN scratch[s] = DOMAIN EmptyScratch
  BY DEF ParallelInv, Linking
<1>2. ops \in Seq(OpRecords) /\ Len(ops) \in Nat /\ DOMAIN ops = 1 .. Len(ops)
  BY <1>1 DEF OpsInv, OpRecords
<1>3. \A k \in DOMAIN ops : Len(ops[k].data) \in Words
  BY <1>1 DEF OpsInv
<1> QED BY <1>1, <1>2, <1>3

(* What a step of the linking has to keep.                                 *)
LEMMA LinkingKeeps ==
  ASSUME ParallelInv, Linking, UNCHANGED <<ops, states>>, phase' \in {"start", "link", "error"},
         DOMAIN scratch' = StateIndex, \A s \in StateIndex : DOMAIN scratch'[s] = DOMAIN EmptyScratch,
         phase' = "error" \/ LinkInv'
  PROVE  ParallelInv'
<1>1. /\ ops \in Seq(OpRecords) /\ \A k \in DOMAIN ops : Len(ops[k].data) \in Words
      /\ DOMAIN states = StateIndex
  BY LinkingIs
<1>2. OpsInv'
  BY <1>1 DEF OpsInv, OpRecords
<1>3. SameAsSerial'
  BY DEF SameAsSerial
<1> QED BY <1>1, <1>2, <1>3 DEF ParallelInv

(* A call that is refused at once has hashed nothing.                      *)
LEMMA ScratchTooSmallKeeps == ParallelInv /\ ScratchTooSmall => ParallelInv'
<1> SUFFICES ASSUME ParallelInv, ScratchTooSmall PROVE ParallelInv'
  OBVIOUS
<1>1. Linking /\ UNCHANGED <<ops, states, scratch>> /\ phase' = "error"
  BY DEF ScratchTooSmall, Linking
<1> QED BY <1>1, LinkingIs, LinkingKeeps

(* The linking begins with the last operation.                             *)
LEMMA ScratchFitsKeeps == ParallelInv /\ ScratchFits => ParallelInv'
<1> SUFFICES ASSUME ParallelInv, ScratchFits PROVE ParallelInv'
  OBVIOUS
<1>1. Linking /\ phase = "start" /\ phase' = "link"
      /\ UNCHANGED <<ops, states, scratch, output, work, nWork, i>>
  BY DEF ScratchFits, Linking
<1>2. LinkInv
  BY <1>1, LinkingIs
<1>3. LinkInv'
  BY <1>1, <1>2 DEF LinkInv, Valid, Queued
<1> QED BY <1>1, <1>3, LinkingIs, LinkingKeeps

(* A call refused during the linking has hashed nothing either.            *)
LEMMA LinkFailsKeeps == ParallelInv /\ LinkFails => ParallelInv'
<1> SUFFICES ASSUME ParallelInv, LinkFails PROVE ParallelInv'
  OBVIOUS
<1>1. Linking /\ UNCHANGED <<ops, states, scratch>> /\ phase' = "error"
  BY DEF LinkFails, Linking
<1> QED BY <1>1, LinkingIs, LinkingKeeps

(* An operation is put in the queue of its state, and the state in pWork   *)
(* unless it is there.                                                     *)
LEMMA LinkKeeps == ParallelInv /\ Link => ParallelInv'
<1> SUFFICES ASSUME ParallelInv, Link PROVE ParallelInv'
  OBVIOUS
<1> DEFINE s == ops[i].iHash
           x == scratch[s]
           x1 == [x EXCEPT !.linked = TRUE, !.bytes = x.bytes + Estimate(ops[i]), !.next = <<i>> \o x.next]
<1>1. /\ phase = "link" /\ i > 0 /\ Valid(ops[i]) /\ i' = i - 1 /\ nWork' = Len(work')
      /\ work' = IF x.linked THEN work ELSE Append(work, s)
      /\ UNCHANGED <<ops, states, output, phase>>
  BY DEF Link
<1>2. scratch' = [scratch EXCEPT ![s].linked = TRUE,
                                 ![s].bytes = @ + Estimate(ops[i]),
                                 ![s].next = <<i>> \o @]
  BY DEF Link
<1>3. Linking /\ s \in StateIndex
  BY <1>1 DEF Linking, Valid
<1>4. /\ LinkInv /\ Len(ops) \in Nat /\ DOMAIN scratch = StateIndex
      /\ \A r \in StateIndex : DOMAIN scratch[r] = DOMAIN EmptyScratch
  BY <1>3, LinkingIs
<1>5. /\ i \in 0 .. Len(ops) /\ ops # <<>>
      /\ states = [r \in StateIndex |-> WipedState] /\ output = [k \in DOMAIN ops |-> <<>>]
      /\ \A k \in i + 1 .. Len(ops) : Valid(ops[k])
      /\ work \in Seq(StateIndex)
      /\ \A r \in StateIndex :
           /\ scratch[r].processingState = "NEXT" /\ scratch[r].data = <<>>
           /\ scratch[r].linked \in BOOLEAN
           /\ scratch[r].linked <=> \E k \in DOMAIN work : work[k] = r
           /\ scratch[r].next # <<>> => scratch[r].linked
           /\ Queued(r, scratch[r].next, i)
      /\ \A k, l \in DOMAIN work : work[k] = work[l] => k = l
  BY <1>4 DEF LinkInv
<1>6. i \in 1 .. Len(ops) /\ i - 1 \in 0 .. Len(ops)
  BY <1>1, <1>4, <1>5
<1>7. DOMAIN scratch' = StateIndex /\ \A r \in StateIndex : scratch'[r] = IF r = s THEN x1 ELSE scratch[r]
  <2>1. DOMAIN x = DOMAIN EmptyScratch
    BY <1>3, <1>4
  <2> QED BY <1>2, <1>3, <1>4, <2>1 DEF EmptyScratch
<1>8. /\ DOMAIN x1 = DOMAIN EmptyScratch /\ x1.linked = TRUE /\ x1.next = <<i>> \o x.next
      /\ x1.processingState = x.processingState /\ x1.data = x.data
  <2>1. DOMAIN x = DOMAIN EmptyScratch
    BY <1>3, <1>4
  <2> HIDE DEF x
  <2> QED BY <2>1 DEF EmptyScratch
<1> HIDE DEF x1, s, x
<1>9. \A r \in StateIndex : DOMAIN scratch'[r] = DOMAIN EmptyScratch
  BY <1>4, <1>7, <1>8
<1>10. ASSUME NEW r \in StateIndex PROVE Queued(r, scratch'[r].next, i - 1)
  <2>1. Queued(r, scratch[r].next, i)
    BY <1>5
  <2>2. CASE r = s
    <3>1. scratch'[r].next = <<i>> \o scratch[r].next
      BY <1>7, <1>8, <2>2 DEF x
    <3>2. ops[i].iHash = r
      BY <2>2 DEF s
    <3>3. Queued(r, <<i>> \o scratch[r].next, i - 1)
      BY <1>4, <1>6, <2>1, <3>2, QueueAdds
    <3> QED BY <3>1, <3>3
  <2>3. CASE r # s
    <3>1. scratch'[r] = scratch[r]
      BY <1>7, <2>3
    <3>2. ops[i].iHash # r
      BY <2>3 DEF s
    <3> QED BY <1>4, <1>6, <2>1, <3>1, <3>2, QueueMisses
  <2> QED BY <2>2, <2>3
<1>11. \A k \in (i - 1) + 1 .. Len(ops) : Valid(ops[k])
  <2>1. \A k \in (i - 1) + 1 .. Len(ops) : k = i \/ k \in i + 1 .. Len(ops)
    BY <1>4, <1>6
  <2> QED BY <1>1, <1>5, <2>1
<1>12. Len(work) \in Nat /\ DOMAIN work = 1 .. Len(work)
  BY <1>5
<1>13. /\ work' \in Seq(StateIndex)
       /\ \A r \in StateIndex : scratch'[r].linked <=> \E k \in DOMAIN work' : work'[k] = r
       /\ \A k, l \in DOMAIN work' : work'[k] = work'[l] => k = l
  <2>1. x.linked \in BOOLEAN /\ (x.linked <=> \E k \in DOMAIN work : work[k] = s)
    BY <1>3, <1>5 DEF x
  <2>2. CASE x.linked
    <3>1. work' = work
      BY <1>1, <2>2 DEF x, s
    <3>2. \A r \in StateIndex : scratch'[r].linked <=> scratch[r].linked
      BY <1>7, <1>8, <2>1, <2>2 DEF x
    <3> QED BY <1>5, <3>1, <3>2
  <2>3. CASE ~x.linked
    <3>1. work' = Append(work, s)
      BY <1>1, <2>3 DEF x, s
    <3>2. /\ Append(work, s) \in Seq(StateIndex) /\ Len(Append(work, s)) = Len(work) + 1
          /\ DOMAIN Append(work, s) = 1 .. Len(work) + 1
          /\ Append(work, s)[Len(work) + 1] = s
          /\ \A k \in 1 .. Len(work) : Append(work, s)[k] = work[k]
      BY <1>3, <1>5
    <3>3. /\ Len(work) + 1 \in 1 .. Len(work) + 1
          /\ \A k \in 1 .. Len(work) + 1 : k = Len(work) + 1 \/ k \in 1 .. Len(work)
          /\ \A k \in 1 .. Len(work) : k \in 1 .. Len(work) + 1
      BY <1>12
    <3>4. \A k \in 1 .. Len(work) : work[k] # s
      BY <1>12, <2>1, <2>3
    <3> DEFINE v == Append(work, s)
    <3>5. /\ v \in Seq(StateIndex) /\ DOMAIN v = 1 .. Len(work) + 1 /\ v[Len(work) + 1] = s
          /\ \A k \in 1 .. Len(work) : v[k] = work[k]
      BY <3>2
    <3> HIDE DEF v
    <3>6. \A k, l \in DOMAIN v : v[k] = v[l] => k = l
      BY <1>5, <1>12, <3>3, <3>4, <3>5
    <3>7. ASSUME NEW r \in StateIndex PROVE scratch'[r].linked <=> \E k \in DOMAIN v : v[k] = r
      <4>1. CASE r = s
        <5>1. scratch'[r].linked
          BY <1>7, <1>8, <4>1
        <5> QED BY <3>3, <3>5, <4>1, <5>1
      <4>2. CASE r # s
        <5>1. scratch'[r] = scratch[r]
          BY <1>7, <4>2
        <5>2. (\E k \in DOMAIN v : v[k] = r) <=> \E k \in DOMAIN work : work[k] = r
          BY <1>12, <3>3, <3>5, <4>2
        <5> QED BY <1>5, <5>1, <5>2
      <4> QED BY <4>1, <4>2
    <3>8. work' = v
      BY <3>1 DEF v
    <3> QED BY <3>5, <3>6, <3>7, <3>8
  <2> QED BY <2>2, <2>3
<1>14. \A r \in StateIndex :
         /\ scratch'[r].processingState = "NEXT" /\ scratch'[r].data = <<>>
         /\ scratch'[r].linked \in BOOLEAN
         /\ scratch'[r].next # <<>> => scratch'[r].linked
  <2> TAKE r \in StateIndex
  <2>1. CASE r = s
    <3>1. scratch'[r] = x1 /\ scratch[r] = x
      BY <1>7, <2>1 DEF x
    <3> QED BY <1>5, <1>8, <3>1
  <2>2. CASE r # s
    <3>1. scratch'[r] = scratch[r]
      BY <1>7, <2>2
    <3> QED BY <1>5, <3>1
  <2> QED BY <2>1, <2>2
<1>15. \A r \in StateIndex : Queued(r, scratch[r].next, i)'
  BY <1>1, <1>10 DEF Queued
<1>16. LinkInv'
  <2>1. i' \in 0 .. Len(ops) /\ \A k \in i' + 1 .. Len(ops) : Valid(ops[k])
    BY <1>1, <1>6, <1>11
  <2>2. \A k \in i' + 1 .. Len(ops') : Valid(ops[k])'
    BY <1>1, <2>1 DEF Valid
  <2>3. ops' = ops /\ states' = states /\ output' = output /\ phase' = "link" /\ nWork' = Len(work')
    BY <1>1
  <2> QED BY <1>5, <1>13, <1>14, <1>15, <2>1, <2>2, <2>3 DEF LinkInv
<1> QED BY <1>1, <1>3, <1>7, <1>9, <1>16, LinkingKeeps

(* All are linked: every state is as the serial code has it before its     *)
(* first operation.                                                        *)
LEMMA LinkedKeeps == ParallelInv /\ Linked => ParallelInv'
<1> SUFFICES ASSUME ParallelInv, Linked PROVE ParallelInv'
  OBVIOUS
<1>1. /\ phase = "link" /\ i = 0 /\ i' = 1 /\ answer' = "run" /\ phase' = "first"
      /\ UNCHANGED <<ops, states, scratch, output, work, nWork>>
  BY DEF Linked
<1>2. Linking
  BY <1>1 DEF Linking
<1>3. /\ LinkInv /\ ops \in Seq(OpRecords) /\ Len(ops) \in Nat /\ DOMAIN ops = 1 .. Len(ops)
      /\ \A k \in DOMAIN ops : Len(ops[k].data) \in Words
      /\ DOMAIN states = StateIndex /\ DOMAIN scratch = StateIndex
      /\ \A s \in StateIndex : DOMAIN scratch[s] = DOMAIN EmptyScratch
  BY <1>2, LinkingIs
<1>4. /\ states = [r \in StateIndex |-> WipedState] /\ output = [k \in DOMAIN ops |-> <<>>]
      /\ \A k \in 0 + 1 .. Len(ops) : Valid(ops[k])
      /\ nWork = Len(work) /\ work \in Seq(StateIndex)
      /\ \A r \in StateIndex :
           /\ scratch[r].processingState = "NEXT" /\ scratch[r].data = <<>>
           /\ scratch[r].linked <=> \E k \in DOMAIN work : work[k] = r
           /\ scratch[r].next # <<>> => scratch[r].linked
           /\ Queued(r, scratch[r].next, 0)
      /\ \A k, l \in DOMAIN work : work[k] = work[l] => k = l
  BY <1>1, <1>3 DEF LinkInv
<1>5. \A k \in 1 .. Len(ops) : Valid(ops[k])
  <2>1. 0 + 1 = 1
    OBVIOUS
  <2> QED BY <1>4, <2>1
<1>6. OpsPassed
  BY <1>3, <1>5 DEF OpsPassed
<1>7. OpsInv'
  BY <1>1, <1>3, <1>5 DEF OpsInv, OpRecords, Valid
<1>8. InputBlockSize \in Nat \ {0} /\ Len(<<>>) = 0 /\ <<>> \in Seq(Int) /\ 0 \in 0 .. Len(ops)
  BY <1>3, HashAssumption
<1>9. ASSUME NEW s \in StateIndex
      PROVE  /\ RightFor(s, states[s], scratch[s])
             /\ \A k \in 0 + 1 .. Before(scratch[s].next) : ops[k].iHash # s
             /\ Before(scratch[s].next) \in 0 .. Len(ops)
  <2> DEFINE x == scratch[s]
             b == Before(x.next)
  <2>1. x.processingState = "NEXT" /\ x.data = <<>> /\ Queued(s, x.next, 0) /\ states[s] = WipedState
    BY <1>4
  <2>2. b \in 0 .. Len(ops) /\ Queued(s, x.next, b) /\ \A k \in 0 + 1 .. b : ops[k].iHash # s
    BY <1>3, <1>8, <2>1, QueueSettles
  <2> HIDE DEF b
  <2>3. SerialStates[b][s] = SerialStates[0][s]
    BY <1>3, <1>6, <1>8, <2>2, SerialSkips
  <2>4. SerialStates[0][s] = WipedState
    BY <1>3, <1>6, <1>8, SerialIs DEF AllWiped
  <2>5. Message(SerialStates[b][s]) = <<>>
    BY <2>3, <2>4, WipedHolds
  <2> HIDE DEF x
  <2>6. Between(WipedState, x, <<>>)
    <3>1. x.data \in Seq(Int) /\ Len(x.data) < InputBlockSize
      BY <1>8, <2>1
    <3>2. Holds(WipedState, <<>>)
      BY WipedHolds
    <3> QED BY <3>1, <3>2, HoldsBetween
  <2>7. Right(WipedState, x, <<>>, ops[Head(x.next)])
    BY <2>1, <2>6, NextIs
  <2>8. RightFor(s, WipedState, x)
    BY <2>1, <2>2, <2>5, <2>7 DEF RightFor, b
  <2> QED BY <2>1, <2>2, <2>8 DEF b, x
<1>10. output = OutputWith(scratch)
  <2>1. \A k \in DOMAIN ops : ~(k <= Before(scratch[ops[k].iHash].next))
    <3> TAKE k \in DOMAIN ops
    <3>1. k \in 1 .. Len(ops) /\ ops[k].iHash \in StateIndex
      BY <1>3, <1>5 DEF Valid
    <3> DEFINE b == Before(scratch[ops[k].iHash].next)
    <3>2. b \in 0 .. Len(ops) /\ \A l \in 0 + 1 .. b : ops[l].iHash # ops[k].iHash
      BY <1>9, <3>1
    <3> HIDE DEF b
    <3>3. ~(k <= b)
      <4> SUFFICES ASSUME k <= b PROVE FALSE
        OBVIOUS
      <4>1. k \in 0 + 1 .. b
        BY <1>3, <3>1, <3>2
      <4> QED BY <3>2, <4>1
    <3> QED BY <3>3 DEF b
  <2> QED BY <1>4, <2>1 DEF OutputWith
<1>11. OutputInv'
  BY <1>1, <1>10, OpsSame
<1>12. \A s \in StateIndex : RightFor(s, states[s], scratch[s])'
  <2>1. \A s \in StateIndex : RightFor(s, states'[s], scratch'[s])
    BY <1>1, <1>9
  <2> QED BY <1>1, <2>1, RightSame
<1>13. Len(work) \in Nat /\ DOMAIN work = 1 .. Len(work)
  BY <1>4
<1>14. ASSUME NEW s \in StateIndex PROVE (Idle(s) \/ Listed(s))'
  <2>1. CASE scratch[s].next = <<>>
    BY <1>1, <1>4, <1>8, <2>1 DEF Idle
  <2>2. CASE scratch[s].next # <<>>
    <3>1. PICK k \in DOMAIN work : work[k] = s
      BY <1>4, <2>2
    <3>2. k <= nWork
      BY <1>4, <1>13
    <3> QED BY <1>1, <3>1, <3>2 DEF Listed
  <2> QED BY <2>1, <2>2
<1>15. /\ nWork \in 0 .. Len(work) /\ 1 \in 1 .. nWork + 1
       /\ \A k, l \in 1 .. nWork : work[k] = work[l] => k = l
       /\ \A k \in 1 .. nWork : Len(scratch[work[k]].data) < InputBlockSize
  <2>1. \A k \in 1 .. nWork : k \in DOMAIN work /\ work[k] \in StateIndex
    BY <1>4, <1>13
  <2>2. nWork \in 0 .. Len(work) /\ 1 \in 1 .. nWork + 1
    BY <1>4, <1>13
  <2>3. \A k, l \in 1 .. nWork : work[k] = work[l] => k = l
    BY <1>4, <2>1
  <2>4. Len(<<>>) < InputBlockSize
    BY <1>8
  <2>5. \A k \in 1 .. nWork : scratch[work[k]].data = <<>>
    BY <1>4, <2>1
  <2> QED BY <2>2, <2>3, <2>4, <2>5
<1>16. WorkInv'
  BY <1>1, <1>4, <1>14, <1>15 DEF WorkInv
<1>17. SameAsSerial'
  BY <1>1 DEF SameAsSerial
<1> QED BY <1>1, <1>3, <1>7, <1>11, <1>12, <1>16, <1>17 DEF ParallelInv

(* The call has returned, or nothing happens.                              *)
LEMMA StutterKeeps == ParallelInv /\ UNCHANGED vars => ParallelInv'
<1> SUFFICES ASSUME ParallelInv, UNCHANGED vars PROVE ParallelInv'
  OBVIOUS
<1>1. UNCHANGED <<ops, states, scratch, output, work, nWork, nPar, nextWork, i, answer, phase>>
  BY DEF vars
<1>2. SerialStates' = SerialStates /\ SerialOutput' = SerialOutput
  BY <1>1, OpsSame
<1>3. OpsInv'
  BY <1>1 DEF ParallelInv, OpsInv, Valid
<1>4. SameAsSerial'
  BY <1>1, <1>2 DEF ParallelInv, SameAsSerial
<1>5. CASE Hashing
  <2>1. WorkInv
    BY <1>5, HashingIs
  <2>2. WorkInv'
    BY <1>1, <2>1 DEF WorkInv, Idle, Listed
  <2> QED BY <1>1, <1>5, <2>2, LoopKeeps DEF Hashing
<1>6. CASE Linking
  <2>1. LinkInv
    BY <1>6, LinkingIs
  <2>2. LinkInv'
    BY <1>1, <2>1 DEF LinkInv, Valid, Queued
  <2> QED BY <1>1, <1>6, <2>2, LinkingIs, LinkingKeeps DEF Linking
<1>7. CASE ~Hashing /\ ~Linking
  BY <1>1, <1>3, <1>4, <1>7 DEF ParallelInv, Hashing, Linking
<1> QED BY <1>5, <1>6, <1>7

-----------------------------------------------------------------------------
(* The operations a caller may pass.                                       *)
LEMMA PassedOps ==
  ASSUME NEW o \in OperationLists
  PROVE  o \in Seq(OpRecords) /\ \A k \in DOMAIN o : Len(o[k].data) \in Words
<1>1. PICK r \in UNION {[1 .. n -> Requests] : n \in 0 .. MaxOps} :
        o = [k \in DOMAIN r |-> Operation(k, r[k][1], r[k][2], r[k][3])]
  BY DEF OperationLists
<1>2. PICK n \in 0 .. MaxOps : r \in [1 .. n -> Requests]
  BY <1>1
<1>3. n \in Nat /\ DOMAIN r = 1 .. n /\ \A k \in 1 .. n : r[k] \in Requests
  BY <1>2, ParallelAssumption
<1>4. ASSUME NEW k \in 1 .. n, NEW a, NEW kind, NEW size, a \in Nat, kind \in {"append", "result", "other"}, size \in Words
      PROVE  Operation(k, a, kind, size) \in OpRecords /\ Len(Operation(k, a, kind, size).data) \in Words
  <2> DEFINE d == [j \in 1 .. size |-> 100 * k + j]
  <2>1. size \in Nat
    BY <1>4, HashAssumption DEF Words
  <2>2. d \in [1 .. size -> Int]
    BY <1>3, <2>1
  <2>3. d \in Seq(Int) /\ Len(d) = size
    BY <2>1, <2>2, IsASeq
  <2> HIDE DEF d
  <2>4. Operation(k, a, kind, size) = [iHash |-> a, hashOperation |-> kind, data |-> d]
    BY DEF Operation, d
  <2> QED BY <1>4, <2>3, <2>4 DEF OpRecords
<1>5. ASSUME NEW q \in Requests
      PROVE  q[1] \in Nat /\ q[2] \in {"append", "result", "other"} /\ q[3] \in Words
  <2>1. NStates \in Nat /\ AppendSizes \subseteq 0 .. WordRange - 1 /\ WordRange \in Nat \ {0}
    BY ParallelAssumption, HashAssumption
  <2>2. 0 \in Words /\ AppendSizes \subseteq Words /\ StateIndex \subseteq Nat /\ NStates + 1 \in Nat /\ 1 \in Nat
    BY <2>1 DEF Words, StateIndex
  <2>3. CASE q \in StateIndex \X {"append"} \X AppendSizes
    BY <2>2, <2>3
  <2>4. CASE q \in StateIndex \X {"result"} \X {0}
    BY <2>2, <2>4
  <2>5. CASE q \in {<<NStates + 1, "result", 0>>, <<1, "other", 0>>}
    BY <2>2, <2>5
  <2> QED BY <2>3, <2>4, <2>5 DEF Requests
<1>6. \A k \in 1 .. n : Operation(k, r[k][1], r[k][2], r[k][3]) \in OpRecords
                        /\ Len(Operation(k, r[k][1], r[k][2], r[k][3]).data) \in Words
  BY <1>3, <1>4, <1>5
<1>7. DOMAIN o = 1 .. n /\ \A k \in 1 .. n : o[k] = Operation(k, r[k][1], r[k][2], r[k][3])
  BY <1>1, <1>3
<1>8. o \in [1 .. n -> OpRecords]
  <2>1. o = [k \in 1 .. n |-> Operation(k, r[k][1], r[k][2], r[k][3])]
    BY <1>1, <1>3
  <2> QED BY <1>6, <2>1
<1>9. o \in Seq(OpRecords)
  BY <1>3, <1>8, IsASeq
<1> QED BY <1>6, <1>7, <1>9

(* The initial states satisfy the invariant.                               *)
LEMMA InitInv == Init => ParallelInv
<1> SUFFICES ASSUME Init PROVE ParallelInv
  OBVIOUS
<1>1. /\ ops \in OperationLists /\ states = [s \in StateIndex |-> WipedState]
      /\ scratch = [s \in StateIndex |-> EmptyScratch] /\ output = [k \in DOMAIN ops |-> <<>>]
      /\ work = <<>> /\ nWork = 0 /\ i = Len(ops)
      /\ phase = IF ops = <<>> THEN "done" ELSE "start"
  BY DEF Init
<1>2. ops \in Seq(OpRecords) /\ \A k \in DOMAIN ops : Len(ops[k].data) \in Words
  BY <1>1, PassedOps
<1>3. Len(ops) \in Nat /\ DOMAIN ops = 1 .. Len(ops)
  BY <1>2
<1>4. DOMAIN states = StateIndex /\ DOMAIN scratch = StateIndex
      /\ \A s \in StateIndex : scratch[s] = EmptyScratch
  BY <1>1
<1>5. /\ EmptyScratch.processingState = "NEXT" /\ EmptyScratch.data = <<>> /\ EmptyScratch.linked = FALSE
      /\ EmptyScratch.next = <<>>
  BY DEF EmptyScratch
<1>6. CASE ops = <<>>
  <2>1. phase = "done" /\ Len(ops) = 0 /\ DOMAIN ops = {}
    BY <1>1, <1>3, <1>6
  <2>2. OpsInv
    BY <1>2, <2>1 DEF OpsInv, OpRecords
  <2>3. output = SerialOutput
    BY <1>1, <2>1 DEF SerialOutput
  <2>4. SerialStates[0] = AllWiped
    BY <1>3, SerialIs
  <2>5. \A s \in StateIndex : states[s] = SerialStates[Len(ops)][s]
    BY <1>1, <2>1, <2>4 DEF AllWiped
  <2>6. SameAsSerial
    BY <2>3, <2>5 DEF SameAsSerial
  <2> QED BY <1>4, <2>1, <2>2, <2>6 DEF ParallelInv
<1>7. CASE ops # <<>>
  <2>1. phase = "start"
    BY <1>1, <1>7
  <2>2. OpsInv
    BY <1>2, <2>1 DEF OpsInv, OpRecords
  <2>3. ASSUME NEW s \in StateIndex PROVE Queued(s, <<>>, Len(ops))
    <3>1. \A k \in Len(ops) + 1 .. Len(ops) : FALSE
      BY <1>3
    <3>2. <<>> \in Seq(1 .. Len(ops)) /\ DOMAIN <<>> = {}
      OBVIOUS
    <3> QED BY <3>1, <3>2 DEF Queued
  <2>4. i \in 0 .. Len(ops) /\ i = Len(ops) /\ \A k \in i + 1 .. Len(ops) : FALSE
    BY <1>1, <1>3
  <2>5. work \in Seq(StateIndex) /\ DOMAIN work = {} /\ Len(work) = 0
    BY <1>1
  <2>6. \A s \in StateIndex :
       /\ scratch[s].processingState = "NEXT" /\ scratch[s].data = <<>>
       /\ scratch[s].linked \in BOOLEAN
       /\ scratch[s].linked <=> \E k \in DOMAIN work : work[k] = s
       /\ scratch[s].next # <<>> => scratch[s].linked
       /\ Queued(s, scratch[s].next, i)
    BY <1>4, <1>5, <2>3, <2>4, <2>5
  <2>7. LinkInv
    BY <1>1, <1>7, <2>4, <2>5, <2>6 DEF LinkInv
  <2>8. SameAsSerial
    BY <2>1 DEF SameAsSerial
  <2> QED BY <1>4, <2>1, <2>2, <2>7, <2>8 DEF ParallelInv
<1> QED BY <1>6, <1>7

(* Every step keeps it.                                                    *)
LEMMA ParallelKeeps == ParallelInv /\ [Next]_vars => ParallelInv'
<1> SUFFICES ASSUME ParallelInv, [Next]_vars PROVE ParallelInv'
  OBVIOUS
<1>1. CASE SetNextWork
  BY <1>1, NothingLeftKeeps, AppendToBufferKeeps, AppendBulkKeeps, Result1Keeps, DataStartBulkKeeps,
     DataStartEndKeeps, DataEndKeeps, Result2Keeps, ResultDoneKeeps DEF SetNextWork
<1>2. CASE ScratchTooSmall \/ ScratchFits \/ Link \/ LinkFails \/ Linked
  BY <1>2, ScratchTooSmallKeeps, ScratchFitsKeeps, LinkKeeps, LinkFailsKeeps, LinkedKeeps
<1>3. CASE FirstKeep \/ FirstDrop \/ FirstDone
  BY <1>3, FirstKeepKeeps, FirstDropKeeps, FirstDoneKeeps
<1>4. CASE ParAppend \/ ScanKeep \/ ScanReplace \/ ScanShrink
  BY <1>4, ParAppendKeeps, ScanKeepKeeps, ScanReplaceKeeps, ScanShrinkKeeps
<1>5. CASE Returned \/ UNCHANGED vars
  BY <1>5, StutterKeeps DEF Returned
<1> QED BY <1>1, <1>2, <1>3, <1>4, <1>5 DEF Next, Process

(* The invariant holds throughout a call of SymCryptParallelHashProcess,   *)
(* for every list of operations, number of states and degree of            *)
(* parallelism.                                                            *)
THEOREM ParallelInvariance == Spec => []ParallelInv
<1>1. Init => ParallelInv
  BY InitInv
<1>2. ParallelInv /\ [Next]_vars => ParallelInv'
  BY ParallelKeeps
<1> QED BY <1>1, <1>2, PTL DEF Spec

(* When SymCryptParallelHashProcess returns, the results it has given out  *)
(* and the states it leaves are those of the serial code, the operations   *)
(* of pOperations one by one.                                              *)
THEOREM ParallelSameAsSerial == Spec => []SameAsSerial
<1>1. ParallelInv => SameAsSerial
  BY DEF ParallelInv
<1> QED BY <1>1, ParallelInvariance, PTL

-----------------------------------------------------------------------------
(* The bounds of the loop variables.  pWork has an entry for each state.   *)
Bounds ==
  /\ \A s \in StateIndex : states[s] \in HashStates
  /\ Len(work) \in Nat /\ Len(work) <= NStates /\ nWork \in 0 .. Len(work) /\ nPar \in 0 .. MaxParallel
  /\ answer \in {"run", "true", "false"}

(* Different states in pWork are at most as many as there are states.      *)
LEMMA AtMostAll ==
  ASSUME NEW w \in Seq(StateIndex), \A k, l \in DOMAIN w : w[k] = w[l] => k = l
  PROVE  Len(w) <= NStates
<1> DEFINE n == Len(w)
<1>1. n \in Nat /\ w \in [1 .. n -> StateIndex] /\ DOMAIN w = 1 .. n /\ NStates \in Nat
  BY ParallelAssumption
<1> HIDE DEF n
<1>2. IsFiniteSet(1 .. n) /\ Cardinality(1 .. n) = n
  <2>1. IsFiniteSet(1 .. n) /\ Cardinality(1 .. n) = IF 1 > n THEN 0 ELSE n - 1 + 1
    BY <1>1, FS_Interval
  <2> QED BY <1>1, <2>1
<1>3. IsFiniteSet(StateIndex) /\ Cardinality(StateIndex) = NStates
  <2>1. IsFiniteSet(1 .. NStates) /\ Cardinality(1 .. NStates) = IF 1 > NStates THEN 0 ELSE NStates - 1 + 1
    BY <1>1, FS_Interval
  <2> QED BY <1>1, <2>1 DEF StateIndex
<1>4. ~(NStates < n)
  <2> SUFFICES ASSUME NStates < n PROVE FALSE
    OBVIOUS
  <2>1. Cardinality(StateIndex) < Cardinality(1 .. n)
    BY <1>2, <1>3
  <2>2. \E x, y \in 1 .. n : x # y /\ w[x] = w[y]
    BY <1>1, <1>2, <1>3, <2>1, FS_PigeonHole
  <2> QED BY <1>1, <2>2
<1> QED BY <1>1, <1>4 DEF n

(* Sorting keeps the length of pWork.                                      *)
LEMMA SortedLength ==
  ASSUME work \in Seq(StateIndex), nWork \in 0 .. Len(work), NEW w \in SortedWork
  PROVE  Len(w \o SubSeq(work, nWork + 1, Len(work))) = Len(work)
<1> DEFINE W == {work[k] : k \in 1 .. nWork}
           z == SubSeq(work, nWork + 1, Len(work))
<1>1. /\ Len(work) \in Nat /\ nWork \in Nat /\ nWork <= Len(work)
      /\ \A k \in 1 .. Len(work) : work[k] \in StateIndex
  OBVIOUS
<1>2. w \in [1 .. nWork -> W] /\ W \subseteq StateIndex
  <2>1. w \in [1 .. nWork -> W]
    BY DEF SortedWork
  <2>2. \A k \in 1 .. nWork : k \in 1 .. Len(work)
    BY <1>1
  <2> QED BY <1>1, <2>1, <2>2
<1>3. w \in Seq(StateIndex) /\ Len(w) = nWork
  BY <1>1, <1>2
<1>4. \A k \in nWork + 1 .. Len(work) : work[k] \in StateIndex
  BY <1>1
<1>5. z \in Seq(StateIndex) /\ Len(z) = IF nWork + 1 <= Len(work) THEN Len(work) - (nWork + 1) + 1 ELSE 0
  BY <1>1, <1>4, SubSeqProperties
<1> HIDE DEF W, z
<1>6. Len(w \o z) = Len(w) + Len(z)
  BY <1>3, <1>5, ConcatProperties
<1>7. nWork + Len(z) = Len(work)
  <2>1. Len(work) - (nWork + 1) + 1 = Len(work) - nWork /\ (~(nWork + 1 <= Len(work)) => Len(work) = nWork)
    <3>1. nWork \in Nat /\ Len(work) \in Nat /\ nWork <= Len(work)
      BY <1>1
    <3> QED BY <3>1
  <2>2. CASE nWork + 1 <= Len(work)
    <3>1. Len(z) = Len(work) - nWork
      BY <1>5, <2>1, <2>2
    <3> QED BY <1>1, <3>1
  <2>3. CASE ~(nWork + 1 <= Len(work))
    <3>1. Len(z) = 0 /\ Len(work) = nWork
      BY <1>5, <2>1, <2>3
    <3> QED BY <1>1, <3>1
  <2> QED BY <2>2, <2>3
<1> QED BY <1>3, <1>6, <1>7 DEF z

(* The states are of their type in the invariant.                          *)
LEMMA StatesTypedNext ==
  ASSUME ParallelInv', phase' \in {"start", "link", "first", "append", "scan"}
  PROVE  \A s \in StateIndex : states'[s] \in HashStates
<1>1. CASE phase' \in {"first", "append", "scan"}
  BY <1>1 DEF ParallelInv, RightFor, Right
<1>2. CASE phase' \in {"start", "link"}
  <2>1. states' = [s \in StateIndex |-> WipedState]
    BY <1>2 DEF ParallelInv, LinkInv
  <2>2. WipedState \in HashStates
    BY WipedHolds DEF Holds
  <2> QED BY <2>1, <2>2
<1> QED BY <1>1, <1>2

(* A step that leaves pWork and its counters.                              *)
LEMMA BoundsSame ==
  ASSUME Bounds, UNCHANGED <<work, nWork, nPar>>, answer' \in {"run", "true", "false"},
         \A s \in StateIndex : states'[s] \in HashStates
  PROVE  Bounds'
  BY DEF Bounds

(* One that exchanges entries of pWork.                                    *)
LEMMA BoundsMoved ==
  ASSUME Bounds, UNCHANGED states, Len(work') = Len(work), nWork' \in 0 .. Len(work),
         nPar' \in 0 .. MaxParallel, answer' \in {"run", "true", "false"}
  PROVE  Bounds'
  BY DEF Bounds

(* Every step keeps the bounds: the linking lists no state twice, and      *)
(* later entries of pWork are only exchanged.                              *)
LEMMA BoundsKept == ParallelInv /\ ParallelInv' /\ Bounds /\ [Next]_vars => Bounds'
<1> SUFFICES ASSUME ParallelInv, ParallelInv', Bounds, [Next]_vars PROVE Bounds'
  OBVIOUS
<1>1. /\ \A s \in StateIndex : states[s] \in HashStates
      /\ Len(work) \in Nat /\ Len(work) <= NStates /\ nWork \in 0 .. Len(work) /\ nPar \in 0 .. MaxParallel
      /\ answer \in {"run", "true", "false"}
  BY DEF Bounds
<1>2. CASE SetNextWork
  <2>1. Setting /\ UNCHANGED <<work, nWork, nPar, phase>> /\ answer' \in {"run", "true", "false"}
    BY <1>1, <1>2 DEF SetNextWork, SetNextWorkVars, InState, NothingLeft, AppendToBuffer, AppendBulk, Result1,
       DataStartBulk, DataStartEnd, DataEnd, Result2, ResultDone
  <2>2. phase' \in {"first", "scan"}
    BY <2>1 DEF Setting
  <2> QED BY <2>1, <2>2, StatesTypedNext, BoundsSame
<1>3. CASE ScratchTooSmall \/ ScratchFits \/ LinkFails \/ Linked \/ FirstKeep \/ Returned \/ UNCHANGED vars
  <2>1. UNCHANGED <<states, work, nWork, nPar>> /\ answer' \in {"run", "true", "false"}
    BY <1>1, <1>3 DEF ScratchTooSmall, ScratchFits, LinkFails, Linked, FirstKeep, Returned, vars, HashVars
  <2> QED BY <1>1, <2>1, BoundsSame
<1>4. CASE Link
  <2>1. phase' = "link" /\ UNCHANGED <<states, nPar, answer>> /\ nWork' = Len(work')
    BY <1>4 DEF Link
  <2>2. work' \in Seq(StateIndex) /\ \A k, l \in DOMAIN work' : work'[k] = work'[l] => k = l
    BY <2>1 DEF ParallelInv, LinkInv
  <2>3. Len(work') \in Nat /\ Len(work') <= NStates /\ nWork' \in 0 .. Len(work')
    <3>1. PICK w : w = work'
      OBVIOUS
    <3>2. w \in Seq(StateIndex) /\ \A k, l \in DOMAIN w : w[k] = w[l] => k = l
      BY <2>2, <3>1
    <3>3. Len(w) <= NStates /\ Len(w) \in Nat
      BY <3>2, AtMostAll, LenProperties
    <3>4. Len(w) \in 0 .. Len(w)
      BY <3>3
    <3> QED BY <2>1, <3>1, <3>3, <3>4
  <2> QED BY <1>1, <2>1, <2>3 DEF Bounds
<1>5. CASE FirstDrop
  <2>1. /\ phase = "first" /\ i <= nWork /\ UNCHANGED <<states, nPar>> /\ answer' = "run"
        /\ work' = [work EXCEPT ![i] = work[nWork]] /\ nWork' = nWork - 1
    BY <1>5 DEF FirstDrop, HashVars
  <2>2. i \in 1 .. nWork + 1 /\ Hashing
    BY <2>1, FirstIs
  <2>3. work \in Seq(StateIndex) /\ Len(work) \in Nat /\ nWork \in 0 .. Len(work) /\ nWork \in Nat
    BY <2>2, WorkIs
  <2>4. Len(work') = Len(work)
    BY <2>1, <2>3
  <2>5. nWork - 1 \in 0 .. Len(work)
    BY <2>1, <2>2, <2>3
  <2> QED BY <1>1, <2>1, <2>4, <2>5, BoundsMoved
<1>6. CASE FirstDone
  <2>1. /\ phase = "first" /\ UNCHANGED <<states, nWork, answer>>
        /\ \/ work' = work
           \/ \E w \in SortedWork : work' = w \o SubSeq(work, nWork + 1, Len(work))
        /\ nPar' = Least(nWork, MaxParallel)
    BY <1>6 DEF FirstDone, HashVars
  <2>2. Hashing
    BY <2>1, FirstIs
  <2>3. /\ work \in Seq(StateIndex) /\ Len(work) \in Nat /\ nWork \in 0 .. Len(work) /\ nWork \in Nat
        /\ \A k \in 1 .. Len(work) : work[k] \in StateIndex
    BY <2>2, WorkIs
  <2>4. Len(work') = Len(work)
    BY <2>1, <2>3, SortedLength
  <2>5. Least(nWork, MaxParallel) \in 0 .. MaxParallel
    BY <2>3, ParallelAssumption DEF Least
  <2> QED BY <1>1, <2>1, <2>4, <2>5, BoundsMoved
<1>7. CASE ParAppend
  <2>1. phase' = "scan" /\ UNCHANGED <<work, nWork, nPar>> /\ answer' \in {"run", "true", "false"}
    BY <1>7 DEF ParAppend
  <2> QED BY <2>1, StatesTypedNext, BoundsSame
<1>8. CASE ScanKeep
  <2>1. UNCHANGED <<states, work, nWork, nPar>> /\ answer' \in {"run", "true", "false"}
    BY <1>8 DEF ScanKeep, HashVars, ScanFrom
  <2> QED BY <1>1, <2>1, BoundsSame
<1>9. CASE ScanReplace
  <2>1. /\ phase = "scan" /\ nWork > nPar /\ UNCHANGED <<states, nPar>> /\ answer' \in {"run", "true", "false"}
        /\ work' = [work EXCEPT ![i] = work[nextWork]] /\ nWork' = nWork - 1
    BY <1>9 DEF ScanReplace, HashVars, ScanFrom
  <2>2. Hashing /\ nPar \in 1 .. nWork
    BY <2>1, RoundIs
  <2>3. work \in Seq(StateIndex) /\ Len(work) \in Nat /\ nWork \in 0 .. Len(work) /\ nWork \in Nat
    BY <2>2, WorkIs
  <2>4. Len(work') = Len(work)
    BY <2>1, <2>3
  <2>5. nWork - 1 \in 0 .. Len(work)
    BY <2>2, <2>3
  <2> QED BY <1>1, <2>1, <2>4, <2>5, BoundsMoved
<1>10. CASE ScanShrink
  <2>1. /\ phase = "scan" /\ UNCHANGED states /\ answer' \in {"run", "true", "false"}
        /\ work' = [work EXCEPT ![i] = work[nPar]] /\ nPar' = nPar - 1 /\ nWork' = nWork - 1
    BY <1>10 DEF ScanShrink, HashVars, ScanFrom
  <2>2. Hashing /\ nPar \in 1 .. nWork
    BY <2>1, RoundIs
  <2>3. work \in Seq(StateIndex) /\ Len(work) \in Nat /\ nWork \in 0 .. Len(work) /\ nWork \in Nat
    BY <2>2, WorkIs
  <2>4. Len(work') = Len(work)
    BY <2>1, <2>3
  <2>5. nWork - 1 \in 0 .. Len(work) /\ nPar - 1 \in 0 .. MaxParallel
    BY <1>1, <2>2, <2>3, ParallelAssumption
  <2> QED BY <1>1, <2>1, <2>4, <2>5, BoundsMoved
<1> QED BY <1>2, <1>3, <1>4, <1>5, <1>6, <1>7, <1>8, <1>9, <1>10 DEF Next, Process

(* The buffers are never left full, and the loops of                       *)
(* SymCryptParallelHashProcess never index pWork outside of its entries.   *)
THEOREM ParallelTypeCorrect == Spec => []TypeOK
<1>1. Init => Bounds
  <2> SUFFICES ASSUME Init PROVE Bounds
    OBVIOUS
  <2>1. /\ states = [s \in StateIndex |-> WipedState] /\ work = <<>> /\ nWork = 0 /\ nPar = 0 /\ answer = "run"
    BY DEF Init
  <2>2. WipedState \in HashStates
    BY WipedHolds DEF Holds
  <2>3. Len(<<>>) = 0 /\ 0 <= NStates /\ 0 \in 0 .. 0 /\ 0 \in 0 .. MaxParallel
    BY ParallelAssumption
  <2> QED BY <2>1, <2>2, <2>3 DEF Bounds
<1>2. ParallelInv /\ ParallelInv' /\ Bounds /\ [Next]_vars => Bounds'
  BY BoundsKept
<1>3. ParallelInv /\ Bounds => TypeOK
  <2> SUFFICES ASSUME ParallelInv, Bounds PROVE TypeOK
    OBVIOUS
  <2>1. \A s \in StateIndex : states[s].bytesInBuffer \in 0 .. InputBlockSize - 1
    BY StateFields DEF Bounds
  <2>2. phase \in {"append", "scan"} => nextWork + (nWork - nPar) - 1 <= Len(work)
    BY RoundIs
  <2>3. nWork \in 0 .. NStates
    <3>1. Len(work) \in Nat /\ nWork \in 0 .. Len(work) /\ Len(work) <= NStates /\ NStates \in Nat
      BY ParallelAssumption DEF Bounds
    <3> QED BY <3>1
  <2> QED BY <2>1, <2>2, <2>3 DEF TypeOK, Bounds
<1> QED BY <1>1, <1>2, <1>3, ParallelInvariance, PTL DEF Spec
=============================================================================
