-------------------------------- MODULE Sae ----------------------------------
(***************************************************************************)
(* The key exchange of Wi-Fi stations from a password                      *)
(* (IEEE802_11SaeCustom.c), on the points of EcPoints.  Two stations with  *)
(* a MAC address each find the same point of the curve from the password,  *)
(* by hunting or by hashing to the curve, send each other a commit and     *)
(* compute a secret from the other's.  Commits may be lost, delivered      *)
(* twice, late, to their sender or not as they were sent.  The hashes are  *)
(* functions given as constants.                                           *)
(***************************************************************************)
EXTENDS EcPoints

CONSTANTS
  Stations,
  SaGroups,       \* g_ianaData: a number, a curve of prime order with p % 4 = 3, the
                  \* algorithm of its HMACs and minusZ, which is 10 for P256
  SaMacs,         \* the MAC addresses that the stations may have
  SaPasswords,
  SaHunt,         \* HMACs for [max, min, password, counter]: [value, odd]
  SaExpand,       \* for [algorithm, password] the two values that HKDF makes of it
  SaHmac,         \* the HMAC for [algorithm, max, min]
  SaMinCount,     \* 40: counters that are always tried
  SaCountRange,   \* 256: values of the counter, a byte
  SaGiven,        \* for each station, pairs of rand and mask that callers give
  SaForged,       \* commits that no station made
  SaMaxSessions   \* bound: initialisations of a station

SaAbsent == -1
SaNone == [status |-> "none"]

ASSUME SaAssumption ==
  /\ \A g \in SaGroups : g.curve.type = "sw" /\ g.curve.p % 4 = 3 /\ g.minusZ \in 1 .. g.curve.p - 1
  /\ SaCountRange \in Nat /\ SaMinCount \in 1 .. SaCountRange - 1
  /\ \E s, t \in Stations : s # t /\ Stations = {s, t}
  /\ SaMacs \subseteq [Stations -> Nat]
  /\ \A s \in Stations : \A g \in SaGiven[s] : g[1] >= SaAbsent /\ g[2] >= SaAbsent

VARIABLES
  saGroup,      \* the group of both stations
  saMac,        \* the MAC address of each station
  saMethod,     \* "hunt" or "hash": how the stations find their point
  saNode,       \* the state object of each station
  saNet,        \* the commits that were sent
  saOut,        \* what the last call for a commit gave
  saSessions    \* initialisations so far

saVars == <<saGroup, saMac, saMethod, saNode, saNet, saOut, saSessions>>

SaCurve == saGroup.curve
SaOrder == SaCurve.gOrd
SaP == SaCurve.p

(* SymCrypt802_11SaeCustomInit knows P256 alone, the group 19.             *)
SaeInit ==
  /\ saGroup \in SaGroups
  /\ saMac \in SaMacs
  /\ saMethod \in {"hunt", "hash"}
  /\ saMethod = "hunt" => saGroup.number = 19
  /\ saNode = [s \in Stations |-> SaNone]
  /\ saNet = {}
  /\ saOut = SaNone
  /\ saSessions = [s \in Stations |-> 0]
-----------------------------------------------------------------------------
(* SymCryptModSqrt gives a number in any case; it is a root or it is not.  *)
ModSqrt(v) == ModExp(v, (SaP + 1) \div 4, NumberBits(SaP) - 2, SaP)
IsRoot(y, v) == Fld(SaCurve, y * y) = v

Cubic(x) == Fld(SaCurve, Fld(SaCurve, x * x + SaCurve.a) * x + SaCurve.b)

(* y or -y, the one with the parity that is asked for.                     *)
WithParity(y, odd) == IF y % 2 = odd THEN y ELSE Fld(SaCurve, -y)

(* SymCryptSswu.                                                           *)
SswuFirst(m) ==
  LET z == Fld(SaCurve, -saGroup.minusZ)
      t == ModExp(m, SaP - 2, NumberBits(SaP), SaP)
  IN IF m = 0 THEN Fld(SaCurve, SaCurve.b * Inv(SaCurve, z * SaCurve.a))
     ELSE Fld(SaCurve, Fld(SaCurve, -(SaCurve.b * Inv(SaCurve, SaCurve.a))) * (1 + t))

Sswu(u) ==
  LET zuu == Fld(SaCurve, Fld(SaCurve, -saGroup.minusZ) * u * u)
      point(x) == EcpointSetValue(SaCurve, <<x, WithParity(ModSqrt(Cubic(x)), u % 2)>>)
      choose(x1) == point(IF IsRoot(ModSqrt(Cubic(x1)), Cubic(x1)) THEN x1 ELSE Fld(SaCurve, zuu * x1))
  IN choose(SswuFirst(Fld(SaCurve, zuu * (zuu + 1))))

(* SymCrypt802_11SaeCustomCreatePT: two points added, or Zero, which has   *)
(* no coordinates and is an error.                                         *)
Expanded(password) == SaExpand[saGroup.macAlgorithm, password]

CreatePT(password) ==
  EcpointGetValue(SaCurve,
    EcpointAdd(SaCurve, Sswu(Expanded(password)[1] % SaP), Sswu(Expanded(password)[2] % SaP), FALSE))

(* The addresses may come in either order.                                 *)
MacPair(mac1, mac2) ==
  IF mac1 > mac2 THEN [max |-> mac1, min |-> mac2] ELSE [max |-> mac2, min |-> mac1]
-----------------------------------------------------------------------------
(* Mutant: what was found already does not stop a later candidate.         *)
HuntKeepsLast(before, counter, h) ==
  IF h.value < SaP /\ IsRoot(ModSqrt(Cubic(h.value)), Cubic(h.value))
  THEN [pwe |-> EcpointSetValue(SaCurve, <<h.value, WithParity(ModSqrt(Cubic(h.value)), h.odd)>>),
        counter |-> counter]
  ELSE before

(* One counter of the loop in SymCrypt802_11SaeCustomInit: the masked copy *)
(* keeps the first candidate with a root.                                  *)
HuntStep(before, counter, h) ==
  IF /\ h.value < SaP
     /\ before.counter = 0
     /\ IsRoot(ModSqrt(Cubic(h.value)), Cubic(h.value))
  THEN [pwe |-> EcpointSetValue(SaCurve, <<h.value, WithParity(ModSqrt(Cubic(h.value)), h.odd)>>),
        counter |-> counter]
  ELSE before

(* The loop ends at SaMinCount counters or later, and in an error if the   *)
(* counter wraps.  The counter is 0 while there is no candidate.           *)
Hunt(password, macs) ==
  LET after[k \in 0 .. SaCountRange - 1] ==
        IF k = 0 THEN [pwe |-> EcpointSetZero(SaCurve), counter |-> 0]
        ELSE LET before == after[k - 1]
             IN IF before.counter # 0 /\ k > SaMinCount THEN before
                ELSE HuntStep(before, k, SaHunt[macs.max, macs.min, password, k])
  IN after[SaCountRange - 1]

HmacOf(macs) == SaHmac[saGroup.macAlgorithm, macs.max, macs.min]

(* Mutant: the HMAC is reduced by the order itself.                        *)
HashedScalarOfOrder(macs) == ((HmacOf(macs) % SaOrder) + 1) % SaOrder

(* SymCrypt802_11SaeCustomInitH2EGeneric: the sum with 1, too, is modulo   *)
(* the order less 1.                                                       *)
HashedScalar(macs) == ((HmacOf(macs) % (SaOrder - 1)) + 1) % (SaOrder - 1)

HashedElement(PT, macs) ==
  [pwe |-> EcpointScalarMul(SaCurve, HashedScalar(macs), EcpointSetValue(SaCurve, PT), FALSE), counter |-> 0]

(* SymCrypt802_11SaeCustomSetRandMask: a value of the caller's or, if that *)
(* is none or zero, a random one.                                          *)
RandOrMask(given) ==
  IF given # SaAbsent /\ given % SaOrder # 0 THEN {given % SaOrder} ELSE 2 .. SaOrder - 1

Up(password, found, rand, mask) ==
  [status |-> "up", password |-> password, pwe |-> found.pwe, counter |-> found.counter, rand |-> rand, mask |-> mask]

MayStart(s) == saNode[s].status # "up" /\ saSessions[s] < SaMaxSessions

SaeCustomInit(s) ==
  /\ saMethod = "hunt" /\ MayStart(s)
  /\ \E password \in SaPasswords, other \in Stations \ {s} :
       \E found \in {Hunt(password, MacPair(saMac[s], saMac[other]))} :
         \/ /\ found.counter = 0
            /\ saNode' = [saNode EXCEPT ![s] = [status |-> "failed"]]
         \/ /\ found.counter # 0
            /\ \E given \in SaGiven[s] : \E rand \in RandOrMask(given[1]), mask \in RandOrMask(given[2]) :
                 saNode' = [saNode EXCEPT ![s] = Up(password, found, rand, mask)]
  /\ saSessions' = [saSessions EXCEPT ![s] = @ + 1]
  /\ UNCHANGED <<saGroup, saMac, saMethod, saNet, saOut>>

(* With a point of CreatePT, which the caller may have kept.               *)
SaeCustomInitH2E(s) ==
  /\ saMethod = "hash" /\ MayStart(s)
  /\ \E password \in SaPasswords, other \in Stations \ {s} : \E PT \in {CreatePT(password)} \ {Zero} :
       \E found \in {HashedElement(PT, MacPair(saMac[s], saMac[other]))}, given \in SaGiven[s] :
         \E rand \in RandOrMask(given[1]), mask \in RandOrMask(given[2]) :
           saNode' = [saNode EXCEPT ![s] = Up(password, found, rand, mask)]
  /\ saSessions' = [saSessions EXCEPT ![s] = @ + 1]
  /\ UNCHANGED <<saGroup, saMac, saMethod, saNet, saOut>>

(* SymCrypt802_11SaeCustomDestroy                                          *)
SaeCustomDestroy(s) ==
  /\ saNode[s].status = "up"
  /\ saNode' = [saNode EXCEPT ![s] = SaNone]
  /\ UNCHANGED <<saGroup, saMac, saMethod, saNet, saOut, saSessions>>
-----------------------------------------------------------------------------
(* Mutant: the element is not negated.                                     *)
CommitElementPositive(node) ==
  EcpointGetValue(SaCurve, EcpointScalarMul(SaCurve, node.mask, node.pwe, FALSE))

CommitElement(node) ==
  EcpointGetValue(SaCurve, EcpointNegate(SaCurve, EcpointScalarMul(SaCurve, node.mask, node.pwe, FALSE)))

(* SymCrypt802_11SaeCustomCommitCreateGeneric.  by is not in the code: the *)
(* state that made the commit.  A multiple that is Zero is an error.       *)
SaeCustomCommitCreate(s) ==
  /\ saNode[s].status = "up"
  /\ \E element \in {CommitElement(saNode[s])} :
       /\ element # Zero
       /\ saNet' = saNet \cup
            {[scalar |-> (saNode[s].rand + saNode[s].mask) % SaOrder, element |-> element, by |-> saNode[s]]}
  /\ UNCHANGED <<saGroup, saMac, saMethod, saNode, saOut, saSessions>>

(* SymCrypt802_11SaeCustomCommitProcessGeneric.  for and at are not in the *)
(* code: the commit and the state that the result is of.                   *)
CommitRefused(c) ==
  \/ c.scalar \notin 2 .. SaOrder - 1
  \/ c.element[1] >= SaP \/ c.element[2] >= SaP
  \/ ~EcpointOnCurve(SaCurve, EcpointSetValue(SaCurve, c.element))

SharedPoint(node, c) ==
  EcpointGetValue(SaCurve,
    EcpointScalarMul(SaCurve, node.rand,
      EcpointAdd(SaCurve, EcpointScalarMul(SaCurve, c.scalar, node.pwe, FALSE),
                 EcpointSetValue(SaCurve, c.element), FALSE), FALSE))

CommitResult(node, c) ==
  IF CommitRefused(c) THEN [status |-> "INVALID_ARGUMENT", for |-> c, at |-> node]
  ELSE LET with(point) ==
             IF point = Zero THEN [status |-> "INCOMPATIBLE_FORMAT", for |-> c, at |-> node]
             ELSE [status |-> "NO_ERROR", for |-> c, at |-> node, secret |-> point[1],
                   sum |-> (c.scalar + node.rand + node.mask) % SaOrder]
       IN with(SharedPoint(node, c))

SaeCustomCommitProcess(s) ==
  /\ saNode[s].status = "up"
  /\ \E c \in saNet \cup SaForged : saOut' = CommitResult(saNode[s], c)
  /\ UNCHANGED <<saGroup, saMac, saMethod, saNode, saNet, saSessions>>

SaeNext ==
  \E s \in Stations :
    \/ SaeCustomInit(s) \/ SaeCustomInitH2E(s) \/ SaeCustomDestroy(s)
    \/ SaeCustomCommitCreate(s) \/ SaeCustomCommitProcess(s)

SaeSpec == SaeInit /\ [][SaeNext]_saVars
-----------------------------------------------------------------------------
(* The square roots that a number has.                                     *)
RootsOf(v) == {y \in 0 .. SaP - 1 : IsRoot(y, v)}

(* The point of 12.4.4.2.3 for u: a fraction of the coefficients, or its   *)
(* multiple by z * u^2 when the first is no coordinate of the curve.       *)
SswuReference(u) ==
  LET z == Fld(SaCurve, -saGroup.minusZ)
      m == Fld(SaCurve, Fld(SaCurve, z * z * u * u) * u * u + z * u * u)
      firsts == {x \in 0 .. SaP - 1 :
                   IF m = 0 THEN Fld(SaCurve, z * SaCurve.a * x - SaCurve.b) = 0
                   ELSE Fld(SaCurve, Fld(SaCurve, m * SaCurve.a * x) + SaCurve.b * (m + 1)) = 0}
      xs == {x \in firsts : RootsOf(Cubic(x)) # {}}
  IN IF xs # {} THEN {<<x, y>> \in xs \X (0 .. SaP - 1) : IsRoot(y, Cubic(x)) /\ y % 2 = u % 2}
     ELSE {<<Fld(SaCurve, z * u * u * x), y>> : x \in firsts, y \in {w \in 0 .. SaP - 1 : w % 2 = u % 2}}

(* The addresses of the two stations in their order.                       *)
StationMacs ==
  {[max |-> saMac[p[1]], min |-> saMac[p[2]]] : p \in {q \in Stations \X Stations : saMac[q[1]] > saMac[q[2]]}}

(* A station that hunted has, whichever of the addresses is its own, the   *)
(* first number below p that is a coordinate, with the root of the hash's  *)
(* parity, whatever the counters after it give, and reports the counter at *)
(* which it was found.                                                     *)
SaeHuntedPoint ==
  \A s \in Stations, macs \in StationMacs : (saNode[s].status = "up" /\ saMethod = "hunt") =>
    LET node == saNode[s]
        hunted(k) == SaHunt[macs.max, macs.min, node.password, k]
        good(k) == hunted(k).value < SaP /\ RootsOf(Cubic(hunted(k).value)) # {}
        h == hunted(node.counter)
        P == EcpointGetValue(SaCurve, node.pwe)
    IN /\ good(node.counter) /\ \A k \in 1 .. node.counter - 1 : ~good(k)
       /\ P[1] = h.value /\ P[2] \in RootsOf(Cubic(h.value)) /\ P[2] % 2 = h.odd

(* The scalar of 12.4.4.3.3, which the code names too: the HMAC modulo the *)
(* order less 1, plus 1.  It is never zero.                                *)
ScalarReference(macs) == (HmacOf(macs) % (SaOrder - 1)) + 1

(* A station that hashed to the curve has the multiple, by the reference   *)
(* scalar, of the sum of two points of the curve, each with the parity of  *)
(* its hash.  One scalar is the exception: the code adds modulo the order  *)
(* less 1, so that it has 0 for that number itself, and the point Zero, of *)
(* which no commit is made.                                                *)
SaeHashedPoint ==
  \A s \in Stations, macs \in StationMacs : (saNode[s].status = "up" /\ saMethod = "hash") =>
    LET u == Expanded(saNode[s].password)
        pwe == EcpointGetValue(SaCurve, saNode[s].pwe)
    IN IF ScalarReference(macs) = SaOrder - 1 THEN pwe = Zero
       ELSE \E P1 \in SswuReference(u[1] % SaP), P2 \in SswuReference(u[2] % SaP) :
              /\ {P1, P2} \subseteq EcPointsOf(SaCurve)
              /\ pwe = EcRefMul(SaCurve, ScalarReference(macs), RefAdd(SaCurve, P1, P2, 1))

(* A station computes from a commit that was made with the same point what *)
(* the sender computes from its own: the point multiplied by both random   *)
(* numbers, and the sum of all four.  That holds for commits delivered     *)
(* twice, late, back to the sender or after the sender is gone, and        *)
(* commits are refused exactly if their scalar or element is out of its    *)
(* range or no secret follows from them.                                   *)
SaeAgreement ==
  saOut.status # "none" =>
    \A pwe \in {EcpointGetValue(SaCurve, saOut.at.pwe)} :
      LET c == saOut.for
          mine == saOut.at
          shared == RefAdd(SaCurve, EcRefMul(SaCurve, c.scalar, pwe), c.element, 1)
      IN /\ (saOut.status = "INVALID_ARGUMENT") <=>
              (c.scalar \notin 2 .. SaOrder - 1 \/ c.element \notin EcPointsOf(SaCurve))
         /\ (saOut.status = "INCOMPATIBLE_FORMAT") => shared = Zero
         /\ (saOut.status = "NO_ERROR" /\ c.by.status = "up") =>
              (c.by.pwe = mine.pwe =>
                 /\ saOut.secret = EcRefMul(SaCurve, (mine.rand * c.by.rand) % SaOrder, pwe)[1]
                 /\ saOut.sum = (mine.rand + mine.mask + c.by.rand + c.by.mask) % SaOrder)
=============================================================================
