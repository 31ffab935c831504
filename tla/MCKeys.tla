------------------------------- MODULE MCKeys --------------------------------
(***************************************************************************)
(* Small groups, curves, keys and imports for the models of key objects.   *)
(* A behaviour is one of an object of one kind.                            *)
(***************************************************************************)
EXTENDS DlKeys, DlGroup, EcKeys, RsaKeys, Sae

VARIABLE object

Bytes(v, cb) == [v |-> v, cb |-> cb]
-----------------------------------------------------------------------------
(* Discrete logarithms.                                                    *)
SafePrime(p, gen, min, default) ==
  [p |-> p, q |-> (p - 1) \div 2, g |-> gen, bitsP |-> NumberBits(p), bitsQ |-> NumberBits(p) - 1,
   hasQ |-> TRUE, safe |-> TRUE, minBits |-> min, defaultBits |-> default]

OtherGroup(p, q, gen) ==
  [p |-> p, q |-> q, g |-> gen, bitsP |-> NumberBits(p), bitsQ |-> NumberBits(q),
   hasQ |-> q # 0, safe |-> FALSE, minBits |-> 0, defaultBits |-> NumberBits(q)]

MCDlGroups == {SafePrime(23, 2, 2, 3), SafePrime(11, 4, 2, 2), OtherGroup(31, 5, 2), OtherGroup(23, 0, 5)}

MCDlPrivates == {Bytes(0, 1), Bytes(1, 1), Bytes(6, 2), Bytes(7, 3),
                 Bytes(70, 4), Bytes(300, 5)}
MCDlPublics == {Bytes(1, 1), Bytes(4, 2), Bytes(22, 3), Bytes(33, 3)}
MCDlHashes == {Bytes(0, 2), Bytes(13, 2)}

HashAlg(x, y, z) == [a |-> x, b |-> y, c |-> z]
MCHashAlgs == {HashAlg(1, 3, 5), HashAlg(2, 7, 1)}
MCSha1 == HashAlg(1, 3, 5)
MCNamed == {[p |-> 23, minBits |-> 2, defaultBits |-> 3], [p |-> 47, minBits |-> 2, defaultBits |-> 4]}

AnImport ==
  [p |-> 31, q |-> 5, g |-> 2, hash |-> HashAlg(2, 7, 1), seed |-> Bytes(1, 2), counter |-> 0,
   fips |-> "none"]

MCImports ==
  {[AnImport EXCEPT !.p = p, !.q = q, !.g = g, !.fips = f] :
     p \in {23, 31, 67}, q \in {0, 5, 11}, g \in {0, 2}, f \in {"none", "186-3"}}
  \cup {[AnImport EXCEPT !.q = q] : q \in {6, 3, 23}}
  \cup {[AnImport EXCEPT !.p = p] : p \in {30, 7, 287}}
  \cup {[AnImport EXCEPT !.hash = h, !.fips = f, !.counter = c, !.seed = Bytes(s, 2)] :
          h \in {NoHash, HashAlg(2, 7, 1)}, f \in {"186-2", "186-3"}, c \in {0, 1, 20}, s \in {1, 4}}
  \cup {[AnImport EXCEPT !.hash = NoHash, !.g = n[1], !.p = n[2], !.q = q, !.seed = s] :
          n \in {<<0, 31>>, <<2, 23>>, <<2, 31>>}, q \in {0, 5}, s \in {NoSeed, Bytes(1, 1)}}

-----------------------------------------------------------------------------
(* Elliptic curves.                                                        *)
Curve(type, p, a, b, n, coFactorPower) ==
  [type |-> type, p |-> p, a |-> a, b |-> b, g |-> <<>>, gOrd |-> n, coFactorPower |-> coFactorPower,
   format |-> "canonical", cb |-> 2, hbBits |-> 0, hbPos |-> 0, hbVal |-> 0]

WithGenerator(c) ==
  LET points == IF c.type = "mont" THEN {<<x, 0>> : x \in 1 .. c.p - 1} ELSE EcPointsOf(c)
  IN [c EXCEPT !.g = CHOOSE P \in points : P # RefZero(c) /\ EcRefMul(c, c.gOrd, P) = RefZero(c)]

Weierstrass13 == [WithGenerator(Curve("sw", 13, 10, 1, 19, 0)) EXCEPT !.cb = 3]
Weierstrass23 == [WithGenerator(Curve("sw", 23, 20, 15, 17, 0)) EXCEPT !.cb = 3]
Edwards19 == [WithGenerator(Curve("te", 19, 1, 8, 7, 2)) EXCEPT !.format = "divh"]
Edwards13 == WithGenerator(Curve("te", 13, 1, 7, 5, 2))
Montgomery37 ==
  [WithGenerator(Curve("mont", 37, 6, 1, 5, 3))
     EXCEPT !.format = "timesh", !.cb = 3, !.hbBits = 2, !.hbPos = 4, !.hbVal = 1]

PointCurves == {Weierstrass13, Weierstrass23, Edwards19, Montgomery37}
KeyCurves == {Weierstrass13, Edwards19, Edwards13, Montgomery37}
MCCurves == PointCurves \cup KeyCurves

(* Zero, values in and out of the range, and for Montgomery37 values with  *)
(* the wrong high bits or not a multiple of the cofactor.                  *)
MCPrivates ==
  [c \in MCCurves |->
     CASE c.type = "sw" -> {0, 1, 5, 18, 19, 45}
       [] c.type = "te" -> {0, 1, c.gOrd - 1, c.gOrd, c.gOrd + 2}
       [] c.type = "mont" -> {0, 16, 17, 24, 40}]

(* A point of order two and one whose order is a multiple of the right one. *)
OtherOrders(c) ==
  {CHOOSE P \in EcPointsOf(c) :
     /\ P # RefZero(c) /\ EcRefMul(c, c.gOrd, P) # RefZero(c)
     /\ (EcRefMul(c, 2, P) = RefZero(c)) = two : two \in BOOLEAN}

(* Points of the right and of other orders, zero where it has coordinates, *)
(* a point off the curve and one out of the field.                         *)
MCPublics ==
  [c \in MCCurves |->
     LET multiples == {EcRefMul(c, n, c.g) : n \in {1, 2, 4}}
     IN CASE c.type = "sw" -> multiples \cup {<<2, 2>>, <<1, c.p>>}
          [] c.type = "te" -> multiples \cup OtherOrders(c) \cup {RefZero(c), <<2, 2>>, <<1, c.p>>}
          [] c.type = "mont" -> {<<x, 0>> : x \in (1 .. 8) \cup {c.g[1], c.p - 1, c.p}}]

MCEkHashes == {Bytes(0, 1), Bytes(57, 3), Bytes(230, 4)}

-----------------------------------------------------------------------------
(* RSA.                                                                    *)
RsImport(n, e, p, q) == [n |-> n, e |-> e, p |-> p, q |-> q]
(* Keys that belong together, a public exponent of 1, public keys alone,   *)
(* primes of another modulus, equal primes, a composite prime, and primes  *)
(* that are even, short or too long together.                              *)
MCRsImports ==
  {RsImport(77, 7, 7, 11), RsImport(77, 1, 11, 7), RsImport(5141, 5, 53, 97)}
    \cup {RsImport(n, 7, 0, 0) : n \in {5, 98, 70000}}
    \cup {RsImport(91, 5, 7, 11), RsImport(49, 5, 7, 7), RsImport(105, 11, 15, 7)}
    \cup {RsImport(77, 7, 7, 12), RsImport(77, 7, 3, 11), RsImport(98, 7, 1009, 1013)}
-----------------------------------------------------------------------------
(* Passwords of two stations.  One is found at once, one at a later try,   *)
(* past numbers that are too large or no coordinates, and one never; its   *)
(* two hashes are opposite and make no point.  The HMACs are above the     *)
(* order, or, for the addresses 12 and 4 in group 19, the one whose scalar *)
(* is the order less 1.                                                    *)
Weierstrass19 == WithGenerator(Curve("sw", 19, 16, 9, 19, 0))
Group(number, macAlgorithm, curve) ==
  [number |-> number, macAlgorithm |-> macAlgorithm, curve |-> curve, minusZ |-> 9]
MCGroups == {Group(19, "HmacSha256", Weierstrass23), Group(20, "HmacSha384", Weierstrass19)}
MCStations == {"A", "B"}
MCMac == [A |-> 9, B |-> 4]
MCMacs == {MCMac, [A |-> 4, B |-> 12]}
HuntValues ==
  [first |-> <<1, 6, 0, 9, 11>>, later |-> <<2, 25, 3, 14, 6>>,
   never |-> <<0, 27, 3, 4, 31>>]
MCHunt ==
  [max \in {9, 12}, min \in {4}, password \in {"first", "later", "never"}, counter \in 1 .. 5 |->
     [value |-> HuntValues[password][counter], odd |-> counter % 2]]
HashValues ==
  [HmacSha256 |-> [first |-> <<26, 9>>, later |-> <<23, 7>>, never |-> <<4, 19>>],
   HmacSha384 |-> [first |-> <<25, 4>>, later |-> <<19, 7>>, never |-> <<3, 16>>]]
MCExpand ==
  [alg \in {"HmacSha256", "HmacSha384"}, password \in {"first", "later", "never"} |->
     HashValues[alg][password]]
MCHmac ==
  [alg \in {"HmacSha256", "HmacSha384"}, max \in {9, 12}, min \in {4} |->
     IF alg = "HmacSha384" THEN 27 ELSE IF max = 9 THEN 30 ELSE 15]
MCGiven == [A |-> {<<0, 3>>, <<5, 12>>}, B |-> {<<22, 9>>}]
Forged(scalar, element) == [scalar |-> scalar, element |-> element, by |-> SaNone]
MCForged ==
  {Forged(n, Weierstrass23.g) : n \in {1, 17}}
    \cup {Forged(2, e) : e \in {<<2, 2>>, <<Weierstrass23.g[1] + 23, Weierstrass23.g[2]>>}}
-----------------------------------------------------------------------------
MCKeysInit ==
  /\ object \in {"dlkey", "dlgroup", "ecpoint", "eckey", "rsakey", "sae"}
  /\ DlInit /\ DgInit /\ EcInit /\ EkInit /\ RsInit /\ SaeInit
  /\ (object # "dlkey") => dlGroup = SafePrime(11, 4, 2, 2)
  /\ IF object = "ecpoint" THEN ecCurve \in PointCurves ELSE ecCurve = Montgomery37
  /\ IF object = "eckey" THEN ekCurve \in KeyCurves ELSE ekCurve = Edwards13
  /\ (object # "rsakey") => rsKey = RsakeyCreate(13)
  /\ (object # "sae") => saMethod = "hunt"
  /\ (saMethod = "hunt") => saMac = MCMac
  /\ (saGroup.number = 20) => saMac # MCMac

MCKeysNext ==
  /\ UNCHANGED object
  /\ \/ object = "dlkey" /\ DlNext /\ UNCHANGED <<dgVars, ecVars, ekVars, rsVars, saVars>>
     \/ object = "dlgroup" /\ DgNext /\ UNCHANGED <<dlVars, ecVars, ekVars, rsVars, saVars>>
     \/ object = "ecpoint" /\ EcNext /\ UNCHANGED <<dlVars, dgVars, ekVars, rsVars, saVars>>
     \/ object = "eckey" /\ EkNext /\ UNCHANGED <<dlVars, dgVars, ecVars, rsVars, saVars>>
     \/ object = "rsakey" /\ RsNext /\ UNCHANGED <<dlVars, dgVars, ecVars, ekVars, saVars>>
     \/ object = "sae" /\ SaeNext /\ UNCHANGED <<dlVars, dgVars, ecVars, ekVars, rsVars>>

MCKeysSpec == MCKeysInit /\ [][MCKeysNext]_<<object, dlVars, dgVars, ecVars, ekVars, rsVars, saVars>>
=============================================================================
