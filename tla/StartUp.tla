-------------------------------- MODULE StartUp --------------------------------
(***************************************************************************)
(* The start of the Linux module (modules_linux/common/module.c) and the   *)
(* self-tests that the key functions run on demand: the macros             *)
(* SYMCRYPT_RUN_SELFTEST_ONCE and SYMCRYPT_RUN_KEYGEN_PCT of lib/sc_lib.h, *)
(* the tests of lib/fips_selftest.c, and one word of flags that all        *)
(* threads share.                                                          *)
(*                                                                         *)
(* What a test computes is the subject of DlKeys, EcKeys and RsaKeys.      *)
(* Here an algorithm works or is faulty, and so is a generated pair; a     *)
(* test that meets a fault ends the process by SymCryptFatal.  The keys    *)
(* that the tests make for themselves are imported or generated with flags *)
(* 0 and so run no tests in turn.                                          *)
(***************************************************************************)
EXTENDS Naturals, Sequences

CONSTANTS
  StThreads,
  StKinds      \* kinds of keys the callers use, of {"dl", "ec", "rsa"}

ASSUME StAssumption == StKinds \subseteq {"dl", "ec", "rsa"}

VARIABLES
  stMain,       \* what SymCryptModuleMain has still to do
  stFatal,      \* SymCryptFatal was called
  stFaulty,     \* the algorithms that do not work in this process
  stPerformed,  \* g_SymCryptFipsSelftestsPerformed
  stCall        \* the call each thread is in

stVars == <<stMain, stFatal, stFaulty, stPerformed, stCall>>

(* The tests that a kind of key can be used with ...                       *)
TestSet(kind) ==
  CASE kind = "dl" -> {"dsa", "dh"}
    [] kind = "ec" -> {"ecdsa", "ecdh"}
    [] kind = "rsa" -> {"rsa"}

(* ... and those that the flags of a call ask for, in the order in which   *)
(* the functions of the key look at the flags.                             *)
TestsAsked(kind, asked) ==
  LET When(test) == IF test \in asked THEN <<test>> ELSE <<>>
  IN  CASE kind = "dl" -> When("dsa") \o When("dh")
        [] kind = "ec" -> When("ecdsa") \o When("ecdh")
        [] kind = "rsa" -> When("rsa")

OnDemand == UNION {TestSet(kind) : kind \in StKinds}

(* The steps of SymCryptModuleMain, with and without the FIPS self-tests.  *)
MainSteps(doFips) ==
  IF doFips
  THEN <<"init", "hmacSha256", "integrity", "drbg", "rng", "others", "startup">>
  ELSE <<"init", "rng">>

StIdle == [at |-> "idle"]

StInit ==
  /\ \E doFips \in BOOLEAN : stMain = MainSteps(doFips)
  /\ stFatal = FALSE
  /\ stFaulty \in SUBSET (OnDemand \cup {"hmacSha256", "drbg"})
  /\ stPerformed = {}
  /\ stCall = [t \in StThreads |-> StIdle]

(* One step of the constructor.  A test that fails is fatal; no call is    *)
(* made before the constructor has returned.                               *)
MainStep ==
  /\ stMain # <<>> /\ ~stFatal
  /\ stMain' = Tail(stMain)
  /\ stFatal' = (Head(stMain) \in stFaulty)
  /\ stPerformed' = stPerformed \cup ({"startup"} \cap {Head(stMain)})
  /\ UNCHANGED <<stFaulty, stCall>>

CanRun(t, at) == stMain = <<>> /\ ~stFatal /\ stCall[t].at = at

(* The key is made and valid, by import or by generation, and the tests    *)
(* that the caller's flags ask for are next.  Generation can come out with *)
(* halves that do not belong together (good is FALSE).                     *)
MakeKey(t, kind, asked, made, good) ==
  /\ CanRun(t, "idle")
  /\ made = "import" => good
  /\ stCall' = [stCall EXCEPT ![t] =
       [at |-> "next", made |-> made, good |-> good, asked |-> asked, todo |-> TestsAsked(kind, asked)]]
  /\ UNCHANGED <<stMain, stFatal, stFaulty, stPerformed>>

(* Mutant: the flag is set when it is looked at, ahead of the test.        *)
CheckFlagClaims(t) ==
  /\ CanRun(t, "next") /\ stCall[t].todo # <<>> /\ stCall[t].made = "import"
  /\ LET test == Head(stCall[t].todo)
     IN  /\ stCall' = IF test \in stPerformed
                      THEN [stCall EXCEPT ![t].todo = Tail(@)]
                      ELSE [stCall EXCEPT ![t].at = "test"]
         /\ stPerformed' = stPerformed \cup {test}
  /\ UNCHANGED <<stMain, stFatal, stFaulty>>

(* SYMCRYPT_RUN_SELFTEST_ONCE looks at the flag.                           *)
CheckFlag(t) ==
  /\ CanRun(t, "next") /\ stCall[t].todo # <<>> /\ stCall[t].made = "import"
  /\ stCall' = IF Head(stCall[t].todo) \in stPerformed
               THEN [stCall EXCEPT ![t].todo = Tail(@)]
               ELSE [stCall EXCEPT ![t].at = "test"]
  /\ UNCHANGED <<stMain, stFatal, stFaulty, stPerformed>>

(* SYMCRYPT_RUN_KEYGEN_PCT does not look at it.                            *)
StartPct(t) ==
  /\ CanRun(t, "next") /\ stCall[t].todo # <<>> /\ stCall[t].made = "generate"
  /\ stCall' = [stCall EXCEPT ![t].at = "test"]
  /\ UNCHANGED <<stMain, stFatal, stFaulty, stPerformed>>

(* The test: on a key of its own for an import, on the new key for a       *)
(* generation.                                                             *)
RunTest(t) ==
  /\ CanRun(t, "test")
  /\ stFatal' = (Head(stCall[t].todo) \in stFaulty \/ ~stCall[t].good)
  /\ stCall' = [stCall EXCEPT ![t].at = "flag"]
  /\ UNCHANGED <<stMain, stFaulty, stPerformed>>

(* The atomic OR that follows the test in both macros.                     *)
SetFlag(t) ==
  /\ CanRun(t, "flag")
  /\ stPerformed' = stPerformed \cup {Head(stCall[t].todo)}
  /\ stCall' = [stCall EXCEPT ![t].at = "next", ![t].todo = Tail(@)]
  /\ UNCHANGED <<stMain, stFatal, stFaulty>>

(* The function returns the key.                                           *)
ReturnKey(t) ==
  /\ CanRun(t, "next") /\ stCall[t].todo = <<>>
  /\ stCall' = [stCall EXCEPT ![t].at = "has key"]
  /\ UNCHANGED <<stMain, stFatal, stFaulty, stPerformed>>

(* The caller frees it.                                                    *)
FreeKey(t) ==
  /\ CanRun(t, "has key")
  /\ stCall' = [stCall EXCEPT ![t] = StIdle]
  /\ UNCHANGED <<stMain, stFatal, stFaulty, stPerformed>>

StNext ==
  \/ MainStep
  \/ \E t \in StThreads :
       \/ \E kind \in StKinds, made \in {"import", "generate"}, good \in BOOLEAN :
            \E asked \in SUBSET TestSet(kind) : MakeKey(t, kind, asked, made, good)
       \/ CheckFlag(t) \/ StartPct(t) \/ RunTest(t) \/ SetFlag(t)
       \/ ReturnKey(t) \/ FreeKey(t)

StSpec == StInit /\ [][StNext]_stVars

-----------------------------------------------------------------------------
(* A key that a function has returned was tested as its caller asked: none *)
(* of the algorithms asked for is faulty, a generated pair belongs         *)
(* together, and whoever ran the test of an algorithm, no thread gets a    *)
(* key on the strength of a test that has not ended yet (SELFTEST_ONCE     *)
(* reads a flag that another thread sets without any lock).                *)
KeysAreTested ==
  \A t \in StThreads :
    (stCall[t].at = "has key" /\ ~stFatal) =>
      /\ stCall[t].asked \cap stFaulty = {}
      /\ stCall[t].asked # {} => stCall[t].good
-----------------------------------------------------------------------------
StCalls == [at : {"next", "test", "flag", "has key"}, made : {"import", "generate"}, good : BOOLEAN,
            asked : SUBSET OnDemand, todo : Seq(OnDemand)]

(* The types of the start and of the calls.                                *)
StTypeOK ==
  /\ stFatal \in BOOLEAN
  /\ stCall \in [StThreads -> StCalls \cup {StIdle}]

(* The inductive invariant behind KeysAreTested.  While the process lives, *)
(* no flag is set for an algorithm that is faulty, ...                     *)
FlagLaw == stPerformed \cap stFaulty = {}

(* ... and every test a call was asked for and has no more to do was       *)
(* passed, by the call or by another one before it.                        *)
Pending(call) == {call.todo[i] : i \in 1 .. Len(call.todo)}

TestedLaw(call) ==
  /\ (call.asked \ Pending(call)) \cap stFaulty = {}
  /\ (call.made = "import" \/ call.asked \ Pending(call) # {}) => call.good
  /\ call.at \in {"test", "flag"} => call.todo # <<>>
  /\ call.at = "flag" => Head(call.todo) \notin stFaulty /\ call.good
  /\ call.at = "has key" => call.todo = <<>>

StInv ==
  /\ StTypeOK
  /\ ~stFatal => FlagLaw /\ \A t \in StThreads : stCall[t] # StIdle => TestedLaw(stCall[t])
=============================================================================
