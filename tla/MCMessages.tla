----------------------------- MODULE MCMessages ------------------------------
(***************************************************************************)
(* The objects that take a message in parts, on small blocks, counters and *)
(* lengths: hashes, HMAC, CMAC and Marvin32, authenticated encryption and  *)
(* the cipher modes.  A behaviour is one of a single kind of object.       *)
(***************************************************************************)
EXTENDS HmacState, MacState, CipherModes, AeadState, TLC

VARIABLE part

Symmetry == Permutations(Objects)

MCMessagesInit ==
  /\ part \in {"hash", "hmac", "mac", "mode", "aead"}
  /\ ObjectInit /\ HmacInit /\ MacInit /\ ModesInit /\ Init
  /\ (part # "mac") => macAlg = "cmac"
  /\ (part # "mode") => mode = "ecb"
  /\ (part # "mode" \/ mode # "xts") => \A t \in FirstTweaks : first <= t
  /\ (part # "aead") => alg = "gcm"

MCMessagesNext ==
  /\ UNCHANGED part
  /\ \/ part = "hash" /\ ObjectNext /\ UNCHANGED <<hmacVars, macVars, modeVars, vars>>
     \/ part = "hmac" /\ HmacNext /\ UNCHANGED <<objectVars, macVars, modeVars, vars>>
     \/ part = "mac" /\ MacNext /\ UNCHANGED <<objectVars, hmacVars, modeVars, vars>>
     \/ part = "mode" /\ ModesNext /\ UNCHANGED <<objectVars, hmacVars, macVars, vars>>
     \/ part = "aead" /\ Next /\ UNCHANGED <<objectVars, hmacVars, macVars, modeVars>>

MCMessagesSpec ==
  MCMessagesInit /\ [][MCMessagesNext]_<<part, objectVars, hmacVars, macVars, modeVars, vars>>
-----------------------------------------------------------------------------
(* The result of a MAC state is at any time that of the standard for the   *)
(* message since the state was last started, be it HMAC, CMAC or Marvin32. *)
MacsAreReference == HmacIsReference /\ MacIsReference
=============================================================================
