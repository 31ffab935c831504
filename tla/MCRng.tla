------------------------------- MODULE MCRng ---------------------------------
(***************************************************************************)
(* The models of what must never come twice, on small instances: the       *)
(* nonces of an encrypting session, the blocks and bytes of the random     *)
(* number generators, and the start of the module that owns one.  A        *)
(* behaviour is one of the session, the block function, the DRBG, the      *)
(* module's generator or the self-tests: the parts that are not modelled   *)
(* in it stay in one initial state.                                        *)
(***************************************************************************)
EXTENDS SessionSender, DrbgBlocks, AesCtrDrbg, ModuleRng, StartUp

VARIABLE part

MCRngInit ==
  /\ part \in {"sender", "blocks", "drbg", "module", "start"}
  /\ Init /\ BlocksInit /\ DrbgInit /\ ModuleInit /\ StInit
  /\ (part # "sender") => senderId = CHOOSE id \in SenderIds : TRUE
  /\ (part # "blocks") => high = 0 /\ low = 0 /\ cBlocks = 0
  /\ (part # "start") => stFaulty = {} /\ stMain = MainSteps(FALSE)

MCRngNext ==
  /\ UNCHANGED part
  /\ \/ part = "sender" /\ Next /\ UNCHANGED <<blocksVars, drbgVars, rngVars, stVars>>
     \/ part = "blocks" /\ BlocksNext /\ UNCHANGED <<vars, drbgVars, rngVars, stVars>>
     \/ part = "drbg" /\ DrbgNext /\ UNCHANGED <<vars, blocksVars, rngVars, stVars>>
     \/ part = "module" /\ ModuleNext /\ UNCHANGED <<vars, blocksVars, drbgVars, stVars>>
     \/ part = "start" /\ StNext /\ UNCHANGED <<vars, blocksVars, drbgVars, rngVars>>

MCRngSpec ==
  /\ MCRngInit /\ [][MCRngNext]_<<part, vars, blocksVars, drbgVars, rngVars, stVars>>
  /\ \A t \in Threads :
       WF_rngVars(/\ part = "module" /\ Locked(t)
                  /\ UNCHANGED <<part, vars, blocksVars, drbgVars, stVars>>)
=============================================================================
