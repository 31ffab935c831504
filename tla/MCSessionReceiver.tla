-------------------------- MODULE MCSessionReceiver --------------------------
(* Small instances of SessionReceiver for TLC: a window of two numbers, a   *)
(* message number of three bits whose upper word is one bit, and numbers    *)
(* up to 5, so that the window moves across a multiple of Half.             *)
EXTENDS SessionReceiver

AllBuilds == {"CAS128", "LOCK64", "LOCK32"}
TornBuild == {"LOCK32"}
=============================================================================
