----------------------------- MODULE ReplayFilter -----------------------------
(***************************************************************************)
(* What the decryption side of the session API promises (inc/symcrypt.h,   *)
(* SymCryptSessionGcmDecrypt): "no 2 decryptions using the same session    *)
(* and same message number can succeed".  The promise as one atomic        *)
(* object: a set of accepted message numbers and the window below the      *)
(* highest one in which the object still remembers every one of them.      *)
(***************************************************************************)
EXTENDS Integers

CONSTANTS
  Window,            \* how many message numbers are remembered: 64 in the code
  MaxMessageNumber   \* SYMCRYPT_SESSION_MAX_MESSAGE_NUMBER

VARIABLES
  highest,   \* the upper end of the window
  accepted   \* message numbers successfully decrypted

filterVars == <<highest, accepted>>

MessageNumbers == 1 .. MaxMessageNumber

Init ==
  /\ highest = Window
  /\ accepted = {}

(* One decryption succeeds: the number is new and not behind the window.   *)
Accept(m) ==
  /\ m \notin accepted
  /\ m > highest - Window
  /\ accepted' = accepted \cup {m}
  /\ highest' = IF m > highest THEN m ELSE highest

(* The session ends; the next one starts with nothing accepted.            *)
Reset == highest' = Window /\ accepted' = {}

Next == Reset \/ \E m \in MessageNumbers : Accept(m)

Spec == Init /\ [][Next]_filterVars
=============================================================================
