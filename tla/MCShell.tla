------------------------------ MODULE MCShell ------------------------------
(***************************************************************************)
(* Values for the constants of Shell.  The line grows to 1, 3 and 7        *)
(* characters.                                                             *)
(***************************************************************************)
EXTENDS Shell

OneLetter == {"KEY_A"}
TwoLetters == {"KEY_A", "KEY_B"}
============================================================================
