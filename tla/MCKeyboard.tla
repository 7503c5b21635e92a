----------------------------- MODULE MCKeyboard -----------------------------
(***************************************************************************)
(* Keys for Keyboard, with the bytes that scan code set 2 gives them.      *)
(* "up" is the cursor key as the device sends it while Num Lock is on,     *)
(* wrapped in fake shifts; Pause sends nothing when it is released.        *)
(***************************************************************************)
EXTENDS KeyboardQueue

AllMake ==
  [a     |-> <<\h1C>>,
   star  |-> <<\h7C>>,
   shift |-> <<\h12>>,
   enter |-> <<\hE0, \h5A>>,
   print |-> <<\hE0, \h12, \hE0, \h7C>>,
   up    |-> <<\hE0, \h12, \hE0, \h75>>,
   pause |-> pause_sequence]

AllBreak ==
  [a     |-> <<\hF0, \h1C>>,
   star  |-> <<\hF0, \h7C>>,
   shift |-> <<\hF0, \h12>>,
   enter |-> <<\hE0, \hF0, \h5A>>,
   print |-> <<\hE0, \hF0, \h7C, \hE0, \hF0, \h12>>,
   up    |-> <<\hE0, \hF0, \h75, \hE0, \hF0, \h12>>,
   pause |-> <<>>]

AllCode ==
  [a     |-> "KEY_A",
   star  |-> "KEY_KP_ASTERISK",
   shift |-> "KEY_LEFT_SHIFT",
   enter |-> "KEY_KP_ENTER",
   print |-> "KEY_PRINT_SCREEN",
   up    |-> "KEY_CURSOR_UP",
   pause |-> "KEY_PLAY_PAUSE"]

MCMake == [k \in Keys |-> AllMake[k]]
MCBreak == [k \in Keys |-> AllBreak[k]]
MCCode == [k \in Keys |-> AllCode[k]]
=============================================================================
