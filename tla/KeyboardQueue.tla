--------------------------- MODULE KeyboardQueue ---------------------------
(***************************************************************************)
(* The ring buffer of Keyboard, its index and its count as an              *)
(* implementation of EventQueue.                                           *)
(***************************************************************************)
EXTENDS Keyboard

\* The events in the ring buffer, oldest first.
RingContents ==
  [i \in 1 .. event_count |->
     keyboard_event_buff[(Oldest(event_buff_idx, event_count) + i - 1)
                           % MAX_KEYBOARD_BUFF_SIZE]]

Keycodes == {NormalKeys[c] : c \in DOMAIN NormalKeys} \cup
            {ExtendedKeys[c] : c \in DOMAIN ExtendedKeys} \cup
            {"KEY_PRINT_SCREEN", "KEY_PLAY_PAUSE"}

Q == INSTANCE EventQueue WITH
       Capacity  <- MAX_KEYBOARD_BUFF_SIZE,
       Events    <- [keycode : Keycodes, is_released : BOOLEAN],
       queue     <- RingContents,
       out       <- delivered,
       listening <- keyboard_callback

(***************************************************************************)
(* The interrupt handler and keyboard_get_event keep the promise of        *)
(* EventQueue (keyboard.c:565-572 and 609-614): nothing is handed over out *)
(* of order, twice or not at all, except what a full buffer overwrites,    *)
(* wherever the index has wrapped around.                                  *)
(***************************************************************************)
ImplementsEventQueue == Q!Spec
=============================================================================
