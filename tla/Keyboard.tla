------------------------------ MODULE Keyboard ------------------------------
(***************************************************************************)
(* The keyboard driver of src/src/drivers/keyboard.c once it is set up:    *)
(* the decoder of scan code set 2, the ring buffer of decoded events and   *)
(* the callback that takes them out.                                       *)
(*                                                                         *)
(* The device sends the bytes of a key when it is pressed or released.     *)
(* Every byte raises IRQ 1, and keyboard_irq_handler, which runs with      *)
(* interrupts disabled, handles it in one step.  The kernel installs the   *)
(* callback once, at the start of the shell; keys pressed before that stay *)
(* in the ring buffer.                                                     *)
(***************************************************************************)
EXTENDS Integers, FiniteSets, SequencesExt

CONSTANTS
  MAX_KEYBOARD_BUFF_SIZE, (* 24 in the kernel                               *)
  Keys,     (* the keys of the device                                       *)
  Make,     (* Make[k]: the bytes the device sends when k is pressed        *)
  Break,    (* Break[k]: the bytes it sends when k is released              *)
  Code,     (* Code[k]: the keycode of keyboard.h that stands for k         *)
  KeyBound  (* bounds how many times keys are pressed or released           *)

Scancodes == 0 .. 255

ASSUME KeyboardAssumption ==
  /\ MAX_KEYBOARD_BUFF_SIZE \in Nat \ {0}
  /\ Make \in [Keys -> Seq(Scancodes)]
  /\ Break \in [Keys -> Seq(Scancodes)]
  /\ KeyBound \in Nat

VARIABLES
  wire,                (* bytes the device has to deliver                   *)
  decoder,             (* the static variables of the decoder               *)
  keyboard_event_buff,
  event_buff_idx,
  event_count,
  keyboard_callback,   (* whether the callback is installed                 *)
  typed,               (* history: the events that happened at the device   *)
  decoded,             (* history: the events put into the ring buffer      *)
  delivered            (* history: the events the callback was called with  *)

ring == <<keyboard_event_buff, event_buff_idx, event_count>>
vars == <<wire, decoder, ring, keyboard_callback, typed, decoded, delivered>>

Event(keycode, released) == [keycode |-> keycode, is_released |-> released]
NoEvent == Event("KEY_NONE", FALSE)

-----------------------------------------------------------------------------
(***************************************************************************)
(* keyboard_translate_scancode                                             *)
(***************************************************************************)

pause_sequence == <<\hE1, \h14, \h77, \hE1, \hF0, \h14, \hF0, \h77>>

\* Keys whose code follows the byte E0.  The codes 12 and 7C are the halves of
\* Print Screen and stand for no key of their own.
ExtendedKeys ==
  \h10 :> "KEY_WWW_SEARCH" @@ \h11 :> "KEY_RIGHT_ALT" @@ \h12 :> "KEY_NONE" @@
  \h14 :> "KEY_RIGHT_CTRL" @@ \h15 :> "KEY_PREVIOUS_TRACK" @@
  \h18 :> "KEY_WWW_FAVORITES" @@ \h1F :> "KEY_LEFT_GUI" @@
  \h20 :> "KEY_WWW_REFRESH" @@ \h21 :> "KEY_VOLUME_DOWN" @@
  \h23 :> "KEY_MUTE" @@ \h27 :> "KEY_RIGHT_GUI" @@ \h28 :> "KEY_WWW_STOP" @@
  \h2B :> "KEY_CALCULATOR" @@ \h2F :> "KEY_APPS" @@
  \h30 :> "KEY_WWW_FORWARD" @@ \h32 :> "KEY_VOLUME_UP" @@
  \h34 :> "KEY_PLAY_PAUSE" @@ \h37 :> "KEY_POWER" @@ \h38 :> "KEY_WWW_BACK" @@
  \h3A :> "KEY_WWW_HOME" @@ \h3B :> "KEY_STOP" @@ \h3F :> "KEY_SLEEP" @@
  \h40 :> "KEY_MY_COMPUTER" @@ \h48 :> "KEY_EMAIL" @@
  \h4A :> "KEY_KP_SLASH" @@ \h4D :> "KEY_NEXT_TRACK" @@
  \h50 :> "KEY_MEDIA_SELECT" @@ \h5A :> "KEY_KP_ENTER" @@
  \h5E :> "KEY_WAKE" @@ \h69 :> "KEY_END" @@ \h6B :> "KEY_CURSOR_LEFT" @@
  \h6C :> "KEY_HOME" @@ \h70 :> "KEY_INSERT" @@ \h71 :> "KEY_DELETE" @@
  \h72 :> "KEY_CURSOR_DOWN" @@ \h74 :> "KEY_CURSOR_RIGHT" @@
  \h75 :> "KEY_CURSOR_UP" @@ \h7A :> "KEY_PAGE_DOWN" @@ \h7C :> "KEY_NONE" @@
  \h7D :> "KEY_PAGE_UP"

\* Keys with a code of their own.
NormalKeys ==
  \h01 :> "KEY_F9" @@ \h03 :> "KEY_F5" @@ \h04 :> "KEY_F3" @@
  \h05 :> "KEY_F1" @@ \h06 :> "KEY_F2" @@ \h07 :> "KEY_F12" @@
  \h09 :> "KEY_F10" @@ \h0A :> "KEY_F8" @@ \h0B :> "KEY_F6" @@
  \h0C :> "KEY_F4" @@ \h0D :> "KEY_TAB" @@ \h0E :> "KEY_GRAVE" @@
  \h11 :> "KEY_LEFT_ALT" @@ \h12 :> "KEY_LEFT_SHIFT" @@
  \h14 :> "KEY_LEFT_CTRL" @@ \h15 :> "KEY_Q" @@ \h16 :> "KEY_1" @@
  \h1A :> "KEY_Z" @@ \h1B :> "KEY_S" @@ \h1C :> "KEY_A" @@ \h1D :> "KEY_W" @@
  \h1E :> "KEY_2" @@ \h21 :> "KEY_C" @@ \h22 :> "KEY_X" @@ \h23 :> "KEY_D" @@
  \h24 :> "KEY_E" @@ \h25 :> "KEY_4" @@ \h26 :> "KEY_3" @@
  \h29 :> "KEY_SPACE" @@ \h2A :> "KEY_V" @@ \h2B :> "KEY_F" @@
  \h2C :> "KEY_T" @@ \h2D :> "KEY_R" @@ \h2E :> "KEY_5" @@ \h31 :> "KEY_N" @@
  \h32 :> "KEY_B" @@ \h33 :> "KEY_H" @@ \h34 :> "KEY_G" @@ \h35 :> "KEY_Y" @@
  \h36 :> "KEY_6" @@ \h3A :> "KEY_M" @@ \h3B :> "KEY_J" @@ \h3C :> "KEY_U" @@
  \h3D :> "KEY_7" @@ \h3E :> "KEY_8" @@ \h41 :> "KEY_COMMA" @@
  \h42 :> "KEY_K" @@ \h43 :> "KEY_I" @@ \h44 :> "KEY_O" @@
  \h45 :> "KEY_ZERO" @@ \h46 :> "KEY_9" @@ \h49 :> "KEY_PERIOD" @@
  \h4A :> "KEY_SLASH" @@ \h4B :> "KEY_L" @@ \h4C :> "KEY_SEMICOLON" @@
  \h4D :> "KEY_P" @@ \h4E :> "KEY_MINUS" @@ \h52 :> "KEY_APOSTROPHE" @@
  \h54 :> "KEY_LEFT_BRACKET" @@ \h55 :> "KEY_EQUAL" @@
  \h58 :> "KEY_CAPSLOCK" @@ \h59 :> "KEY_RIGHT_SHIFT" @@
  \h5A :> "KEY_ENTER" @@ \h5B :> "KEY_RIGHT_BRACKET" @@
  \h5D :> "KEY_BACKSLASH" @@ \h66 :> "KEY_BACKSPACE" @@ \h69 :> "KEY_KP_1" @@
  \h6B :> "KEY_KP_4" @@ \h6C :> "KEY_KP_7" @@ \h70 :> "KEY_KP_0" @@
  \h71 :> "KEY_KP_PERIOD" @@ \h72 :> "KEY_KP_2" @@ \h73 :> "KEY_KP_5" @@
  \h74 :> "KEY_KP_6" @@ \h75 :> "KEY_KP_8" @@ \h76 :> "KEY_ESCAPE" @@
  \h77 :> "KEY_NUMLOCK" @@ \h78 :> "KEY_F11" @@ \h79 :> "KEY_KP_PLUS" @@
  \h7A :> "KEY_KP_3" @@ \h7B :> "KEY_KP_MINUS" @@ \h7C :> "KEY_KP_ASTERISK" @@
  \h7D :> "KEY_KP_9" @@ \h7E :> "KEY_SCROLLLOCK" @@ \h83 :> "KEY_F7"

TableKey(table, scancode) ==
  IF scancode \in DOMAIN table THEN table[scancode] ELSE "KEY_UNKNOWN"

\* The scan codes of a key: one byte that the tables know, alone or behind E0, or a
\* sequence of more bytes.  Only Pause has the byte E1.
ASSUME ScancodesAssumption ==
  \A k \in Keys :
    \/ \E s \in Scancodes \ {\hE0, \hE1, \hF0} :
         /\ Code[k] \notin {"KEY_NONE", "KEY_UNKNOWN"}
         /\ \/ /\ Make[k] = <<s>> /\ Break[k] = <<\hF0, s>>
               /\ Code[k] = TableKey(NormalKeys, s)
            \/ /\ Make[k] = <<\hE0, s>> /\ Break[k] = <<\hE0, \hF0, s>>
               /\ Code[k] = TableKey(ExtendedKeys, s) /\ s \notin {\h12, \h7C}
    \/ /\ Len(Make[k]) > 2
       /\ \/ Make[k] = pause_sequence /\ Break[k] = <<>>
          \/ \hE1 \notin Range(Make[k]) \cup Range(Break[k])

Result(d, event) == [decoder |-> d, event |-> event]

\* Print Screen is pressed (E0 12 E0 7C) or released (E0 F0 7C E0 F0 12): the
\* first half has been seen, this is the second.
PrintScreen(d, scancode) ==
  \/ d.pressed_pending /\ scancode = \h7C
  \/ d.released_pending /\ scancode = \h12

\* Mutated: a flag of Print Screen is not put down by its second half.
TranslatePrintScreenKeeps(d, scancode) ==
  Result(d, Event("KEY_PRINT_SCREEN", ~(d.pressed_pending /\ scancode = \h7C)))

TranslatePrintScreen(d, scancode) ==
  IF d.pressed_pending /\ scancode = \h7C
  THEN Result([d EXCEPT !.pressed_pending = FALSE],
              Event("KEY_PRINT_SCREEN", FALSE))
  ELSE Result([d EXCEPT !.released_pending = FALSE],
              Event("KEY_PRINT_SCREEN", TRUE))

\* The byte goes on with the pause sequence, or begins it.
InPauseSequence(d, scancode) ==
  scancode = pause_sequence[d.pause_sequence_idx + 1]

TranslatePause(d) ==
  IF d.pause_sequence_idx + 1 = Len(pause_sequence)
  THEN Result([d EXCEPT !.pause_sequence_idx = 0,
                        !.is_extended = FALSE, !.is_released = FALSE],
              Event("KEY_PLAY_PAUSE", FALSE))
  ELSE Result([d EXCEPT !.pause_sequence_idx = @ + 1], NoEvent)

\* The tables are consulted for the byte.
KeyEvent(d, scancode) ==
  LET table   == IF d.is_extended THEN ExtendedKeys ELSE NormalKeys
      keycode == IF d.is_extended /\ scancode \in {\h12, \h7C} THEN "KEY_NONE"
                 ELSE TableKey(table, scancode)
  IN  Event(keycode, d.is_released)

\* Mutated: the released flag survives the key it was sent for.
AfterKeyStaysReleased(d, scancode) ==
  [pause_sequence_idx |-> 0,
   is_extended |-> FALSE,
   is_released |-> d.is_released,
   pressed_pending |-> d.pressed_pending \/ (d.is_extended /\ scancode = \h12),
   released_pending |-> d.released_pending \/ (d.is_extended /\ scancode = \h7C)]

\* The decoder after a byte that the tables were consulted for.
AfterKey(d, scancode) ==
  [pause_sequence_idx |-> 0,
   is_extended |-> FALSE,
   is_released |-> FALSE,
   pressed_pending |-> d.pressed_pending \/ (d.is_extended /\ scancode = \h12),
   released_pending |-> d.released_pending \/ (d.is_extended /\ scancode = \h7C)]

Translate(d, scancode) ==
  IF scancode = \hE0 THEN Result([d EXCEPT !.is_extended = TRUE], NoEvent)
  ELSE IF scancode = \hF0 THEN Result([d EXCEPT !.is_released = TRUE], NoEvent)
  ELSE IF PrintScreen(d, scancode) THEN TranslatePrintScreen(d, scancode)
  ELSE IF InPauseSequence(d, scancode) THEN TranslatePause(d)
  ELSE Result(AfterKey(d, scancode), KeyEvent(d, scancode))

-----------------------------------------------------------------------------
(***************************************************************************)
(* keyboard_irq_handler and keyboard_get_event                             *)
(***************************************************************************)

\* Where keyboard_get_event finds the oldest event.
Oldest(idx, count) ==
  ((idx - count) + MAX_KEYBOARD_BUFF_SIZE) % MAX_KEYBOARD_BUFF_SIZE

\* Mutated: the count stops one short of the size of the buffer.
CountAfterPushShort(count) ==
  IF count < MAX_KEYBOARD_BUFF_SIZE - 1 THEN count + 1 ELSE count

\* Mutated: the count is not capped.
CountAfterPushUncapped(count) == count + 1

CountAfterPush(count) ==
  IF count < MAX_KEYBOARD_BUFF_SIZE THEN count + 1 ELSE MAX_KEYBOARD_BUFF_SIZE

\* The handler reads a byte that completes no event.
IrqNoEvent ==
  /\ wire # <<>>
  /\ LET t == Translate(decoder, Head(wire)) IN
       /\ t.event.keycode \in {"KEY_NONE", "KEY_UNKNOWN"}
       /\ decoder' = t.decoder
  /\ wire' = Tail(wire)
  /\ UNCHANGED <<ring, keyboard_callback, typed, decoded, delivered>>

\* The handler puts the event of the byte into the ring buffer and, if there is a
\* callback, calls it with the oldest event of the buffer.
IrqEvent ==
  /\ wire # <<>>
  /\ LET t     == Translate(decoder, Head(wire))
         buff  == [keyboard_event_buff EXCEPT ![event_buff_idx] = t.event]
         idx   == (event_buff_idx + 1) % MAX_KEYBOARD_BUFF_SIZE
         count == CountAfterPush(event_count)
     IN  /\ t.event.keycode \notin {"KEY_NONE", "KEY_UNKNOWN"}
         /\ decoder' = t.decoder
         /\ keyboard_event_buff' = buff
         /\ event_buff_idx' = idx
         /\ decoded' = Append(decoded, t.event)
         /\ \/ /\ keyboard_callback
               /\ event_count' = count - 1
               /\ delivered' = Append(delivered, buff[Oldest(idx, count)])
            \/ /\ ~keyboard_callback
               /\ event_count' = count
               /\ UNCHANGED delivered
  /\ wire' = Tail(wire)
  /\ UNCHANGED <<keyboard_callback, typed>>

\* keyboard_install_event_callback, called by shell_init.
InstallEventCallback ==
  /\ ~keyboard_callback
  /\ keyboard_callback' = TRUE
  /\ UNCHANGED <<wire, decoder, ring, typed, decoded, delivered>>

-----------------------------------------------------------------------------
\* A key is pressed or released at the device.  The decoder sees one stream of
\* bytes, so nothing is lost by letting it take the bytes of one key before the
\* next one is touched.
Press(k) ==
  /\ wire = <<>> /\ Len(typed) < KeyBound
  /\ wire' = Make[k]
  /\ typed' = Append(typed, Event(Code[k], FALSE))
  /\ UNCHANGED <<decoder, ring, keyboard_callback, decoded, delivered>>

Release(k) ==
  /\ wire = <<>> /\ Len(typed) < KeyBound /\ Break[k] # <<>>
  /\ wire' = Break[k]
  /\ typed' = Append(typed, Event(Code[k], TRUE))
  /\ UNCHANGED <<decoder, ring, keyboard_callback, decoded, delivered>>

Init ==
  /\ wire = <<>>
  /\ decoder = [is_extended |-> FALSE, is_released |-> FALSE,
                pause_sequence_idx |-> 0,
                pressed_pending |-> FALSE, released_pending |-> FALSE]
  /\ keyboard_event_buff = [i \in 0 .. MAX_KEYBOARD_BUFF_SIZE - 1 |-> NoEvent]
  /\ event_buff_idx = 0
  /\ event_count = 0
  /\ keyboard_callback = FALSE
  /\ typed = <<>>
  /\ decoded = <<>>
  /\ delivered = <<>>

Next ==
  \/ IrqNoEvent \/ IrqEvent
  \/ InstallEventCallback
  \/ \E k \in Keys : Press(k) \/ Release(k)

Spec == Init /\ [][Next]_vars

-----------------------------------------------------------------------------
TypeOK ==
  /\ wire \in Seq(Scancodes)
  /\ decoder \in [is_extended : BOOLEAN, is_released : BOOLEAN,
                  pause_sequence_idx : 0 .. Len(pause_sequence) - 1,
                  pressed_pending : BOOLEAN, released_pending : BOOLEAN]
  /\ DOMAIN keyboard_event_buff = 0 .. MAX_KEYBOARD_BUFF_SIZE - 1
  /\ event_buff_idx \in 0 .. MAX_KEYBOARD_BUFF_SIZE - 1
  /\ event_count \in 0 .. MAX_KEYBOARD_BUFF_SIZE
  /\ keyboard_callback \in BOOLEAN

\* Keys that are one byte, or one byte after the prefix E0: all but Print Screen,
\* Pause and the keys the device wraps in fake shifts.
PlainKeys == {k \in Keys : Len(Make[k]) <= 2}

\* Events of no other key.
IsPlain(event) == \A k \in Keys : Code[k] = event.keycode => k \in PlainKeys

\* Events of plain keys whose code the decoder never takes for a half of Print Screen.
Unambiguous(event) ==
  \A k \in Keys : Code[k] = event.keycode =>
    k \in PlainKeys /\ Last(Make[k]) \notin {\h12, \h7C}

(***************************************************************************)
(* As long as plain keys are used, what the driver decodes is what was     *)
(* typed, presses and releases in order (keyboard.c:97-553).               *)
(***************************************************************************)
DecodedAsTyped ==
  wire = <<>> /\ (\A i \in DOMAIN typed : IsPlain(typed[i])) => decoded = typed

(***************************************************************************)
(* The decoder leaves Print Screen and fake shifts with flags up: those of *)
(* the prefixes, which the next key is misread with, and the two of Print  *)
(* Screen, with which Left Shift and the asterisk of the keypad pass for   *)
(* its second half (keyboard.c:113-129).  After any other plain key the    *)
(* next plain key is reported as it was typed, whatever came before, but   *)
(* for those two, which may still be reported as Print Screen.             *)
(***************************************************************************)
PlainKeyResynchronises ==
  wire = <<>> /\ Len(typed) >= 2 /\ Unambiguous(typed[Len(typed) - 1])
              /\ IsPlain(Last(typed))
    => /\ decoded # <<>>
       /\ \/ Last(decoded) = Last(typed)
          \/ ~Unambiguous(Last(typed)) /\ Last(decoded).keycode = "KEY_PRINT_SCREEN"

\* Keys that have a half of Print Screen among their bytes.
HalfKeys == {k \in Keys \ PlainKeys : \hE0 \in Range(Make[k])}

(***************************************************************************)
(* The flags of Print Screen outlive the key that raised them, and a byte  *)
(* E0 of it that is left over makes the asterisk of the keypad raise one   *)
(* again; but each is good for one report: however the halves and the keys *)
(* that pass for them are mixed, Print Screen is reported no more often    *)
(* than twice for each press or release of a key with a half of it, that   *)
(* is once for each of its bytes E0 (keyboard.c:109-129, 162-165, 273-276).*)
(***************************************************************************)
HalvesAreUsedOnce ==
  Cardinality({i \in DOMAIN decoded : decoded[i].keycode = "KEY_PRINT_SCREEN"})
    <= 2 * Cardinality({i \in DOMAIN typed :
                          \E k \in HalfKeys : Code[k] = typed[i].keycode})

(***************************************************************************)
(* "pause_sequence" (keyboard.c:102) and what its match returns: the Pause *)
(* key is reported as KEY_PLAY_PAUSE.                                      *)
(***************************************************************************)
PauseIsReported ==
  wire = <<>> /\ typed = <<Event("KEY_PLAY_PAUSE", FALSE)>> => decoded = typed
=============================================================================
