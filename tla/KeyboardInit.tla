---------------------------- MODULE KeyboardInit ----------------------------
(***************************************************************************)
(* keyboard_init of src/src/drivers/keyboard.c against the keyboard and    *)
(* the controller it is plugged into.                                      *)
(*                                                                         *)
(* A command is a byte written to the data port and answered by another.   *)
(* The code reads the answer once, right after it has written; the device  *)
(* answers when it likes.  A read of the data port without a byte in it    *)
(* gives the byte of the last time.  What is decoded from the bytes is the *)
(* matter of module Keyboard: here a key is one byte.                      *)
(***************************************************************************)
EXTENDS Interrupts

CONSTANTS
  MAX_RETRY_COUNT, (* 3 in the kernel                                       *)
  MaxResends,      (* how often the keyboard asks to repeat a byte          *)
  MaxKeys          (* how many keys are pressed                             *)

ASSUME CountsAssumption ==
  MAX_RETRY_COUNT \in Nat \ {0} /\ MaxResends \in Nat /\ MaxKeys \in Nat

VARIABLES
  kbd,   (* the keyboard: the command it was sent, whether it expects the   *)
         (* number of a scan code set, that set, whether it scans, the      *)
         (* bytes it has to send, how many keys and repeats it has left     *)
  kbc,   (* the controller: its output buffer, its configuration, whether   *)
         (* it expects it                                                   *)
  kinit, (* where keyboard_init is, the tries of the loop it is in, whether *)
         (* it is about to read the answer                                  *)
  late   (* history of the running call: an answer was read before it was   *)
         (* there                                                           *)

kbdVars == <<kbd, kbc, kinit, late>>

Answers == {"ACK", "RESEND"}
None == "none"

-----------------------------------------------------------------------------
(***************************************************************************)
(* The keyboard and its controller                                         *)
(***************************************************************************)

Queue(k, byte) == [k EXCEPT !.out = Append(@, byte)]

\* The keyboard after it has obeyed a byte.
Obeyed(k, byte) ==
  CASE byte = "DISABLE_SCANNING" ->
         [k EXCEPT !.scanning = FALSE, !.number = FALSE, !.out = <<"ACK">>]
    [] byte = "ENABLE_SCANNING" ->
         [k EXCEPT !.scanning = TRUE, !.number = FALSE, !.out = <<"ACK">>]
    [] byte = "SET_SCANCODE_SET" ->
         Queue([k EXCEPT !.number = TRUE], "ACK")
    [] byte = "2" /\ k.number ->
         Queue([k EXCEPT !.number = FALSE, !.set = 2], "ACK")
    [] byte = "2" /\ ~k.number -> Queue(k, "RESEND")

KeyboardObeys ==
  /\ kbd.inbox # None
  /\ kbd' = Obeyed([kbd EXCEPT !.inbox = None], kbd.inbox)
  /\ UNCHANGED <<kbc, kinit, late>> /\ UNCHANGED intrVars

\* The byte was garbled on its way.
KeyboardAsksAgain ==
  /\ kbd.inbox # None
  /\ kbd.resends > 0
  /\ kbd' = Queue([kbd EXCEPT !.inbox = None, !.resends = @ - 1], "RESEND")
  /\ UNCHANGED <<kbc, kinit, late>> /\ UNCHANGED intrVars

PressKey ==
  /\ kbd.scanning
  /\ kbd.keys > 0
  /\ kbd' = Queue([kbd EXCEPT !.keys = @ - 1], "KEY")
  /\ UNCHANGED <<kbc, kinit, late>> /\ UNCHANGED intrVars

\* The next byte enters the output buffer, and raises line 1 if the controller is
\* configured so.
KeyboardSends ==
  /\ kbd.out # <<>>
  /\ ~kbc.full
  /\ kbd' = [kbd EXCEPT !.out = Tail(@)]
  /\ kbc' = [kbc EXCEPT !.full = TRUE, !.data = Head(kbd.out)]
  /\ IF kbc.interrupts THEN RaiseLine(1) /\ UNCHANGED raises ELSE UNCHANGED intrVars
  /\ UNCHANGED <<kinit, late>>

-----------------------------------------------------------------------------
(***************************************************************************)
(* The ports                                                               *)
(***************************************************************************)

\* A read of the data port empties the output buffer and lowers line 1.
ReadData ==
  /\ kbc' = [kbc EXCEPT !.full = FALSE]
  /\ asserted' = asserted \ {1}
  /\ LineFalls(1)
  /\ asked' = asked \ {1}

\* A write to the data port goes to the keyboard, over a byte it has not taken yet.
WriteData(byte) == kbd' = [kbd EXCEPT !.inbox = byte]

InputFull == kbd.inbox # None

-----------------------------------------------------------------------------
(***************************************************************************)
(* keyboard_init                                                           *)
(***************************************************************************)

\* The loops that send a command, the byte each sends, and what follows it.
CommandOf ==
  [disable |-> "DISABLE_SCANNING", set |-> "SET_SCANCODE_SET", number |-> "2",
   enable |-> "ENABLE_SCANNING"]
\* Mutated: the driver is installed once the keyboard scans.
FollowedByLateDriver ==
  [disable |-> "flush", set |-> "number", number |-> "enable",
   install |-> "done", enable |-> "install"]
FollowedBy ==
  [disable |-> "flush", set |-> "number", number |-> "install",
   install |-> "enable", enable |-> "done"]

InitAt(step) == InKernel /\ kinit.at = step
GoTo(step) == kinit' = [at |-> step, tries |-> 0, reading |-> FALSE]

TriesLeft == kinit.tries < MAX_RETRY_COUNT

SendCommand ==
  /\ \E step \in DOMAIN CommandOf : InitAt(step) /\ WriteData(CommandOf[step])
  /\ ~kinit.reading
  /\ TriesLeft
  /\ kinit' = [kinit EXCEPT !.tries = @ + 1, !.reading = TRUE]
  /\ UNCHANGED <<kbc, late>> /\ UNCHANGED intrVars

RetriesExhausted ==
  /\ \E step \in DOMAIN CommandOf : InitAt(step)
  /\ ~kinit.reading
  /\ ~TriesLeft
  /\ GoTo("failed")
  /\ UNCHANGED <<kbd, kbc, late>> /\ UNCHANGED intrVars

\* What the code reads is the answer to what it has just sent.
IsAnswered ==
  /\ ~InputFull
  /\ kbc.data \in Answers
  /\ ToSet(kbd.out) \cap Answers = {}

\* The loop goes round again.
\* Mutated: it never does.
AsksAgainNever(resp) == FALSE
AsksAgain(resp) == resp = "RESEND"

\* Only the commands about the scan code set look for the acknowledgement.
IsRefused(step, resp) == step \in {"set", "number"} /\ resp # "ACK"

ReadAnswer ==
  /\ InKernel
  /\ kinit.reading
  /\ ReadData
  /\ late' = (late \/ ~IsAnswered)
  /\ CASE AsksAgain(kbc.data) -> kinit' = [kinit EXCEPT !.reading = FALSE]
       [] ~AsksAgain(kbc.data) /\ IsRefused(kinit.at, kbc.data) -> GoTo("failed")
       [] OTHER -> GoTo(FollowedBy[kinit.at])
  /\ UNCHANGED <<kbd, idt_entries, idt_irq_drivers, enabled, cpu,
                 raises>>

\* keyboard_flush_buff
\* Mutated: the status is read, and not the byte.
FlushByteStatusOnly ==
  /\ InitAt("flush")
  /\ kbc.full
  /\ UNCHANGED <<kbdVars, intrVars>>

FlushByte ==
  /\ InitAt("flush")
  /\ kbc.full
  /\ ReadData
  /\ UNCHANGED <<kbd, kinit, late, idt_entries, idt_irq_drivers, enabled, cpu,
                 raises>>

Flushed ==
  /\ InitAt("flush")
  /\ ~kbc.full
  /\ GoTo("ccb")
  /\ UNCHANGED <<kbd, kbc, late>> /\ UNCHANGED intrVars

\* ps2_controller_configure: both writes wait for an empty input buffer; the second
\* is the configuration, IRQ 1 on and no translation.
AnnounceConfiguration ==
  /\ InitAt("ccb")
  /\ ~InputFull
  /\ GoTo("ccb_data")
  /\ UNCHANGED <<kbd, kbc, late>> /\ UNCHANGED intrVars

WriteConfiguration ==
  /\ InitAt("ccb_data")
  /\ ~InputFull
  /\ kbc' = [kbc EXCEPT !.interrupts = TRUE, !.translation = FALSE]
  /\ IF kbc.full /\ 1 \notin asserted THEN RaiseLine(1) /\ UNCHANGED raises ELSE UNCHANGED intrVars
  /\ GoTo("set")
  /\ UNCHANGED <<kbd, late>>

InstallKeyboardDriver ==
  /\ InitAt("install")
  /\ InstallIrqDriver(1, "keyboard_irq_handler")
  /\ GoTo(FollowedBy["install"])
  /\ UNCHANGED <<kbd, kbc, late>>

KeyboardInitStep ==
  \/ SendCommand \/ RetriesExhausted \/ ReadAnswer \/ FlushByte \/ Flushed
  \/ AnnounceConfiguration \/ WriteConfiguration \/ InstallKeyboardDriver

\* keyboard_irq_handler reads one byte; keyboard_init may be waiting for it.
KeyboardIrq ==
  /\ CallsDriver("keyboard_irq_handler")
  /\ ReadData
  /\ cpu' = DriverReturned
  /\ UNCHANGED <<kbd, kinit, late, idt_entries, idt_irq_drivers, enabled,
                 raises>>

\* As the firmware leaves it: scanning, in either set of scan codes, its bytes
\* translated, with its interrupt on or off.
KeyboardInitInit ==
  /\ \E set \in {1, 2} :
       kbd = [inbox |-> None, number |-> FALSE, set |-> set, scanning |-> TRUE,
              out |-> <<>>, keys |-> MaxKeys, resends |-> MaxResends]
  /\ \E data \in {"ACK", "KEY"}, interrupts \in BOOLEAN :
       kbc = [full |-> FALSE, data |-> data, interrupts |-> interrupts,
              translation |-> TRUE]
  /\ kinit = [at |-> "disable", tries |-> 0, reading |-> FALSE]
  /\ late = FALSE
=============================================================================
