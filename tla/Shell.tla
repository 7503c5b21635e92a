------------------------------- MODULE Shell -------------------------------
(***************************************************************************)
(* The shell of src/src/shell/shell.c: the loop of shell_init, which runs  *)
(* with interrupts enabled, against shell_input_callback, which the        *)
(* keyboard interrupt calls between any two instructions of that loop.     *)
(*                                                                         *)
(* The loop takes one step per access to the variables it shares with the  *)
(* callback, in the order of the -O2 build of the GNUmakefile: the reset   *)
(* of the buffer is inlined, and shell_current_line is read before         *)
(* shell_prompt_confirmed and the sizes are cleared.  The callback is one  *)
(* step: interrupts are off while it runs.                                 *)
(*                                                                         *)
(* The heap is the set of live buffers.  An access to memory that is not a *)
(* live buffer is recorded in faults, and the model ends there.            *)
(***************************************************************************)
EXTENDS Integers, SequencesExt

CONSTANTS
  Letters,     (* the letter keys                                           *)
  Buffers,     (* the addresses kmalloc may return                          *)
  PressBound,  (* bounds how many keys are pressed                          *)
  NULL

ASSUME ShellAssumption == PressBound \in Nat /\ NULL \notin Buffers

VARIABLES
  shell_prompt_confirmed,
  shell_current_line,
  shell_line_capacity,
  shell_line_size,
  shell_shift_is_held,
  pc,       (* where the loop is                                            *)
  line,     (* the copy of shell_current_line that the loop passes to kfree *)
  heap,     (* live buffer -> its characters                                *)
  faults,   (* the illegal accesses                                         *)
  presses,  (* how many keys were pressed                                   *)
  enters,   (* history: how many of them were Enter                         *)
  prompts,  (* history: how many prompts were displayed                     *)
  shown,    (* history: the characters displayed since the latest reset     *)
  raced     (* history: a letter was typed during a reset of the buffer     *)

buffer == <<shell_current_line, shell_line_capacity, shell_line_size>>
keyboard == <<presses, enters>>
vars == <<shell_prompt_confirmed, buffer, shell_shift_is_held, pc, line, heap,
          faults, keyboard, prompts, shown, raced>>

\* The steps of the loop between its copy of shell_current_line and the end of
\* the reset.
ResetSteps ==
  {"unconfirm", "zero_capacity", "zero_size", "free", "in_kfree", "null"}

Init ==
  /\ shell_prompt_confirmed = FALSE
  /\ shell_current_line = NULL
  /\ shell_line_capacity = 0
  /\ shell_line_size = 0
  /\ shell_shift_is_held = FALSE
  /\ pc = "prompt"
  /\ line = NULL
  /\ heap = [b \in {} |-> <<>>]
  /\ faults = {}
  /\ presses = 0
  /\ enters = 0
  /\ prompts = 0
  /\ shown = <<>>
  /\ raced = FALSE

-----------------------------------------------------------------------------
(***************************************************************************)
(* shell_init and, inlined in it, shell_reset_prompt_buffer                *)
(***************************************************************************)

At(here, there) == pc = here /\ faults = {} /\ pc' = there

\* Mutated: the flag is cleared when a prompt is displayed.
DisplayPromptAndClear ==
  /\ At("prompt", "hlt")
  /\ prompts' = prompts + 1
  /\ shell_prompt_confirmed' = FALSE
  /\ UNCHANGED <<buffer, shell_shift_is_held, line, heap, faults, keyboard, shown,
                 raced>>

DisplayPrompt ==
  /\ At("prompt", "hlt")
  /\ prompts' = prompts + 1
  /\ UNCHANGED <<shell_prompt_confirmed, buffer, shell_shift_is_held, line, heap,
                 faults, keyboard, shown, raced>>

\* hlt: only an interrupt moves the processor on.
WaitForInterrupts ==
  /\ At("hlt", "halted")
  /\ UNCHANGED <<shell_prompt_confirmed, buffer, shell_shift_is_held, line, heap,
                 faults, keyboard, prompts, shown, raced>>

\* Mutated: the flag is not looked at.
CheckNothing ==
  /\ At("check", "load")
  /\ UNCHANGED <<shell_prompt_confirmed, buffer, shell_shift_is_held, line, heap,
                 faults, keyboard, prompts, shown, raced>>

CheckConfirmed ==
  /\ \/ shell_prompt_confirmed /\ At("check", "load")
     \/ ~shell_prompt_confirmed /\ At("check", "hlt")
  /\ UNCHANGED <<shell_prompt_confirmed, buffer, shell_shift_is_held, line, heap,
                 faults, keyboard, prompts, shown, raced>>

LoadLine ==
  /\ At("load", "unconfirm")
  /\ line' = shell_current_line
  /\ UNCHANGED <<shell_prompt_confirmed, buffer, shell_shift_is_held, heap,
                 faults, keyboard, prompts, shown, raced>>

ClearConfirmed ==
  /\ At("unconfirm", "zero_capacity")
  /\ shell_prompt_confirmed' = FALSE
  /\ UNCHANGED <<buffer, shell_shift_is_held, line, heap, faults, keyboard,
                 prompts, shown, raced>>

ZeroCapacity ==
  /\ At("zero_capacity", "zero_size")
  /\ shell_line_capacity' = 0
  /\ UNCHANGED <<shell_prompt_confirmed, shell_current_line, shell_line_size,
                 shell_shift_is_held, line, heap, faults, keyboard, prompts,
                 shown, raced>>

ZeroSize ==
  /\ At("zero_size", IF line = NULL THEN "null" ELSE "free")
  /\ shell_line_size' = 0
  /\ UNCHANGED <<shell_prompt_confirmed, shell_current_line, shell_line_capacity,
                 shell_shift_is_held, line, heap, faults, keyboard, prompts,
                 shown, raced>>

\* What is left of the heap once b is freed, and what is wrong with freeing it.
HeapWithout(h, b) == [x \in DOMAIN h \ {b} |-> h[x]]
FreeFaults(h, b) == IF b \in DOMAIN h THEN {} ELSE {"double free"}

\* Mutated: the buffer is not given back.
FreeNothing ==
  /\ At("free", "in_kfree")
  /\ UNCHANGED <<shell_prompt_confirmed, buffer, shell_shift_is_held, line, heap,
                 faults, keyboard, prompts, shown, raced>>

\* kfree begins; while it runs, the free lists are not to be touched.
FreeLine ==
  /\ At("free", "in_kfree")
  /\ heap' = HeapWithout(heap, line)
  /\ faults' = FreeFaults(heap, line)
  /\ UNCHANGED <<shell_prompt_confirmed, buffer, shell_shift_is_held, line,
                 keyboard, prompts, shown, raced>>

FreeReturns ==
  /\ At("in_kfree", "null")
  /\ UNCHANGED <<shell_prompt_confirmed, buffer, shell_shift_is_held, line, heap,
                 faults, keyboard, prompts, shown, raced>>

NullLine ==
  /\ At("null", "prompt")
  /\ shell_current_line' = NULL
  /\ line' = NULL
  /\ shown' = <<>>
  /\ UNCHANGED <<shell_prompt_confirmed, shell_line_capacity, shell_line_size,
                 shell_shift_is_held, heap, faults, keyboard, prompts, raced>>

Loop ==
  \/ DisplayPrompt \/ WaitForInterrupts \/ CheckConfirmed
  \/ LoadLine \/ ClearConfirmed \/ ZeroCapacity \/ ZeroSize
  \/ FreeLine \/ FreeReturns \/ NullLine

-----------------------------------------------------------------------------
(***************************************************************************)
(* shell_input_callback                                                    *)
(***************************************************************************)

\* An interrupt is taken, and wakes the loop if it is halted.
Interrupted ==
  /\ pc # "stopped" /\ faults = {}
  /\ pc' = IF pc = "halted" THEN "check" ELSE pc

Pressed(k) ==
  /\ presses < PressBound
  /\ presses' = presses + 1
  /\ enters' = enters + (IF k = "KEY_ENTER" THEN 1 ELSE 0)

\* A letter key: the character is displayed whatever happens to the buffer.
TypeLetter(k) ==
  /\ Pressed(k)
  /\ shown' = Append(shown, [key |-> k, shift |-> shell_shift_is_held])
  /\ raced' = (raced \/ pc \in ResetSteps)
  /\ UNCHANGED <<shell_prompt_confirmed, shell_shift_is_held, line, prompts>>

\* Mutated: the last byte of the buffer is taken for room for another one.
NeedsRoomLate == shell_line_size > shell_line_capacity

NeedsRoom == shell_line_size + 1 > shell_line_capacity

NewCapacity == IF shell_line_capacity = 0 THEN 1 ELSE shell_line_capacity * 2 + 1

\* What kmalloc leaves in a byte nobody has written.
Unwritten == [key |-> "unwritten", shift |-> FALSE]

\* Mutated: the characters are not copied to the new buffer.
CopiedNothing(capacity) == [i \in 0 .. capacity - 1 |-> Unwritten]

\* A buffer of the given capacity with the characters memcpy copies to it.
Copied(capacity) ==
  [i \in 0 .. capacity - 1 |->
     IF /\ shell_current_line \in DOMAIN heap
        /\ i < shell_line_size
        /\ i \in DOMAIN heap[shell_current_line]
     THEN heap[shell_current_line][i] ELSE Unwritten]

\* What is wrong with storing a character at shell_line_size.
StoreFaults(h, b) ==
  IF b = NULL THEN {"write through NULL"}
  ELSE IF b \notin DOMAIN h THEN {"write after free"}
  ELSE IF shell_line_size \notin DOMAIN h[b] THEN {"write past the end"}
  ELSE {}

\* What is wrong with the copy to a buffer of the given capacity.
CopyFaults(capacity) ==
  IF shell_current_line = NULL \/ shell_line_size = 0 THEN {}
  ELSE IF shell_current_line \notin DOMAIN heap THEN {"read after free"}
  ELSE IF shell_line_size > capacity THEN {"write past the end"}
  ELSE {}

StoreChar(h, b, char) ==
  [x \in DOMAIN h |->
     IF x = b THEN [i \in DOMAIN h[x] |-> IF i = shell_line_size THEN char ELSE h[x][i]]
     ELSE h[x]]

\* The character fits the buffer.
LetterFits(k) ==
  /\ Interrupted /\ TypeLetter(k)
  /\ ~NeedsRoom
  /\ faults' = StoreFaults(heap, shell_current_line)
  /\ heap' = StoreChar(heap, shell_current_line, Last(shown'))
  /\ shell_line_size' = shell_line_size + 1
  /\ UNCHANGED <<shell_current_line, shell_line_capacity>>

\* The buffer is replaced by one of twice its size.
LetterGrows(k) ==
  /\ Interrupted /\ TypeLetter(k)
  /\ NeedsRoom
  /\ \E new \in Buffers \ DOMAIN heap :
       LET freed == IF shell_current_line = NULL THEN heap
                    ELSE HeapWithout(heap, shell_current_line)
           h == [x \in DOMAIN freed \cup {new} |->
                   IF x = new THEN Copied(NewCapacity) ELSE freed[x]]
       IN  /\ faults' = CopyFaults(NewCapacity) \cup StoreFaults(h, new) \cup
                (IF shell_current_line = NULL THEN {}
                 ELSE FreeFaults(heap, shell_current_line)) \cup
                (IF pc = "in_kfree" THEN {"heap entered twice"} ELSE {})
           /\ heap' = StoreChar(h, new, Last(shown'))
           /\ shell_current_line' = new
  /\ shell_line_capacity' = NewCapacity
  /\ shell_line_size' = shell_line_size + 1

\* kmalloc returns NULL: the callback reports a fatal error and stops.
LetterOutOfMemory(k) ==
  /\ pc # "stopped" /\ faults = {}
  /\ TypeLetter(k)
  /\ NeedsRoom
  /\ pc' = "stopped"
  /\ UNCHANGED <<buffer, heap, faults>>

PressShift ==
  /\ Interrupted /\ Pressed("KEY_LEFT_SHIFT")
  /\ shell_shift_is_held' = TRUE
  /\ UNCHANGED <<shell_prompt_confirmed, buffer, line, heap, faults, prompts,
                 shown, raced>>

PressEnter ==
  /\ Interrupted /\ Pressed("KEY_ENTER")
  /\ shell_prompt_confirmed' = TRUE
  /\ UNCHANGED <<buffer, shell_shift_is_held, line, heap, faults, prompts, shown,
                 raced>>

\* An interrupt that changes nothing else: that of a key that is released, for
\* which the callback returns at once, or one with another handler.
OtherInterrupt ==
  /\ Interrupted
  /\ UNCHANGED <<shell_prompt_confirmed, buffer, shell_shift_is_held, line, heap,
                 faults, keyboard, prompts, shown, raced>>

Next ==
  \/ Loop
  \/ \E k \in Letters : LetterFits(k) \/ LetterGrows(k) \/ LetterOutOfMemory(k)
  \/ PressShift \/ PressEnter
  \/ OtherInterrupt

\* The processor goes on executing the loop.  Nothing is assumed of interrupts.
Fairness == WF_vars(Loop)

Spec == Init /\ [][Next]_vars /\ Fairness

-----------------------------------------------------------------------------
(***************************************************************************)
(* The only interrupts that break the buffer are those of a letter typed   *)
(* between the loop's copy of the pointer and the end of the reset         *)
(* (shell.c:157-160 against shell.c:117-135): without them no buffer is    *)
(* freed twice, written after it is freed, past its end or through NULL.   *)
(***************************************************************************)
OnlyResetRaces == ~raced => faults = {}

(***************************************************************************)
(* Without such an interrupt no buffer is lost: outside of the reset the   *)
(* one live buffer is the current line (shell.c:127-131 and 143-146).      *)
(***************************************************************************)
NoBufferLeaks ==
  ~raced /\ pc \notin ResetSteps =>
    DOMAIN heap = {shell_current_line} \ {NULL}

(***************************************************************************)
(* Without such an interrupt the line is what the screen shows of it: the  *)
(* characters typed since the latest reset, those typed before the prompt  *)
(* included, however often the buffer grew.                                *)
(***************************************************************************)
LineIsWhatIsShown ==
  ~raced /\ pc \notin ResetSteps \cup {"stopped"} =>
    /\ shell_line_size = Len(shown)
    /\ \A i \in 1 .. shell_line_size : heap[shell_current_line][i - 1] = shown[i]

(***************************************************************************)
(* A prompt is displayed for an Enter only, and several of them may share  *)
(* one (shell.c:157-158).                                                  *)
(***************************************************************************)
NoPromptWithoutEnter == prompts <= enters + 1

(***************************************************************************)
(* Enter is served as long as the processor is not left halted for good.   *)
(* The proviso is needed: the loop does not close the window between its   *)
(* check of the flag and hlt (shell.c:156-157), and an Enter pressed and   *)
(* released in it waits for the next interrupt.  An Enter that comes while *)
(* another one is served, or while the prompt is displayed, is not lost.   *)
(***************************************************************************)
EnterIsServed ==
  []<>(pc # "halted") =>
    (shell_prompt_confirmed ~>
       (pc \in {"load", "unconfirm", "stopped"} \/ faults # {}))
=============================================================================
