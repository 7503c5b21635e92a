----------------------------- MODULE ShellProofs -----------------------------
(***************************************************************************)
(* Proofs about Shell, for any keys, any addresses and any number of       *)
(* presses: the buffer of the line against interrupts between any two      *)
(* steps of the loop, and prompts against Enters.                          *)
(***************************************************************************)
EXTENDS Shell, TLAPS

Chars == [key : Letters, shift : BOOLEAN]

TypesOk ==
  /\ shell_prompt_confirmed \in BOOLEAN
  /\ shell_shift_is_held \in BOOLEAN
  /\ raced \in BOOLEAN
  /\ pc \in {"prompt", "hlt", "halted", "check", "load", "stopped"} \cup ResetSteps
  /\ enters \in Nat
  /\ prompts \in Nat

\* The live buffer is the current line, if there is one, and it has the room that
\* the globals say.
BufferIntact ==
  /\ shell_current_line \in Buffers \cup {NULL}
  /\ DOMAIN heap = {shell_current_line} \ {NULL}
  /\ shell_line_capacity \in Nat
  /\ shell_line_size \in 0 .. shell_line_capacity
  /\ shell_current_line = NULL => shell_line_capacity = 0
  /\ shell_current_line # NULL =>
       /\ DOMAIN heap[shell_current_line] = 0 .. shell_line_capacity - 1

\* The characters in it are those on the screen.
LineIntact ==
  /\ shown \in Seq(Chars)
  /\ Len(shown) = shell_line_size
  /\ \A i \in 1 .. shell_line_size : heap[shell_current_line][i - 1] = shown[i]

\* What the reset has done so far.
ResetOk ==
  /\ pc \in {"unconfirm", "zero_capacity"} =>
       BufferIntact /\ line = shell_current_line
  /\ pc = "zero_size" =>
       /\ DOMAIN heap = {line} \ {NULL}
       /\ shell_line_capacity = 0
  /\ pc = "free" => DOMAIN heap = {line}
  /\ pc \in {"in_kfree", "null"} => DOMAIN heap = {}
  /\ pc \in {"free", "in_kfree", "null"} =>
       shell_line_capacity = 0 /\ shell_line_size = 0

\* As long as no letter was typed during a reset.
BufferOk ==
  ~raced =>
    /\ faults = {}
    /\ pc \notin ResetSteps => BufferIntact
    /\ pc \notin ResetSteps \cup {"stopped"} => LineIntact
    /\ ResetOk

\* The Enters that were served, the one that is being served and the one that waits.
Owed ==
  (IF shell_prompt_confirmed THEN 1 ELSE 0) +
  (IF pc \in ({"prompt"} \cup ResetSteps) \ {"unconfirm"} THEN 1 ELSE 0)

PromptsOk ==
  /\ prompts + Owed <= enters + 1
  /\ pc \in {"load", "unconfirm"} => shell_prompt_confirmed

IInv == TypesOk /\ BufferOk /\ PromptsOk

-----------------------------------------------------------------------------
LEMMA InitEstablishes == Init => IInv
<1> SUFFICES ASSUME Init PROVE IInv
  OBVIOUS
<1>1. TypesOk
  BY DEF Init, TypesOk
<1>2. BufferOk
  <2>1. BufferIntact
    BY DEF Init, BufferIntact
  <2>2. LineIntact
    BY DEF Init, LineIntact
  <2>3. QED BY <2>1, <2>2 DEF Init, BufferOk, ResetOk, ResetSteps
<1>3. PromptsOk
  BY DEF Init, PromptsOk, Owed, ResetSteps
<1>4. QED BY <1>1, <1>2, <1>3 DEF IInv

\* A step of the loop.
LEMMA LoopKeepsTypes == ASSUME IInv, Loop PROVE TypesOk'
<1>1. TypesOk
  BY DEF IInv
<1>2. pc' \in {"prompt", "hlt", "halted", "check", "load", "stopped"} \cup ResetSteps
  BY DEF Loop, At, ResetSteps, DisplayPrompt, WaitForInterrupts, CheckConfirmed, LoadLine,
         ClearConfirmed, ZeroCapacity, ZeroSize, FreeLine, FreeReturns, NullLine
<1>3. /\ shell_prompt_confirmed' = shell_prompt_confirmed \/ shell_prompt_confirmed' = FALSE
      /\ UNCHANGED <<shell_shift_is_held, raced, enters>>
      /\ prompts' = prompts \/ prompts' = prompts + 1
  BY DEF Loop, keyboard, DisplayPrompt, WaitForInterrupts, CheckConfirmed, LoadLine,
         ClearConfirmed, ZeroCapacity, ZeroSize, FreeLine, FreeReturns, NullLine
<1>4. prompts' \in Nat /\ enters' \in Nat
  BY <1>1, <1>3 DEF TypesOk
<1>5. QED BY <1>1, <1>2, <1>3, <1>4 DEF TypesOk

LEMMA LoopKeepsPrompts == ASSUME IInv, Loop PROVE PromptsOk'
<1>1. TypesOk /\ PromptsOk
  BY DEF IInv
<1>2. QED
  BY <1>1
     DEF TypesOk, PromptsOk, Owed, Loop, At, ResetSteps, keyboard, DisplayPrompt,
         WaitForInterrupts, CheckConfirmed, LoadLine, ClearConfirmed, ZeroCapacity,
         ZeroSize, FreeLine, FreeReturns, NullLine

LEMMA LoopKeepsBuffer == ASSUME IInv, Loop PROVE BufferOk'
<1> SUFFICES ASSUME ~raced PROVE BufferOk'
  BY DEF BufferOk, Loop, DisplayPrompt, WaitForInterrupts, CheckConfirmed, LoadLine,
         ClearConfirmed, ZeroCapacity, ZeroSize, FreeLine, FreeReturns, NullLine
<1>1. /\ faults = {}
      /\ pc \notin ResetSteps => BufferIntact
      /\ pc \notin ResetSteps \cup {"stopped"} => LineIntact
      /\ ResetOk
  BY DEF IInv, BufferOk
<1>2. CASE DisplayPrompt \/ WaitForInterrupts \/ CheckConfirmed
  <2>1. UNCHANGED <<buffer, heap, shown, faults>>
    BY <1>2 DEF DisplayPrompt, WaitForInterrupts, CheckConfirmed
  <2>2. BufferIntact' /\ LineIntact'
    BY <1>1, <1>2, <2>1
       DEF DisplayPrompt, WaitForInterrupts, CheckConfirmed, At, ResetSteps, buffer,
           BufferIntact, LineIntact
  <2>3. pc' \notin ResetSteps
    BY <1>2 DEF DisplayPrompt, WaitForInterrupts, CheckConfirmed, At, ResetSteps
  <2>4. QED BY <1>1, <2>1, <2>2, <2>3 DEF BufferOk, ResetOk, ResetSteps
<1>3. CASE LoadLine
  <2>1. BufferIntact' /\ line' = shell_current_line'
    BY <1>1, <1>3 DEF LoadLine, At, ResetSteps, BufferIntact, buffer
  <2>2. QED BY <1>1, <1>3, <2>1 DEF LoadLine, At, BufferOk, ResetOk, ResetSteps
<1>4. CASE ClearConfirmed
  <2>1. BufferIntact' /\ line' = shell_current_line'
    BY <1>1, <1>4 DEF ClearConfirmed, At, ResetOk, BufferIntact, buffer
  <2>2. QED BY <1>1, <1>4, <2>1 DEF ClearConfirmed, At, BufferOk, ResetOk, ResetSteps
<1>5. CASE ZeroCapacity
  BY <1>1, <1>5 DEF ZeroCapacity, At, BufferOk, ResetOk, ResetSteps, BufferIntact
<1>6. CASE ZeroSize
  BY <1>1, <1>6 DEF ZeroSize, At, BufferOk, ResetOk, ResetSteps
<1>7. CASE FreeLine
  <2>1. DOMAIN heap = {line} /\ shell_line_capacity = 0 /\ shell_line_size = 0
    BY <1>1, <1>7 DEF FreeLine, At, ResetOk
  <2>2. DOMAIN heap' = {} /\ faults' = {}
    BY <1>7, <2>1 DEF FreeLine, HeapWithout, FreeFaults
  <2>3. QED BY <1>7, <2>1, <2>2 DEF FreeLine, At, buffer, BufferOk, ResetOk, ResetSteps
<1>8. CASE FreeReturns
  BY <1>1, <1>8 DEF FreeReturns, At, buffer, BufferOk, ResetOk, ResetSteps
<1>9. CASE NullLine
  <2>1. BufferIntact'
    BY <1>1, <1>9 DEF NullLine, At, ResetOk, BufferIntact
  <2>2. LineIntact'
    BY <1>1, <1>9 DEF NullLine, At, ResetOk, LineIntact
  <2>3. QED BY <1>1, <1>9, <2>1, <2>2 DEF NullLine, At, BufferOk, ResetOk, ResetSteps
<1>10. QED
  BY <1>2, <1>3, <1>4, <1>5, <1>6, <1>7, <1>8, <1>9 DEF Loop

-----------------------------------------------------------------------------
\* A key.
LEMMA PressedCounts ==
  ASSUME NEW k, enters \in Nat, Pressed(k)
  PROVE  enters' \in Nat /\ (enters' = enters \/ enters' = enters + 1)
<1>1. QED BY DEF Pressed

LEMMA TypedKeepsTypes ==
  ASSUME IInv, NEW k \in Letters, LetterFits(k) \/ LetterGrows(k) \/ LetterOutOfMemory(k)
  PROVE  TypesOk'
<1>1. TypesOk
  BY DEF IInv
<1>2. pc' \in {pc, "check", "stopped"}
  BY DEF LetterFits, LetterGrows, LetterOutOfMemory, Interrupted
<1>3. /\ TypeLetter(k)
      /\ raced' = (raced \/ pc \in ResetSteps)
      /\ UNCHANGED <<shell_prompt_confirmed, shell_shift_is_held, prompts>>
  BY DEF LetterFits, LetterGrows, LetterOutOfMemory, TypeLetter
<1>4. (raced \/ pc \in ResetSteps) \in BOOLEAN
  OBVIOUS
<1>5. enters' \in Nat
  BY <1>1, <1>3, PressedCounts DEF TypesOk, TypeLetter
<1>6. QED BY <1>1, <1>2, <1>3, <1>4, <1>5 DEF TypesOk

LEMMA TypedKeepsPrompts ==
  ASSUME IInv, NEW k \in Letters, LetterFits(k) \/ LetterGrows(k) \/ LetterOutOfMemory(k)
  PROVE  PromptsOk'
<1>1. TypesOk /\ PromptsOk
  BY DEF IInv
<1>2. pc' = pc \/ (pc = "halted" /\ pc' = "check") \/ pc' = "stopped"
  BY DEF LetterFits, LetterGrows, LetterOutOfMemory, Interrupted
<1>3. UNCHANGED <<shell_prompt_confirmed, prompts>> /\ Pressed(k)
  BY DEF LetterFits, LetterGrows, LetterOutOfMemory, TypeLetter
<1>4. enters' = enters \/ enters' = enters + 1
  BY <1>1, <1>3, PressedCounts DEF TypesOk
<1>5. QED BY <1>1, <1>2, <1>3, <1>4 DEF TypesOk, PromptsOk, Owed, ResetSteps

\* Before a letter that is no race, outside of the reset, everything is intact.
LEMMA BeforeLetter ==
  ASSUME IInv, NEW k \in Letters, TypeLetter(k), ~raced', pc # "stopped"
  PROVE  /\ ~raced /\ pc \notin ResetSteps
         /\ BufferIntact /\ LineIntact
         /\ shown' = Append(shown, [key |-> k, shift |-> shell_shift_is_held])
         /\ shown' \in Seq(Chars) /\ Len(shown') = shell_line_size + 1
         /\ \A i \in 1 .. shell_line_size : shown'[i] = shown[i]
         /\ shown'[shell_line_size + 1] = Last(shown')
         /\ shell_line_size \in Nat /\ shell_line_capacity \in Nat
<1>1. ~raced /\ pc \notin ResetSteps
  BY DEF TypeLetter, IInv, TypesOk
<1>2. BufferIntact /\ LineIntact
  BY <1>1 DEF IInv, BufferOk
<1>3. shown' = Append(shown, [key |-> k, shift |-> shell_shift_is_held])
  BY DEF TypeLetter
<1>4. [key |-> k, shift |-> shell_shift_is_held] \in Chars
  BY DEF Chars, IInv, TypesOk
<1>5. shell_line_size \in Nat /\ shell_line_capacity \in Nat
  BY <1>2 DEF BufferIntact
<1>6. shown' \in Seq(Chars) /\ Len(shown') = Len(shown) + 1
  BY <1>2, <1>3, <1>4 DEF LineIntact
<1>7. \A i \in 1 .. Len(shown) : shown'[i] = shown[i]
  BY <1>2, <1>3, <1>4 DEF LineIntact
<1>8. shown'[Len(shown')] = Last(shown')
  BY DEF Last
<1>9. QED
  BY <1>1, <1>2, <1>3, <1>5, <1>6, <1>7, <1>8 DEF LineIntact

LEMMA FitsKeepsBuffer ==
  ASSUME IInv, NEW k \in Letters, LetterFits(k)
  PROVE  BufferOk'
<1> SUFFICES ASSUME ~raced' PROVE BufferOk'
  BY DEF BufferOk
<1>1. TypeLetter(k) /\ pc # "stopped" /\ ~NeedsRoom
  BY DEF LetterFits, Interrupted
<1>2. /\ ~raced /\ pc \notin ResetSteps /\ BufferIntact /\ LineIntact
      /\ shown' \in Seq(Chars) /\ Len(shown') = shell_line_size + 1
      /\ \A i \in 1 .. shell_line_size : shown'[i] = shown[i]
      /\ shown'[shell_line_size + 1] = Last(shown')
      /\ shell_line_size \in Nat /\ shell_line_capacity \in Nat
  BY <1>1, BeforeLetter
<1>3. /\ shell_line_size + 1 <= shell_line_capacity
      /\ shell_current_line # NULL
      /\ shell_current_line \in DOMAIN heap
      /\ shell_line_size \in DOMAIN heap[shell_current_line]
  BY <1>1, <1>2 DEF NeedsRoom, BufferIntact
<1>4. faults' = {}
  BY <1>3 DEF LetterFits, StoreFaults
<1>5. /\ UNCHANGED <<shell_current_line, shell_line_capacity, line>>
      /\ shell_line_size' = shell_line_size + 1
      /\ heap' = StoreChar(heap, shell_current_line, Last(shown'))
  BY DEF LetterFits, TypeLetter
<1>6. /\ DOMAIN heap' = DOMAIN heap
      /\ heap'[shell_current_line] =
           [i \in DOMAIN heap[shell_current_line] |->
              IF i = shell_line_size THEN Last(shown') ELSE heap[shell_current_line][i]]
  BY <1>3, <1>5 DEF StoreChar
<1>7. BufferIntact'
  BY <1>2, <1>3, <1>5, <1>6 DEF BufferIntact
<1>8. LineIntact'
  <2>1. ASSUME NEW i \in 1 .. shell_line_size + 1
        PROVE  heap'[shell_current_line][i - 1] = shown'[i]
    <3>1. i - 1 \in DOMAIN heap[shell_current_line]
      BY <1>2, <1>3 DEF BufferIntact
    <3>2. CASE i = shell_line_size + 1
      BY <1>2, <1>6, <3>1, <3>2
    <3>3. CASE i # shell_line_size + 1
      <4>1. i \in 1 .. shell_line_size /\ i - 1 # shell_line_size
        BY <1>2, <3>3
      <4>2. heap'[shell_current_line][i - 1] = heap[shell_current_line][i - 1]
        BY <1>6, <3>1, <4>1
      <4>3. QED BY <1>2, <4>1, <4>2 DEF LineIntact
    <3>4. QED BY <3>2, <3>3
  <2>2. QED BY <1>2, <1>5, <2>1 DEF LineIntact
<1>9. pc' \notin ResetSteps
  BY <1>2 DEF LetterFits, Interrupted, ResetSteps
<1>10. QED BY <1>4, <1>7, <1>8, <1>9 DEF BufferOk, ResetOk, ResetSteps

LEMMA GrowsKeepsBuffer ==
  ASSUME IInv, NEW k \in Letters, LetterGrows(k)
  PROVE  BufferOk'
<1> SUFFICES ASSUME ~raced' PROVE BufferOk'
  BY DEF BufferOk
<1>1. TypeLetter(k) /\ pc # "stopped" /\ NeedsRoom
  BY DEF LetterGrows, Interrupted
<1>2. /\ ~raced /\ pc \notin ResetSteps /\ BufferIntact /\ LineIntact
      /\ shown' \in Seq(Chars) /\ Len(shown') = shell_line_size + 1
      /\ \A i \in 1 .. shell_line_size : shown'[i] = shown[i]
      /\ shown'[shell_line_size + 1] = Last(shown')
      /\ shell_line_size \in Nat /\ shell_line_capacity \in Nat
  BY <1>1, BeforeLetter
<1> DEFINE cur == shell_current_line
           cap == NewCapacity
<1>3. shell_line_size = shell_line_capacity
  BY <1>1, <1>2 DEF NeedsRoom, BufferIntact
<1>4. cap \in Nat /\ shell_line_size + 1 <= cap
  BY <1>2, <1>3 DEF NewCapacity
<1> DEFINE freed == IF cur = NULL THEN heap ELSE HeapWithout(heap, cur)
           h(new) == [x \in DOMAIN freed \cup {new} |->
                        IF x = new THEN Copied(cap) ELSE freed[x]]
<1>5. PICK new \in Buffers \ DOMAIN heap :
        /\ faults' = CopyFaults(cap) \cup StoreFaults(h(new), new) \cup
             (IF cur = NULL THEN {} ELSE FreeFaults(heap, cur)) \cup
             (IF pc = "in_kfree" THEN {"heap entered twice"} ELSE {})
        /\ heap' = StoreChar(h(new), new, Last(shown'))
        /\ shell_current_line' = new
  BY DEF LetterGrows
<1>6. new # NULL /\ new \in Buffers
  BY ShellAssumption
<1>7. shell_line_capacity' = cap /\ shell_line_size' = shell_line_size + 1
  BY DEF LetterGrows
<1>8. DOMAIN freed = {}
  BY <1>2 DEF BufferIntact, HeapWithout
<1> HIDE DEF freed
<1>9. DOMAIN h(new) = {new} /\ h(new)[new] = Copied(cap)
  BY <1>8
<1> HIDE DEF h, cap
<1>10. DOMAIN Copied(cap) = 0 .. cap - 1
  BY DEF Copied
<1>11. /\ DOMAIN heap' = {new}
       /\ heap'[new] = [i \in 0 .. cap - 1 |->
            IF i = shell_line_size THEN Last(shown') ELSE Copied(cap)[i]]
  BY <1>5, <1>9, <1>10 DEF StoreChar
<1>12. faults' = {}
  <2>1. CopyFaults(cap) = {}
    <3>1. cur # NULL => cur \in DOMAIN heap
      BY <1>2 DEF BufferIntact
    <3>2. ~(shell_line_size > cap)
      BY <1>2, <1>4
    <3>3. QED BY <3>1, <3>2 DEF CopyFaults
  <2>2. StoreFaults(h(new), new) = {}
    <3>1. shell_line_size \in DOMAIN h(new)[new]
      BY <1>2, <1>4, <1>9, <1>10
    <3>2. QED BY <1>6, <1>9, <3>1 DEF StoreFaults
  <2>3. cur # NULL => FreeFaults(heap, cur) = {}
    BY <1>2 DEF FreeFaults, BufferIntact
  <2>4. pc # "in_kfree"
    BY <1>2 DEF ResetSteps
  <2>5. QED BY <1>5, <2>1, <2>2, <2>3, <2>4
<1>13. BufferIntact'
  <2>1. DOMAIN heap' = {shell_current_line'} \ {NULL}
    BY <1>5, <1>6, <1>11
  <2>2. DOMAIN heap'[shell_current_line'] = 0 .. shell_line_capacity' - 1
    BY <1>5, <1>7, <1>11
  <2>3. shell_line_capacity' \in Nat /\ shell_line_size' \in 0 .. shell_line_capacity'
    BY <1>2, <1>4, <1>7
  <2>4. QED BY <1>5, <1>6, <2>1, <2>2, <2>3 DEF BufferIntact
<1>14. LineIntact'
  <2>1. ASSUME NEW i \in 1 .. shell_line_size + 1
        PROVE  heap'[new][i - 1] = shown'[i]
    <3>1. i - 1 \in 0 .. cap - 1
      BY <1>2, <1>4
    <3>2. CASE i = shell_line_size + 1
      BY <1>2, <1>11, <3>1, <3>2
    <3>3. CASE i # shell_line_size + 1
      <4>1. i \in 1 .. shell_line_size /\ i - 1 # shell_line_size /\ i - 1 < shell_line_size
        BY <1>2, <3>3
      <4>2. cur # NULL /\ cur \in DOMAIN heap /\ i - 1 \in DOMAIN heap[cur]
        BY <1>2, <1>3, <4>1 DEF BufferIntact
      <4>3. Copied(cap)[i - 1] = heap[cur][i - 1]
        BY <3>1, <4>1, <4>2 DEF Copied
      <4>4. heap'[new][i - 1] = heap[cur][i - 1]
        BY <1>11, <3>1, <4>1, <4>3
      <4>5. QED BY <1>2, <4>1, <4>4 DEF LineIntact
    <3>4. QED BY <3>2, <3>3
  <2>2. QED BY <1>2, <1>5, <1>7, <2>1 DEF LineIntact
<1>15. pc' \notin ResetSteps
  BY <1>2 DEF LetterGrows, Interrupted, ResetSteps
<1>16. QED BY <1>12, <1>13, <1>14, <1>15 DEF BufferOk, ResetOk, ResetSteps

LEMMA OutOfMemoryKeepsBuffer ==
  ASSUME IInv, NEW k \in Letters, LetterOutOfMemory(k)
  PROVE  BufferOk'
<1> SUFFICES ASSUME ~raced' PROVE BufferOk'
  BY DEF BufferOk
<1>1. BufferIntact /\ UNCHANGED <<buffer, heap, faults>> /\ faults = {} /\ pc' = "stopped"
  BY BeforeLetter DEF LetterOutOfMemory
<1>2. BufferIntact'
  BY <1>1 DEF BufferIntact, buffer
<1>3. QED BY <1>1, <1>2 DEF BufferOk, ResetOk, ResetSteps

\* Shift, Enter, and interrupts that change nothing.
LEMMA OtherKeysKeep ==
  ASSUME IInv, PressShift \/ PressEnter \/ OtherInterrupt
  PROVE  IInv'
<1>1. TypesOk /\ BufferOk /\ PromptsOk
  BY DEF IInv
<1>2. /\ UNCHANGED <<buffer, line, heap, faults, shown, raced, prompts>>
      /\ pc # "stopped"
      /\ pc' = IF pc = "halted" THEN "check" ELSE pc
  BY DEF PressShift, PressEnter, OtherInterrupt, Interrupted
<1>3. TypesOk'
  <2>1. /\ shell_prompt_confirmed' = shell_prompt_confirmed \/ shell_prompt_confirmed' = TRUE
        /\ shell_shift_is_held' = shell_shift_is_held \/ shell_shift_is_held' = TRUE
        /\ enters' = enters \/ enters' = enters + 1
    BY <1>1 DEF TypesOk, PressShift, PressEnter, OtherInterrupt, Pressed, keyboard
  <2>2. enters' \in Nat /\ UNCHANGED <<raced, prompts>>
    BY <1>1, <1>2, <2>1 DEF TypesOk
  <2>3. pc' \in {pc, "check"}
    BY <1>2
  <2>4. QED BY <1>1, <2>1, <2>2, <2>3 DEF TypesOk
<1>4. BufferOk'
  <2>1. (BufferIntact => BufferIntact') /\ (LineIntact => LineIntact')
    BY <1>2 DEF BufferIntact, LineIntact, buffer
  <2>2. QED BY <1>1, <1>2, <2>1 DEF BufferOk, ResetOk, ResetSteps, buffer
<1>5. PromptsOk'
  <2>1. \/ /\ shell_prompt_confirmed' = shell_prompt_confirmed
           /\ enters' = enters \/ enters' = enters + 1
        \/ shell_prompt_confirmed' = TRUE /\ enters' = enters + 1
    BY <1>1 DEF TypesOk, PressShift, PressEnter, OtherInterrupt, Pressed, keyboard
  <2>2. QED BY <1>1, <1>2, <2>1 DEF TypesOk, PromptsOk, Owed, ResetSteps
<1>6. QED BY <1>3, <1>4, <1>5 DEF IInv

-----------------------------------------------------------------------------
LEMMA StepPreserves == IInv /\ [Next]_vars => IInv'
<1> SUFFICES ASSUME IInv, [Next]_vars PROVE IInv'
  OBVIOUS
<1>1. CASE Loop
  BY <1>1, LoopKeepsTypes, LoopKeepsBuffer, LoopKeepsPrompts DEF IInv
<1>2. ASSUME NEW k \in Letters, LetterFits(k) \/ LetterGrows(k) \/ LetterOutOfMemory(k)
      PROVE  IInv'
  <2>1. BufferOk'
    BY <1>2, FitsKeepsBuffer, GrowsKeepsBuffer, OutOfMemoryKeepsBuffer
  <2>2. QED BY <1>2, <2>1, TypedKeepsTypes, TypedKeepsPrompts DEF IInv
<1>3. CASE PressShift \/ PressEnter \/ OtherInterrupt
  BY <1>3, OtherKeysKeep
<1>4. CASE UNCHANGED vars
  BY <1>4
     DEF vars, buffer, keyboard, IInv, TypesOk, BufferOk, BufferIntact, LineIntact, ResetOk,
         PromptsOk, Owed
<1>5. QED BY <1>1, <1>2, <1>3, <1>4 DEF Next

LEMMA IInvHolds == Spec => []IInv
<1>1. QED BY InitEstablishes, StepPreserves, PTL DEF Spec

(***************************************************************************)
(* Only a letter typed between the loop's copy of the pointer and the end  *)
(* of the reset ever breaks the line buffer: whatever else interrupts the  *)
(* loop, and wherever, no access to it goes wrong (shell.c:117-135,        *)
(* 157-160).                                                               *)
(***************************************************************************)
THEOREM OnlyResetsRace == Spec => []OnlyResetRaces
<1>1. IInv => OnlyResetRaces
  BY DEF IInv, BufferOk, OnlyResetRaces
<1>2. QED BY <1>1, IInvHolds, PTL

(***************************************************************************)
(* Without such a letter, the current line is the only live buffer         *)
(* whenever no reset runs (shell.c:127-131, 143-146).                      *)
(***************************************************************************)
THEOREM NoBufferIsLost == Spec => []NoBufferLeaks
<1>1. IInv => NoBufferLeaks
  BY DEF IInv, BufferOk, BufferIntact, NoBufferLeaks
<1>2. QED BY <1>1, IInvHolds, PTL

(***************************************************************************)
(* Without such a letter, the buffer holds what the screen shows of the    *)
(* line, for lines of any length, across any number of reallocations       *)
(* (shell.c:117-135).                                                      *)
(***************************************************************************)
THEOREM LineIsShown == Spec => []LineIsWhatIsShown
<1>1. IInv => LineIsWhatIsShown
  BY DEF IInv, BufferOk, LineIntact, LineIsWhatIsShown
<1>2. QED BY <1>1, IInvHolds, PTL

(***************************************************************************)
(* A prompt is displayed for an Enter only, races included                 *)
(* (shell.c:157-158).                                                      *)
(***************************************************************************)
THEOREM PromptsAreOwed == Spec => []NoPromptWithoutEnter
<1>1. IInv => NoPromptWithoutEnter
  BY DEF IInv, TypesOk, PromptsOk, Owed, NoPromptWithoutEnter
<1>2. QED BY <1>1, IInvHolds, PTL
=============================================================================
