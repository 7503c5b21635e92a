------------------------------- MODULE Kernel -------------------------------
(***************************************************************************)
(* The kernel from kmain to the shell's prompt: the initialisations of     *)
(* src/src/kernel/kmain.c in their order, each of them a component's, with *)
(* interrupts on from the fourth step, and the shell that prints its       *)
(* prompt while the keyboard's interrupt prints what is typed.             *)
(*                                                                         *)
(* The code of the kernel takes its steps when no interrupt is being       *)
(* handled.  The initialisations of the page frames, the heap and the disk *)
(* are modules PageFrames, Heap and Disk; here they succeed or fail, or    *)
(* the disk's never return.  The line buffer of the shell is module Shell. *)
(***************************************************************************)
EXTENDS KeyboardInit, Screen, Gpt

CONSTANTS
  Info, Fatal,  (* the messages                                             *)
  Prompt,       (* the characters of the prompt                             *)
  Letter        (* the character of a key                                   *)

ASSUME MessageAssumption ==
  /\ {Info, Fatal, Prompt} \subseteq Seq(DOMAIN font8x8_buff \cup {NL})
  /\ Letter \in DOMAIN font8x8_buff

VARIABLES
  stage,                  (* where kmain is                                 *)
  pic_writes,             (* what pic_init has yet to write                 *)
  keyboard_callback,      (* whether the shell has installed its callback   *)
  shell_prompt_confirmed

kernelVars == <<stage, pic_writes, keyboard_callback, shell_prompt_confirmed>>
vars == <<intrVars, kbdVars, screenVars, gpt, kernelVars>>

\* A bound: where the exception comes that the machine may raise.
NmiStage == "hlt"

\* A bound: where the devices other than the keyboard raise and drop their lines, from
\* the first instruction to the end of keyboard_init.
LineStages == {"idt", "pic", "sti", "keyboard"}

KernelAt(s) == InKernel /\ stage = s
Stopped == cpu.at = "stopped"

\* kmain reports and goes on to stage s.
Reports(s) ==
  /\ PrintAtOnce(Info)
  /\ stage' = s
  /\ UNCHANGED <<kbdVars, gpt, keyboard_callback, shell_prompt_confirmed>>

\* kmain prints a fatal error and stops.
Fails ==
  /\ PrintAtOnce(Fatal)
  /\ Stop
  /\ stage' = "stopped"
  /\ UNCHANGED <<kbdVars, pic_writes, keyboard_callback, shell_prompt_confirmed>>

-----------------------------------------------------------------------------
InitIdt ==
  /\ KernelAt("idt")
  /\ IdtInit
  /\ Reports("pic")
  /\ UNCHANGED pic_writes

InitPic ==
  /\ KernelAt("pic")
  /\ PicWrite(Head(pic_writes))
  /\ pic_writes' = Tail(pic_writes)
  /\ IF Len(pic_writes) = 1 THEN Reports("sti")
     ELSE UNCHANGED <<kbdVars, screenVars, gpt, stage, keyboard_callback,
                      shell_prompt_confirmed>>

EnablesInterrupts ==
  /\ KernelAt("sti")
  /\ EnableInterrupts
  /\ Reports("keyboard")
  /\ UNCHANGED pic_writes

InitKeyboard ==
  /\ KernelAt("keyboard")
  /\ KeyboardInitStep
  /\ UNCHANGED <<screenVars, gpt, kernelVars>>

\* Bounds and history of what is over are forgotten.
KeyboardIsInitialised ==
  /\ KernelAt("keyboard")
  /\ kinit.at = "done"
  /\ stage' = "paging"
  /\ late' = FALSE
  /\ raises' = 0
  /\ kbd' = IF InputFull THEN kbd ELSE [kbd EXCEPT !.resends = 0]
  /\ UNCHANGED <<asserted, master, slave, idt_entries, idt_irq_drivers, enabled, cpu,
                 asked, kbc, kinit, screenVars, gpt, pic_writes, keyboard_callback,
                 shell_prompt_confirmed>>

KeyboardFails ==
  /\ KernelAt("keyboard")
  /\ kinit.at = "failed"
  /\ Fails
  /\ UNCHANGED gpt

\* paging_init_frame_allocator, kalloc_init and disk_init return 0 ...
InitMemory ==
  /\ \/ KernelAt("paging") /\ Reports("kalloc")
     \/ KernelAt("kalloc") /\ Reports("disk")
  /\ UNCHANGED <<intrVars, pic_writes>>

InitDisk ==
  /\ KernelAt("disk")
  /\ InstallIrqDriver(14, "disk_irq_handler")
  /\ Reports("gpt")
  /\ UNCHANGED pic_writes

\* ... or an error.
InitFails ==
  /\ \E s \in {"paging", "kalloc", "disk"} : KernelAt(s)
  /\ Fails
  /\ UNCHANGED gpt

\* Or a loop of disk_init, or of the disk_read of gpt_init, waits for a status that
\* never comes.
DiskPollsForever ==
  /\ \E s \in {"disk", "gpt"} : KernelAt(s)
  /\ stage' = "polling"
  /\ UNCHANGED <<intrVars, kbdVars, screenVars, gpt, pic_writes, keyboard_callback,
                 shell_prompt_confirmed>>

GptIsInitialised ==
  /\ KernelAt("gpt")
  /\ GptInit
  /\ gpt'.ret = 0
  /\ PrintAtOnce(Info)
  /\ stage' = "shell"
  /\ UNCHANGED <<intrVars, kbdVars, pic_writes, keyboard_callback,
                 shell_prompt_confirmed>>

GptFails ==
  /\ KernelAt("gpt")
  /\ GptInit
  /\ gpt'.ret # 0
  /\ Fails

-----------------------------------------------------------------------------
(***************************************************************************)
(* shell_init                                                              *)
(***************************************************************************)

InitShell ==
  /\ KernelAt("shell")
  /\ keyboard_callback' = TRUE
  /\ StartPrint(Prompt)
  /\ stage' = "prompt"
  /\ UNCHANGED <<intrVars, kbdVars, gpt, pic_writes, shell_prompt_confirmed>>

PrintPrompt ==
  /\ KernelAt("prompt")
  /\ PrintStep
  /\ UNCHANGED <<intrVars, kbdVars, gpt, kernelVars>>

PromptIsPrinted ==
  /\ KernelAt("prompt")
  /\ ~Printing
  /\ stage' = "hlt"
  /\ UNCHANGED <<intrVars, kbdVars, screenVars, gpt, pic_writes, keyboard_callback,
                 shell_prompt_confirmed>>

\* hlt is over, and Enter was pressed.
PromptAgain ==
  /\ KernelAt("hlt")
  /\ shell_prompt_confirmed
  /\ shell_prompt_confirmed' = FALSE
  /\ StartPrint(Prompt)
  /\ stage' = "prompt"
  /\ UNCHANGED <<intrVars, kbdVars, gpt, pic_writes, keyboard_callback>>

KernelStep ==
  \/ InitIdt \/ InitPic \/ EnablesInterrupts \/ InitKeyboard \/ KeyboardIsInitialised
  \/ KeyboardFails \/ InitMemory \/ InitDisk \/ InitFails \/ DiskPollsForever
  \/ GptIsInitialised \/ GptFails \/ InitShell \/ PrintPrompt \/ PromptIsPrinted
  \/ PromptAgain

-----------------------------------------------------------------------------
(***************************************************************************)
(* Interrupts                                                              *)
(***************************************************************************)

\* What is read is not a key, or nobody is told of it.
KeyIsIgnored ==
  /\ KeyboardIrq
  /\ kbc.data # "KEY" \/ ~keyboard_callback
  /\ UNCHANGED <<screenVars, gpt, kernelVars>>

LetterIsTyped ==
  /\ KeyboardIrq
  /\ kbc.data = "KEY" /\ keyboard_callback
  /\ Echo(Letter)
  /\ UNCHANGED <<gpt, kernelVars>>

EnterIsTyped ==
  /\ KeyboardIrq
  /\ kbc.data = "KEY" /\ keyboard_callback
  /\ shell_prompt_confirmed' = TRUE
  /\ UNCHANGED <<screenVars, gpt, stage, pic_writes, keyboard_callback>>

Interrupted ==
  \/ KeyIsIgnored \/ LetterIsTyped \/ EnterIsTyped
  \/ /\ InterruptStep
     /\ UNCHANGED <<kbdVars, screenVars, gpt, kernelVars>>
  \/ /\ ExceptionStops
     /\ PrintAtOnce(Fatal)
     /\ UNCHANGED <<kbdVars, gpt, kernelVars>>

\* The machine around the kernel; once it has stopped, nobody looks.
KeyboardWorks ==
  /\ ~Stopped
  /\ KeyboardObeys \/ KeyboardAsksAgain \/ KeyboardSends
  /\ UNCHANGED <<screenVars, gpt, kernelVars>>

Environment ==
  /\ ~Stopped
  /\ \/ PressKey
     \/ stage \in LineStages /\ DeviceStep /\ UNCHANGED kbdVars
     \/ KernelAt(NmiStage) /\ Nmi /\ UNCHANGED kbdVars
  /\ UNCHANGED <<screenVars, gpt, kernelVars>>

Init ==
  /\ InterruptsInit
  /\ KeyboardInitInit
  /\ ScreenInit
  /\ gpt = GptStart
  /\ stage = "idt"
  /\ pic_writes = PicInitWrites
  /\ keyboard_callback = FALSE
  /\ shell_prompt_confirmed = FALSE

Next == KernelStep \/ Interrupted \/ KeyboardWorks \/ Environment

\* The processor goes on, and so does the keyboard; nobody has to press a key.
Fairness == WF_vars(KernelStep) /\ WF_vars(Interrupted) /\ WF_vars(KeyboardWorks)

Spec == Init /\ [][Next]_vars /\ Fairness

-----------------------------------------------------------------------------
(***************************************************************************)
(* The driver that is called is that of a device which asked, or a         *)
(* controller has answered without a request, as it does when a line drops *)
(* in time; and there is a gate for every vector (pic.c:47 with            *)
(* idt.c:77-85 and the order of isr_stub_table).                           *)
(***************************************************************************)
DriverWasAskedFor ==
  /\ cpu.at = "idt_irq_handler" => cpu.num \in asked \cup {7, 15}
  /\ cpu.at # "reset"

(***************************************************************************)
(* The end of interrupt that idt_irq_handler sends clears its own line and *)
(* no other's, also for an interrupt nobody had asked for: whenever the    *)
(* kernel's code runs, no line is in service, and while a handler runs, at *)
(* most its own is (pic.c:49-52, idt.c:72-75).                             *)
(***************************************************************************)
NothingLeftInService ==
  /\ InKernel => master.isr = {} /\ slave.isr = {}
  /\ cpu.at = "idt_irq_handler" =>
       /\ master.isr \subseteq {IF cpu.num < 8 THEN cpu.num ELSE 2}
       /\ slave.isr \subseteq {cpu.num - 8}

(***************************************************************************)
(* A device that raises its line is served, by its driver, unless it drops *)
(* the line again or the kernel stops.                                     *)
(***************************************************************************)
RequestsAreServed ==
  \A n \in Lines : n \in asked ~> n \notin asked \/ Stopped

(***************************************************************************)
(* When keyboard_init returns 0 and no answer came too late, the keyboard  *)
(* sends what is typed, in scan code set 2, untranslated, with its         *)
(* interrupt (keyboard.c:31-95, 580-607).                                  *)
(***************************************************************************)
InitMeansReady ==
  KernelAt("keyboard") /\ kinit.at = "done" /\ ~late =>
    /\ kbd.scanning /\ kbd.set = 2
    /\ kbc.interrupts /\ ~kbc.translation

(***************************************************************************)
(* After keyboard_init, a byte in the output buffer is always one whose    *)
(* interrupt is still to come: an edge-triggered line that stays high with *)
(* nobody to read the byte would silence the keyboard for good, late       *)
(* answers and bytes from before the driver included (keyboard.c:580-605). *)
(***************************************************************************)
KeyboardStaysAlive ==
  kinit.at = "done" /\ kbc.full =>
    1 \in master.irr \/ cpu = [at |-> "idt_irq_handler", num |-> 1]

(***************************************************************************)
(* The boot reaches the prompt or stops with a fatal error, or the disk    *)
(* keeps one of its polling loops going, as it can (disk.c:67, 75, 89 and  *)
(* 110-120).  The loops of keyboard_init all end, whatever the keyboard    *)
(* answers and whenever, and no interrupt holds the kernel up for good     *)
(* (kmain.c:29-92).                                                        *)
(***************************************************************************)
BootEnds == <>(stage \in {"prompt", "hlt", "polling"} \/ Stopped)
=============================================================================
