----------------------------- MODULE Interrupts -----------------------------
(***************************************************************************)
(* Interrupts from a device's line to its driver and back: the two 8259    *)
(* controllers as pic_remap programs them (src/src/interrupts/pic.c), the  *)
(* table of gates and the stubs behind it (idt.c, isr.asm), the drivers'   *)
(* table and the end-of-interrupt commands.                                *)
(*                                                                         *)
(* Lines 0 to 7 end in the master, lines 8 to 15 in the slave, whose       *)
(* output is the master's line 2.  A line is edge-triggered: its rise is   *)
(* latched in irr, and forgotten if it falls before the acknowledge.       *)
(***************************************************************************)
EXTENDS Integers, FiniteSetsExt, SequencesExt

CONSTANTS
  Lines,     (* the lines that devices other than the keyboard drive        *)
  MaxRaises  (* how often they raise one                                    *)

IrqNums == 0 .. 15

ASSUME LinesAssumption == Lines \subseteq IrqNums \ {1, 2} /\ MaxRaises \in Nat

VARIABLES
  asserted,        (* the lines that are high                              *)
  master, slave,   (* the controllers                                      *)
  idt_entries,     (* the gates: vector -> what its stub calls             *)
  idt_irq_drivers, (* number of an interrupt -> its driver                 *)
  enabled,         (* the processor's interrupt flag                       *)
  cpu,             (* where the processor is; "kernel" outside interrupts  *)
  asked,           (* the lines that rose, since their controller was      *)
                   (* initialised, and whose driver has not run            *)
  raises           (* how often Lines may still rise                       *)

intrVars ==
  <<asserted, master, slave, idt_entries, idt_irq_drivers, enabled, cpu,
    asked, raises>>

-----------------------------------------------------------------------------
(***************************************************************************)
(* The 8259                                                                *)
(***************************************************************************)

\* The word of the initialisation a controller waits for, 0 for none, and what it
\* was told: its first vector, its place in the cascade, its mask.
Controller ==
  [word : {0, 2, 3, 4}, offset : 0 .. 255, cascade : 0 .. 255,
   imr : SUBSET (0 .. 7), irr : SUBSET (0 .. 7), isr : SUBSET (0 .. 7)]

\* As the firmware and the boot loader leave it: every line masked.
Firmware(offset, cascade) ==
  [word |-> 0, offset |-> offset, cascade |-> cascade,
   imr |-> 0 .. 7, irr |-> {}, isr |-> {}]

BitsOf(byte) == {b \in 0 .. 7 : (byte \div 2^b) % 2 = 1}

\* The requests a controller would pass on: more urgent than all it has in service.
Pending(c) == {r \in c.irr \ c.imr : \A s \in c.isr : r < s}

Output(c) == c.word = 0 /\ Pending(c) # {}

\* The master when the slave's output changes from that of s to that of t.
Cascaded(m, s, t) ==
  CASE Output(t) /\ ~Output(s) -> [m EXCEPT !.irr = @ \cup {2}]
    [] Output(s) /\ ~Output(t) -> [m EXCEPT !.irr = @ \ {2}]
    [] OTHER -> m

SetMaster(m) == master' = m /\ slave' = slave
SetSlave(t) == slave' = t /\ master' = Cascaded(master, slave, t)

\* A byte written to the command port: the first initialisation word, or a
\* non-specific end of interrupt.
OnCommand(c, byte) ==
  IF 4 \in BitsOf(byte)
  THEN [c EXCEPT !.word = 2, !.imr = {}, !.irr = {}, !.isr = {}]
  ELSE [c EXCEPT !.isr = IF @ = {} THEN {} ELSE @ \ {Min(@)}]

\* A byte written to the data port: the next initialisation word, or the mask.
OnData(c, byte) ==
  CASE c.word = 2 -> [c EXCEPT !.word = 3, !.offset = byte - (byte % 8)]
    [] c.word = 3 -> [c EXCEPT !.word = 4, !.cascade = byte]
    [] c.word = 4 -> [c EXCEPT !.word = 0]
    [] c.word = 0 -> [c EXCEPT !.imr = BitsOf(byte)]

Unlatched(c, r) == [c EXCEPT !.irr = @ \ {r}]
Latched(c, r) == [c EXCEPT !.irr = @ \cup {r}]

IsLatched(n) == IF n < 8 THEN n \in master.irr ELSE n - 8 \in slave.irr
IsInService(n) == IF n < 8 THEN n \in master.isr ELSE n - 8 \in slave.isr

\* The controllers when line n rises, and when it falls.
LineRises(n) ==
  IF n < 8 THEN SetMaster(Latched(master, n)) ELSE SetSlave(Latched(slave, n - 8))
LineFalls(n) ==
  IF n < 8 THEN SetMaster(Unlatched(master, n)) ELSE SetSlave(Unlatched(slave, n - 8))

RaiseLine(n) ==
  /\ n \notin asserted
  /\ asserted' = asserted \cup {n}
  /\ LineRises(n)
  /\ asked' = asked \cup {n}
  /\ UNCHANGED <<idt_entries, idt_irq_drivers, enabled, cpu>>

\* A device raises its line, or drops it by itself.
Raise(n) ==
  /\ raises > 0
  /\ raises' = raises - 1
  /\ RaiseLine(n)

Drop(n) ==
  /\ n \in asserted
  /\ asserted' = asserted \ {n}
  /\ LineFalls(n)
  /\ asked' = IF IsInService(n) THEN asked ELSE asked \ {n}
  /\ UNCHANGED <<idt_entries, idt_irq_drivers, enabled, cpu, raises>>

-----------------------------------------------------------------------------
(***************************************************************************)
(* idt_init, pic_init, idt_install_irq_driver, enable_interrupts, stop:    *)
(* called by kmain and by the drivers' initialisations                     *)
(***************************************************************************)

ExceptionStub(n) == [calls |-> "idt_exception_handler", num |-> n]
IrqStub(n) == [calls |-> "idt_irq_handler", num |-> n]

\* isr_stub_table: 32 stubs of exceptions, then 16 of interrupts.
isr_stub_table ==
  [v \in 0 .. 47 |-> IF v < 32 THEN ExceptionStub(v) ELSE IrqStub(v - 32)]

IdtInit ==
  /\ idt_entries' = isr_stub_table
  /\ UNCHANGED <<asserted, master, slave, idt_irq_drivers, enabled, cpu, asked, raises>>

\* Mutated: the two offsets are exchanged.
RemapWritesSwapped(master_offset, slave_offset) ==
  << <<"master command", 17>>, <<"slave command", 17>>,
     <<"master data", slave_offset>>, <<"slave data", master_offset>>,
     <<"master data", 4>>, <<"slave data", 2>>,
     <<"master data", 1>>, <<"slave data", 1>>,
     <<"master data", 0>>, <<"slave data", 0>> >>

\* Mutated: the masks of the firmware are restored.
RemapWritesKeepMasks(master_offset, slave_offset) ==
  << <<"master command", 17>>, <<"slave command", 17>>,
     <<"master data", master_offset>>, <<"slave data", slave_offset>>,
     <<"master data", 4>>, <<"slave data", 2>>,
     <<"master data", 1>>, <<"slave data", 1>>,
     <<"master data", 255>>, <<"slave data", 255>> >>

\* The ports pic_remap writes, in order, the waits left out.
RemapWrites(master_offset, slave_offset) ==
  << <<"master command", 17>>, <<"slave command", 17>>,
     <<"master data", master_offset>>, <<"slave data", slave_offset>>,
     <<"master data", 4>>, <<"slave data", 2>>,
     <<"master data", 1>>, <<"slave data", 1>>,
     <<"master data", 0>>, <<"slave data", 0>> >>

PicInitWrites == RemapWrites(32, 40)

\* One write of pic_init.
PicWrite(write) ==
  /\ CASE write[1] = "master command" -> SetMaster(OnCommand(master, write[2]))
       [] write[1] = "master data"    -> SetMaster(OnData(master, write[2]))
       [] write[1] = "slave command"  -> SetSlave(OnCommand(slave, write[2]))
       [] write[1] = "slave data"     -> SetSlave(OnData(slave, write[2]))
  /\ asked' = CASE write = <<"master command", 17>> -> asked \ (0 .. 7)
                [] write = <<"slave command", 17>>  -> asked \ (8 .. 15)
                [] OTHER -> asked
  /\ UNCHANGED <<asserted, idt_entries, idt_irq_drivers, enabled, cpu, raises>>

InstallIrqDriver(n, driver) ==
  /\ idt_irq_drivers' = [idt_irq_drivers EXCEPT ![n] = driver]
  /\ UNCHANGED <<asserted, master, slave, idt_entries, enabled, cpu, asked, raises>>

EnableInterrupts ==
  /\ enabled' = TRUE
  /\ UNCHANGED <<asserted, master, slave, idt_entries, idt_irq_drivers, cpu, asked, raises>>

\* cli, then hlt for ever.
Stop ==
  /\ enabled' = FALSE
  /\ cpu' = [at |-> "stopped", num |-> 0]
  /\ UNCHANGED <<asserted, master, slave, idt_entries, idt_irq_drivers, asked, raises>>

-----------------------------------------------------------------------------
(***************************************************************************)
(* An interrupt, from the processor's decision to take it to iretq         *)
(***************************************************************************)

InKernel == cpu.at = "kernel"

\* Between two instructions, with interrupts on.  The gates are interrupt gates:
\* the flag stays clear until iretq.
Accept ==
  /\ InKernel
  /\ enabled
  /\ Output(master)
  /\ enabled' = FALSE
  /\ cpu' = [at |-> "acknowledge", num |-> 0]
  /\ UNCHANGED <<asserted, master, slave, idt_entries, idt_irq_drivers, asked, raises>>

\* The stub behind a gate; without a gate, the processor resets.
Dispatched(vector) ==
  IF vector \in DOMAIN idt_entries
  THEN [at |-> idt_entries[vector].calls, num |-> idt_entries[vector].num]
  ELSE [at |-> "reset", num |-> 0]

\* What a controller does when it is acknowledged: the most urgent request goes into
\* service.  If there is none left, it answers with its last vector.
InService(c, r) == [c EXCEPT !.irr = @ \ {r}, !.isr = @ \cup {r}]

AckMaster ==
  /\ cpu.at = "acknowledge"
  /\ IF Pending(master) = {}
     THEN /\ cpu' = Dispatched(master.offset + 7)
          /\ SetMaster(master)
     ELSE LET r == Min(Pending(master))
          IN  /\ cpu' = IF r \in BitsOf(master.cascade)
                        THEN [at |-> "cascade", num |-> r]
                        ELSE Dispatched(master.offset + r)
              /\ SetMaster(InService(master, r))
  /\ UNCHANGED <<asserted, idt_entries, idt_irq_drivers, enabled, asked, raises>>

\* The slave recognises its number and answers.
AckSlave ==
  /\ cpu.at = "cascade"
  /\ cpu.num = slave.cascade
  /\ IF Pending(slave) = {}
     THEN /\ cpu' = Dispatched(slave.offset + 7)
          /\ SetSlave(slave)
     ELSE LET r == Min(Pending(slave))
          IN  /\ cpu' = Dispatched(slave.offset + r)
              /\ SetSlave(InService(slave, r))
  /\ UNCHANGED <<asserted, idt_entries, idt_irq_drivers, enabled, asked, raises>>

\* idt_exception_handler prints and stops.
ExceptionStops ==
  /\ cpu.at = "idt_exception_handler"
  /\ Stop

\* idt_irq_handler calls the driver of the interrupt ...
CallsDriver(driver) ==
  /\ cpu.at = "idt_irq_handler"
  /\ idt_irq_drivers[cpu.num] = driver
  /\ asked' = IF IsLatched(cpu.num) THEN asked ELSE asked \ {cpu.num}

DriverReturned == [cpu EXCEPT !.at = "pic_send_eoi"]

\* ... and sends the end of interrupt, to the slave first if it is its line.
\* Mutated: line 8 is taken for one of the master's.
ConcernsSlaveLate(irq) == irq > 8
ConcernsSlave(irq) == irq >= 8

SlaveEoi ==
  /\ cpu.at = "pic_send_eoi"
  /\ ConcernsSlave(cpu.num)
  /\ SetSlave(OnCommand(slave, 32))
  /\ cpu' = [cpu EXCEPT !.at = "master_eoi"]
  /\ UNCHANGED <<asserted, idt_entries, idt_irq_drivers, enabled, asked, raises>>

\* The end of interrupt of the master and the return to the kernel's code.
MasterEoi ==
  /\ cpu.at = IF ConcernsSlave(cpu.num) THEN "master_eoi" ELSE "pic_send_eoi"
  /\ SetMaster(OnCommand(master, 32))
  /\ cpu' = [at |-> "kernel", num |-> 0]
  /\ enabled' = TRUE
  /\ UNCHANGED <<asserted, idt_entries, idt_irq_drivers, asked, raises>>

\* A driver that touches no device: idt_default_irq_handler, disk_irq_handler.
OtherDriver ==
  /\ \E driver \in {"idt_default_irq_handler", "disk_irq_handler"} : CallsDriver(driver)
  /\ cpu' = DriverReturned
  /\ UNCHANGED <<asserted, master, slave, idt_entries, idt_irq_drivers, enabled, raises>>

\* A machine check or an NMI.
Nmi ==
  /\ InKernel
  /\ enabled
  /\ cpu' = Dispatched(2)
  /\ enabled' = FALSE
  /\ UNCHANGED <<asserted, master, slave, idt_entries, idt_irq_drivers, asked, raises>>

DeviceStep == \E n \in Lines : Raise(n) \/ Drop(n)
InterruptStep ==
  \/ Accept \/ AckMaster \/ AckSlave \/ OtherDriver
  \/ SlaveEoi \/ MasterEoi

InterruptsInit ==
  /\ asserted = {}
  /\ master = Firmware(8, 4)
  /\ slave = Firmware(112, 2)
  /\ idt_entries = <<>>
  /\ idt_irq_drivers = [n \in IrqNums |-> "idt_default_irq_handler"]
  /\ enabled = FALSE
  /\ cpu = [at |-> "kernel", num |-> 0]
  /\ asked = {}
  /\ raises = MaxRaises
=============================================================================
