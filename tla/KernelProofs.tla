---------------------------- MODULE KernelProofs ----------------------------
(***************************************************************************)
(* Proofs about Kernel, for any lines and requests of the devices, any     *)
(* number of tries, repeats and keys, and every interleaving of kmain, the *)
(* interrupts, the keyboard and the devices: what the controllers have in  *)
(* service and have latched follows where the processor is; and what       *)
(* keyboard_init has been told follows where it is, unless an answer came  *)
(* too late.  What the screen shows and what gpt_init accepts is in        *)
(* KernelDataProofs.                                                       *)
(***************************************************************************)
EXTENDS Kernel, TLAPS

(***************************************************************************)
(* The inductive invariant of the interrupts                               *)
(***************************************************************************)

Drivers == {"idt_default_irq_handler", "keyboard_irq_handler", "disk_irq_handler"}
Places ==
  {"kernel", "acknowledge", "cascade", "idt_irq_handler", "pic_send_eoi", "master_eoi",
   "idt_exception_handler", "stopped"}
Ports == {"master command", "master data", "slave command", "slave data"}
Stages ==
  {"idt", "pic", "sti", "keyboard", "paging", "kalloc", "disk", "gpt", "shell", "prompt",
   "hlt", "polling", "stopped"}

IntrTypesOk ==
  /\ asserted \subseteq IrqNums /\ asked \subseteq IrqNums
  /\ master \in Controller /\ slave \in Controller
  /\ idt_irq_drivers \in [IrqNums -> Drivers]
  /\ enabled \in BOOLEAN
  /\ cpu \in [at : Places, num : 0 .. 31]
  /\ stage \in Stages
  /\ pic_writes \in Seq(Ports \X (0 .. 255))

\* The words of the initialisation that the controllers wait for after k writes of
\* pic_init.
MasterWords == <<0, 2, 2, 3, 3, 4, 4, 0, 0, 0, 0>>
SlaveWords == <<0, 0, 2, 2, 3, 3, 4, 4, 0, 0, 0>>

Programmed(k) ==
  /\ master.word = MasterWords[k + 1] /\ slave.word = SlaveWords[k + 1]
  /\ k >= 3 => master.offset = 32
  /\ k >= 4 => slave.offset = 40
  /\ k >= 5 => master.cascade = 4
  /\ k >= 6 => slave.cascade = 2

PicAfter(k) ==
  /\ Len(pic_writes) = 10 - k
  /\ \A i \in 1 .. 10 - k : pic_writes[i] = PicInitWrites[i + k]
  /\ Programmed(k)

\* No interrupt is taken before the controllers and the gates are ready.
BootOk ==
  /\ \E k \in 0 .. 10 :
       /\ PicAfter(k)
       /\ stage = "idt" => k = 0
       /\ stage = "pic" => k < 10
       /\ stage \notin {"idt", "pic"} => k = 10
  /\ stage # "idt" => idt_entries = isr_stub_table
  /\ stage \in {"idt", "pic", "sti"} => ~enabled /\ cpu.at = "kernel"

CpuOk ==
  /\ enabled => cpu.at = "kernel"
  /\ cpu.at = "cascade" => cpu.num = 2
  /\ cpu.at \in {"idt_irq_handler", "pic_send_eoi", "master_eoi"} => cpu.num \in IrqNums
  /\ cpu.at = "master_eoi" => cpu.num >= 8

\* What is in service, by where the processor is.
ServiceOk ==
  /\ cpu.at \in {"kernel", "acknowledge"} => master.isr = {} /\ slave.isr = {}
  /\ cpu.at = "cascade" => master.isr \subseteq {2} /\ slave.isr = {}
  /\ cpu.at \in {"idt_irq_handler", "pic_send_eoi"} =>
       /\ master.isr \subseteq {IF cpu.num < 8 THEN cpu.num ELSE 2}
       /\ slave.isr \subseteq {cpu.num - 8}
  /\ cpu.at = "master_eoi" => master.isr \subseteq {2} /\ slave.isr = {}

\* Nothing is latched that nobody asked for, and what a driver was called for is in
\* service, so that a device that drops its line now is remembered.
AskedOk ==
  /\ \A n \in 0 .. 7 : n \in master.irr => n = 2 \/ n \in asked
  /\ \A n \in 0 .. 7 : n \in slave.irr => n + 8 \in asked
  /\ cpu.at = "idt_irq_handler" =>
       cpu.num \in {7, 15} \/ (IsInService(cpu.num) /\ cpu.num \in asked)

IntrInv == IntrTypesOk /\ BootOk /\ CpuOk /\ ServiceOk /\ AskedOk

-----------------------------------------------------------------------------
(***************************************************************************)
(* Bits of a byte, and the least of a set of lines                         *)
(***************************************************************************)

LEMMA Powers ==
  /\ 2^0 = 1 /\ 2^1 = 2 /\ 2^2 = 4 /\ 2^3 = 8
  /\ 2^4 = 16 /\ 2^5 = 32 /\ 2^6 = 64 /\ 2^7 = 128
  OBVIOUS

\* Bit 4 tells the first word of an initialisation from an end of interrupt.
LEMMA CommandBits == 4 \in BitsOf(17) /\ 4 \notin BitsOf(32)
<1>1. 4 \in BitsOf(17)
  BY Powers DEF BitsOf
<1>2. 4 \notin BitsOf(32)
  BY Powers DEF BitsOf
<1> QED BY <1>1, <1>2

\* The cascade word of the master names line 2 and no other.
LEMMA CascadeBits == \A b \in 0 .. 7 : b \in BitsOf(4) <=> b = 2
<1>1. \A b \in 0 .. 7 : b \in BitsOf(4) <=> (4 \div 2^b) % 2 = 1
  BY DEF BitsOf
<1>2. /\ 4 \div 1 = 4 /\ 4 \div 2 = 2 /\ 4 \div 4 = 1 /\ 4 \div 8 = 0 /\ 4 \div 16 = 0
      /\ 4 \div 32 = 0 /\ 4 \div 64 = 0 /\ 4 \div 128 = 0
      /\ 4 % 2 = 0 /\ 2 % 2 = 0 /\ 1 % 2 = 1 /\ 0 % 2 = 0
  OBVIOUS
<1>3. /\ 0 \notin BitsOf(4) /\ 1 \notin BitsOf(4) /\ 2 \in BitsOf(4) /\ 3 \notin BitsOf(4)
      /\ 4 \notin BitsOf(4) /\ 5 \notin BitsOf(4) /\ 6 \notin BitsOf(4) /\ 7 \notin BitsOf(4)
  BY <1>1, <1>2, Powers
<1> QED
  <2> SUFFICES ASSUME NEW b \in 0 .. 7 PROVE b \in BitsOf(4) <=> b = 2
    OBVIOUS
  <2>1. b \in {0, 1, 2, 3, 4, 5, 6, 7}
    OBVIOUS
  <2> QED BY <2>1, <1>3

LEMMA LeastLine ==
  ASSUME NEW S \in SUBSET (0 .. 7), S # {}
  PROVE  Min(S) \in S
<1>1. \E x \in S : \A y \in S : x <= y
  <2> DEFINE Free(k) == \A y \in S : y >= k
             Least == \E x \in S : \A y \in S : x <= y
  <2>1. /\ Free(0)
        /\ ~Free(8)
    <3>1. PICK x \in S : TRUE
      OBVIOUS
    <3> QED BY <3>1
  <2>2. ASSUME NEW k \in 0 .. 7, Free(k), ~Least
        PROVE  Free(k + 1)
    <3>1. k \notin S
      BY <2>2
    <3> QED BY <2>2, <3>1
  <2> HIDE DEF Free, Least
  <2>3. ~Least => Free(1) /\ Free(2) /\ Free(3) /\ Free(4)
    BY <2>1, <2>2
  <2>4. ~Least => Free(5) /\ Free(6) /\ Free(7) /\ Free(8)
    BY <2>2, <2>3
  <2> QED BY <2>1, <2>4 DEF Least
<1> QED BY <1>1 DEF Min

LEMMA TheLeastIsAll ==
  ASSUME NEW n, NEW S \in SUBSET (0 .. 7), S \subseteq {n}, S # {}
  PROVE  S \ {Min(S)} = {}
  BY LeastLine

-----------------------------------------------------------------------------
(***************************************************************************)
(* What the operations of a controller leave alone                         *)
(***************************************************************************)

SameProgram(c, d) ==
  d \in Controller /\ d.word = c.word /\ d.offset = c.offset /\ d.cascade = c.cascade
SameService(c, d) == SameProgram(c, d) /\ d.isr = c.isr

LEMMA CascadedFacts ==
  ASSUME NEW m \in Controller, NEW s, NEW t
  PROVE  /\ SameService(m, Cascaded(m, s, t))
         /\ \A i \in 0 .. 7 : i # 2 => (i \in Cascaded(m, s, t).irr <=> i \in m.irr)
  BY DEF Cascaded, SameService, SameProgram, Controller

LEMMA LatchFacts ==
  ASSUME NEW c \in Controller, NEW r \in 0 .. 7
  PROVE  /\ SameService(c, Latched(c, r)) /\ Latched(c, r).irr = c.irr \cup {r}
         /\ SameService(c, Unlatched(c, r)) /\ Unlatched(c, r).irr = c.irr \ {r}
         /\ SameProgram(c, InService(c, r)) /\ InService(c, r).irr = c.irr \ {r}
         /\ InService(c, r).isr = c.isr \cup {r}
<1>1. SameService(c, Latched(c, r)) /\ Latched(c, r).irr = c.irr \cup {r}
  BY DEF Latched, SameService, SameProgram, Controller
<1>2. SameService(c, Unlatched(c, r)) /\ Unlatched(c, r).irr = c.irr \ {r}
  BY DEF Unlatched, SameService, SameProgram, Controller
<1>3. /\ SameProgram(c, InService(c, r)) /\ InService(c, r).irr = c.irr \ {r}
      /\ InService(c, r).isr = c.isr \cup {r}
  BY DEF InService, SameProgram, Controller
<1> QED BY <1>1, <1>2, <1>3

LEMMA EoiFacts ==
  ASSUME NEW c \in Controller
  PROVE  /\ SameProgram(c, OnCommand(c, 32)) /\ OnCommand(c, 32).irr = c.irr
         /\ \A n : c.isr \subseteq {n} => OnCommand(c, 32).isr = {}
<1>1. OnCommand(c, 32) = [c EXCEPT !.isr = IF @ = {} THEN {} ELSE @ \ {Min(@)}]
  BY CommandBits DEF OnCommand
<1>2. c.isr \in SUBSET (0 .. 7)
  BY DEF Controller
<1>3. \A n : c.isr \subseteq {n} /\ c.isr # {} => c.isr \ {Min(c.isr)} = {}
  BY <1>2, TheLeastIsAll
<1> QED BY <1>1, <1>2, <1>3 DEF SameProgram, Controller

LEMMA Icw1Facts ==
  ASSUME NEW c \in Controller
  PROVE  /\ OnCommand(c, 17) \in Controller /\ OnCommand(c, 17).word = 2
         /\ OnCommand(c, 17).irr = {} /\ OnCommand(c, 17).isr = {}
         /\ OnCommand(c, 17).offset = c.offset /\ OnCommand(c, 17).cascade = c.cascade
  BY CommandBits DEF OnCommand, Controller

LEMMA IcwFacts ==
  ASSUME NEW c \in Controller, NEW byte \in 0 .. 255
  PROVE  /\ OnData(c, byte) \in Controller
         /\ OnData(c, byte).irr = c.irr /\ OnData(c, byte).isr = c.isr
         /\ c.word = 2 => OnData(c, byte).word = 3 /\ OnData(c, byte).offset = byte - (byte % 8)
         /\ c.word = 3 => OnData(c, byte).word = 4 /\ OnData(c, byte).cascade = byte
         /\ c.word \in {0, 4} => OnData(c, byte).word = 0
         /\ c.word \in {0, 3, 4} => OnData(c, byte).offset = c.offset
         /\ c.word \in {0, 2, 4} => OnData(c, byte).cascade = c.cascade
<1>1. byte - (byte % 8) \in 0 .. 255
  OBVIOUS
<1>2. BitsOf(byte) \in SUBSET (0 .. 7)
  BY DEF BitsOf
<1>3. c.word \in {0, 2, 3, 4}
  BY DEF Controller
<1>4. CASE c.word = 2
  <2>1. OnData(c, byte) = [c EXCEPT !.word = 3, !.offset = byte - (byte % 8)]
    BY <1>4 DEF OnData
  <2>2. OnData(c, byte) \in Controller
    <3>1. \A d \in Controller : [d EXCEPT !.offset = byte - (byte % 8)] \in Controller
      BY <1>1 DEF Controller
    <3>2. [c EXCEPT !.word = 3] \in Controller
      BY DEF Controller
    <3> QED BY <2>1, <3>1, <3>2
  <2>3. /\ OnData(c, byte).irr = c.irr /\ OnData(c, byte).isr = c.isr
        /\ OnData(c, byte).word = 3 /\ OnData(c, byte).cascade = c.cascade
        /\ OnData(c, byte).offset = byte - (byte % 8)
    BY <2>1 DEF Controller
  <2> QED BY <1>4, <2>2, <2>3
<1>5. CASE c.word = 3
  <2>1. OnData(c, byte) = [c EXCEPT !.word = 4, !.cascade = byte]
    BY <1>5 DEF OnData
  <2>2. OnData(c, byte) \in Controller
    <3>1. \A d \in Controller : [d EXCEPT !.cascade = byte] \in Controller
      BY DEF Controller
    <3>2. [c EXCEPT !.word = 4] \in Controller
      BY DEF Controller
    <3> QED BY <2>1, <3>1, <3>2
  <2>3. /\ OnData(c, byte).irr = c.irr /\ OnData(c, byte).isr = c.isr
        /\ OnData(c, byte).word = 4 /\ OnData(c, byte).offset = c.offset
        /\ OnData(c, byte).cascade = byte
    BY <2>1 DEF Controller
  <2> QED BY <1>5, <2>2, <2>3
<1>6. CASE c.word = 4
  BY <1>6 DEF OnData, Controller
<1>7. CASE c.word = 0
  BY <1>2, <1>7 DEF OnData, Controller
<1> QED BY <1>3, <1>4, <1>5, <1>6, <1>7

-----------------------------------------------------------------------------
(***************************************************************************)
(* Lines that rise and fall                                                *)
(***************************************************************************)

BothSameService == SameService(master, master') /\ SameService(slave, slave')

LEMMA LineRisesFacts ==
  ASSUME IntrTypesOk, NEW n \in IrqNums, LineRises(n)
  PROVE  /\ BothSameService
         /\ \A i \in 0 .. 7 : i \in master.irr' => i = 2 \/ i = n \/ i \in master.irr
         /\ \A i \in 0 .. 7 : i \in slave.irr' => i + 8 = n \/ i \in slave.irr
         /\ \A i \in 0 .. 7 : i # 2 /\ (i = n \/ i \in master.irr) => i \in master.irr'
<1>1. master \in Controller /\ slave \in Controller
  BY DEF IntrTypesOk
<1>2. CASE n < 8
  <2>1. n \in 0 .. 7
    BY <1>2 DEF IrqNums
  <2>2. master' = Latched(master, n) /\ slave' = slave
    BY <1>2 DEF LineRises, SetMaster
  <2>3. SameService(master, master') /\ master.irr' = master.irr \cup {n}
    BY <1>1, <2>1, <2>2, LatchFacts
  <2>4. SameService(slave, slave')
    BY <1>1, <2>2 DEF SameService, SameProgram
  <2> QED BY <2>2, <2>3, <2>4 DEF BothSameService
<1>3. CASE ~(n < 8)
  <2>1. n - 8 \in 0 .. 7 /\ \A i \in 0 .. 7 : i # n /\ (i + 8 = n <=> i = n - 8)
    BY <1>3 DEF IrqNums
  <2>2. slave' = Latched(slave, n - 8) /\ master' = Cascaded(master, slave, slave')
    BY <1>3 DEF LineRises, SetSlave
  <2>3. SameService(slave, slave') /\ slave.irr' = slave.irr \cup {n - 8}
    BY <1>1, <2>1, <2>2, LatchFacts
  <2>4. /\ SameService(master, master')
        /\ \A i \in 0 .. 7 : i # 2 => (i \in master.irr' <=> i \in master.irr)
    BY <1>1, <2>2, CascadedFacts
  <2> QED BY <2>1, <2>3, <2>4 DEF BothSameService
<1> QED BY <1>2, <1>3

LEMMA LineFallsFacts ==
  ASSUME IntrTypesOk, NEW n \in IrqNums, LineFalls(n)
  PROVE  /\ BothSameService
         /\ \A i \in 0 .. 7 : i \in master.irr' => i = 2 \/ (i # n /\ i \in master.irr)
         /\ \A i \in 0 .. 7 : i \in slave.irr' => i + 8 # n /\ i \in slave.irr
         /\ \A i \in 0 .. 7 : i # 2 /\ i # n /\ i \in master.irr => i \in master.irr'
<1>1. master \in Controller /\ slave \in Controller
  BY DEF IntrTypesOk
<1>2. CASE n < 8
  <2>1. n \in 0 .. 7 /\ \A i \in 0 .. 7 : i + 8 # n
    BY <1>2 DEF IrqNums
  <2>2. master' = Unlatched(master, n) /\ slave' = slave
    BY <1>2 DEF LineFalls, SetMaster
  <2>3. SameService(master, master') /\ master.irr' = master.irr \ {n}
    BY <1>1, <2>1, <2>2, LatchFacts
  <2>4. SameService(slave, slave')
    BY <1>1, <2>2 DEF SameService, SameProgram
  <2> QED BY <2>1, <2>2, <2>3, <2>4 DEF BothSameService
<1>3. CASE ~(n < 8)
  <2>1. n - 8 \in 0 .. 7 /\ \A i \in 0 .. 7 : i # n /\ (i + 8 = n <=> i = n - 8)
    BY <1>3 DEF IrqNums
  <2>2. slave' = Unlatched(slave, n - 8) /\ master' = Cascaded(master, slave, slave')
    BY <1>3 DEF LineFalls, SetSlave
  <2>3. SameService(slave, slave') /\ slave.irr' = slave.irr \ {n - 8}
    BY <1>1, <2>1, <2>2, LatchFacts
  <2>4. /\ SameService(master, master')
        /\ \A i \in 0 .. 7 : i # 2 => (i \in master.irr' <=> i \in master.irr)
    BY <1>1, <2>2, CascadedFacts
  <2> QED BY <2>1, <2>3, <2>4 DEF BothSameService
<1> QED BY <1>2, <1>3

\* What a line that moves does not touch.
LEMMA LinesKeepTheRest ==
  ASSUME IntrInv, BothSameService,
         asserted' \subseteq IrqNums, asked' \subseteq IrqNums,
         UNCHANGED <<idt_entries, idt_irq_drivers, enabled, cpu, stage, pic_writes>>
  PROVE  IntrTypesOk' /\ BootOk' /\ CpuOk' /\ ServiceOk'
<1>1. IntrTypesOk'
  BY DEF IntrInv, IntrTypesOk, BothSameService, SameService, SameProgram
<1>2. BootOk'
  <2>1. \A k \in 0 .. 10 : PicAfter(k) => PicAfter(k)'
    BY DEF BothSameService, SameService, SameProgram, PicAfter, Programmed
  <2> QED BY <2>1 DEF IntrInv, BootOk
<1>3. CpuOk'
  BY DEF IntrInv, CpuOk
<1>4. ServiceOk'
  BY DEF IntrInv, ServiceOk, BothSameService, SameService
<1> QED BY <1>1, <1>2, <1>3, <1>4

LEMMA RaiseLineStep ==
  ASSUME IntrInv, NEW n \in IrqNums, RaiseLine(n), UNCHANGED <<stage, pic_writes>>
  PROVE  IntrInv'
<1>1. /\ BothSameService
      /\ \A i \in 0 .. 7 : i \in master.irr' => i = 2 \/ i = n \/ i \in master.irr
      /\ \A i \in 0 .. 7 : i \in slave.irr' => i + 8 = n \/ i \in slave.irr
  BY LineRisesFacts DEF RaiseLine, IntrInv
<1>2. IntrTypesOk' /\ BootOk' /\ CpuOk' /\ ServiceOk'
  BY <1>1, LinesKeepTheRest DEF RaiseLine, IntrInv, IntrTypesOk
<1>3. AskedOk'
  <2>1. asked' = asked \cup {n} /\ cpu' = cpu
    BY DEF RaiseLine
  <2>2. /\ \A i \in 0 .. 7 : i \in master.irr' => i = 2 \/ i \in asked'
        /\ \A i \in 0 .. 7 : i \in slave.irr' => i + 8 \in asked'
    BY <1>1, <2>1 DEF IntrInv, AskedOk
  <2>3. master.isr' = master.isr /\ slave.isr' = slave.isr
    BY <1>1 DEF BothSameService, SameService
  <2> QED BY <2>1, <2>2, <2>3 DEF IntrInv, AskedOk, IsInService
<1> QED BY <1>2, <1>3 DEF IntrInv

LEMMA DropStep ==
  ASSUME IntrInv, NEW n \in IrqNums, Drop(n), UNCHANGED <<stage, pic_writes>>
  PROVE  IntrInv'
<1>1. /\ BothSameService
      /\ \A i \in 0 .. 7 : i \in master.irr' => i = 2 \/ (i # n /\ i \in master.irr)
      /\ \A i \in 0 .. 7 : i \in slave.irr' => i + 8 # n /\ i \in slave.irr
  BY LineFallsFacts DEF Drop, IntrInv
<1>2. asked' \subseteq asked /\ asked \ {n} \subseteq asked' /\ cpu' = cpu
  BY DEF Drop
<1>3. IntrTypesOk' /\ BootOk' /\ CpuOk' /\ ServiceOk'
  BY <1>1, <1>2, LinesKeepTheRest DEF Drop, IntrInv, IntrTypesOk
<1>4. AskedOk'
  <2>1. /\ \A i \in 0 .. 7 : i \in master.irr' => i = 2 \/ i \in asked'
        /\ \A i \in 0 .. 7 : i \in slave.irr' => i + 8 \in asked'
    BY <1>1, <1>2 DEF IntrInv, AskedOk
  <2>2. master.isr' = master.isr /\ slave.isr' = slave.isr
    BY <1>1 DEF BothSameService, SameService
  <2>3. IsInService(n) => asked' = asked
    BY DEF Drop
  <2>4. cpu.at = "idt_irq_handler" =>
          cpu.num \in {7, 15} \/ (IsInService(cpu.num) /\ cpu.num \in asked')
    BY <1>2, <2>3 DEF IntrInv, AskedOk
  <2>5. (cpu.at = "idt_irq_handler" =>
          cpu.num \in {7, 15} \/ (IsInService(cpu.num) /\ cpu.num \in asked))'
    BY <1>2, <2>2, <2>4 DEF IsInService
  <2> QED BY <2>1, <2>5 DEF AskedOk
<1> QED BY <1>3, <1>4 DEF IntrInv

\* The kernel reads the byte of the keyboard.
LEMMA ReadDataStep ==
  ASSUME IntrInv, InKernel, ReadData,
         UNCHANGED <<idt_entries, idt_irq_drivers, enabled, cpu, stage, pic_writes>>
  PROVE  IntrInv'
<1>1. /\ BothSameService
      /\ \A i \in 0 .. 7 : i \in master.irr' => i = 2 \/ (i # 1 /\ i \in master.irr)
      /\ \A i \in 0 .. 7 : i \in slave.irr' => i + 8 # 1 /\ i \in slave.irr
  BY LineFallsFacts DEF ReadData, IntrInv, IrqNums
<1>2. IntrTypesOk' /\ BootOk' /\ CpuOk' /\ ServiceOk'
  BY <1>1, LinesKeepTheRest DEF ReadData, IntrInv, IntrTypesOk
<1>3. AskedOk'
  BY <1>1 DEF ReadData, InKernel, IntrInv, AskedOk
<1> QED BY <1>2, <1>3 DEF IntrInv

-----------------------------------------------------------------------------
(***************************************************************************)
(* The processor, from a request to the end of the interrupt               *)
(***************************************************************************)

LEMMA ControllersReady ==
  ASSUME IntrInv, stage \notin {"idt", "pic"}
  PROVE  /\ master.word = 0 /\ master.offset = 32 /\ master.cascade = 4
         /\ slave.word = 0 /\ slave.offset = 40 /\ slave.cascade = 2
         /\ idt_entries = isr_stub_table
<1>1. PicAfter(10)
  BY DEF IntrInv, BootOk
<1> QED BY <1>1 DEF PicAfter, Programmed, MasterWords, SlaveWords, IntrInv, BootOk

\* The gate of every vector the controllers answer with leads to its own stub.
LEMMA Gates ==
  ASSUME idt_entries = isr_stub_table
  PROVE  /\ \A n \in IrqNums : Dispatched(32 + n) = [at |-> "idt_irq_handler", num |-> n]
         /\ Dispatched(2) = [at |-> "idt_exception_handler", num |-> 2]
<1>1. ASSUME NEW n \in IrqNums
      PROVE  Dispatched(32 + n) = [at |-> "idt_irq_handler", num |-> n]
  <2>1. PICK v \in 0 .. 47 : v = 32 + n /\ ~(v < 32) /\ v - 32 = n
    BY DEF IrqNums
  <2>2. v \in DOMAIN idt_entries /\ idt_entries[v] = IrqStub(v - 32)
    BY <2>1 DEF isr_stub_table
  <2> QED BY <2>1, <2>2 DEF Dispatched, IrqStub
<1>2. 2 \in DOMAIN idt_entries /\ idt_entries[2] = ExceptionStub(2)
  BY DEF isr_stub_table
<1> QED BY <1>1, <1>2 DEF Dispatched, ExceptionStub

\* A step that keeps what the controllers were told, and is no step of kmain.
LEMMA BootIsKept ==
  ASSUME IntrInv, SameProgram(master, master'), SameProgram(slave, slave'),
         UNCHANGED <<idt_entries, stage, pic_writes>>,
         stage \in {"idt", "pic", "sti"} => ~enabled' /\ cpu'.at = "kernel"
  PROVE  BootOk'
<1>1. \A k \in 0 .. 10 : PicAfter(k) => PicAfter(k)'
  BY DEF SameProgram, PicAfter, Programmed
<1> QED BY <1>1 DEF IntrInv, BootOk

LEMMA InterruptsNeedBoot ==
  ASSUME IntrInv, enabled \/ cpu.at # "kernel"
  PROVE  stage \notin {"idt", "pic", "sti"}
  BY DEF IntrInv, BootOk

LEMMA AcceptStep ==
  ASSUME IntrInv, Accept, UNCHANGED <<stage, pic_writes>>
  PROVE  IntrInv'
<1>1. stage \notin {"idt", "pic", "sti"}
  BY InterruptsNeedBoot DEF Accept
<1>2. cpu' = [at |-> "acknowledge", num |-> 0] /\ enabled' = FALSE
  BY DEF Accept
<1>3. IntrTypesOk'
  <2>1. cpu' \in [at : Places, num : 0 .. 31]
    BY <1>2 DEF Places
  <2> QED BY <1>2, <2>1 DEF Accept, IntrInv, IntrTypesOk
<1>4. BootOk'
  BY <1>1, <1>2, BootIsKept DEF Accept, SameProgram, IntrInv, IntrTypesOk
<1>5. CpuOk' /\ ServiceOk' /\ AskedOk'
  BY <1>2 DEF Accept, InKernel, CpuOk, ServiceOk, AskedOk, IntrInv
<1> QED BY <1>3, <1>4, <1>5 DEF IntrInv

LEMMA AckMasterStep ==
  ASSUME IntrInv, AckMaster, UNCHANGED <<stage, pic_writes>>
  PROVE  /\ IntrInv'
         /\ 1 \in master.irr =>
              1 \in master.irr' \/ cpu' = [at |-> "idt_irq_handler", num |-> 1]
<1>1. /\ master.offset = 32 /\ master.cascade = 4 /\ stage \notin {"idt", "pic", "sti"}
      /\ idt_entries = isr_stub_table
  BY InterruptsNeedBoot, ControllersReady DEF AckMaster
<1>2. /\ master \in Controller /\ slave \in Controller /\ slave' = slave
      /\ master.isr = {} /\ slave.isr = {}
      /\ enabled' = FALSE
      /\ UNCHANGED <<asserted, asked, idt_entries, idt_irq_drivers>>
  BY DEF AckMaster, SetMaster, IntrInv, IntrTypesOk, ServiceOk, CpuOk
<1>3. SameProgram(slave, slave')
  BY <1>2 DEF SameProgram
<1>4. CASE Pending(master) = {}
  <2>1. master' = master /\ cpu' = [at |-> "idt_irq_handler", num |-> 7]
    BY <1>1, <1>4, Gates DEF AckMaster, SetMaster, IrqNums
  <2>2. IntrTypesOk'
    <3>1. cpu' \in [at : Places, num : 0 .. 31]
      BY <2>1 DEF Places
    <3> QED BY <1>2, <2>1, <3>1 DEF IntrInv, IntrTypesOk
  <2>3. BootOk'
    BY <1>1, <1>2, <1>3, <2>1, BootIsKept DEF SameProgram
  <2>4. CpuOk' /\ ServiceOk' /\ AskedOk'
    BY <1>2, <2>1 DEF CpuOk, ServiceOk, AskedOk, IntrInv, IrqNums
  <2> QED BY <2>1, <2>2, <2>3, <2>4 DEF IntrInv
<1>5. CASE Pending(master) # {}
  <2> DEFINE r == Min(Pending(master))
  <2>1. r \in 0 .. 7 /\ r \in master.irr
    <3>1. Pending(master) \in SUBSET (0 .. 7) /\ Pending(master) \subseteq master.irr
      BY <1>2 DEF Pending, Controller
    <3> QED BY <1>5, <3>1, LeastLine
  <2>2. /\ cpu' = IF r \in BitsOf(master.cascade) THEN [at |-> "cascade", num |-> r]
                  ELSE Dispatched(master.offset + r)
        /\ master' = InService(master, r)
    BY <1>5 DEF AckMaster, SetMaster
  <2> HIDE DEF r
  <2>3. cpu' = IF r = 2 THEN [at |-> "cascade", num |-> 2]
               ELSE [at |-> "idt_irq_handler", num |-> r]
    BY <1>1, <2>1, <2>2, CascadeBits, Gates DEF IrqNums
  <2>4. /\ SameProgram(master, master') /\ master.irr' = master.irr \ {r}
        /\ master.isr' = {r}
    BY <1>2, <2>1, <2>2, LatchFacts
  <2>5. cpu' \in [at : Places, num : 0 .. 31] /\ cpu'.at # "kernel"
    BY <2>1, <2>3 DEF Places
  <2>6. IntrTypesOk'
    BY <1>2, <2>4, <2>5 DEF IntrInv, IntrTypesOk, SameProgram
  <2>7. BootOk'
    BY <1>1, <1>2, <1>3, <2>4, BootIsKept
  <2>8. CpuOk' /\ ServiceOk'
    <3>1. CASE r = 2
      BY <1>2, <2>3, <2>4, <3>1 DEF CpuOk, ServiceOk
    <3>2. CASE r # 2
      BY <1>2, <2>1, <2>3, <2>4, <3>2 DEF CpuOk, ServiceOk, IrqNums
    <3> QED BY <3>1, <3>2
  <2>9. AskedOk'
    <3>1. /\ \A i \in 0 .. 7 : i \in master.irr' => i = 2 \/ i \in asked'
          /\ \A i \in 0 .. 7 : i \in slave.irr' => i + 8 \in asked'
      BY <1>2, <2>4 DEF IntrInv, AskedOk
    <3>2. CASE r = 2
      BY <2>3, <3>1, <3>2 DEF AskedOk
    <3>3. CASE r # 2
      <4>1. cpu' = [at |-> "idt_irq_handler", num |-> r] /\ r < 8
        BY <2>1, <2>3, <3>3
      <4>2. r \in asked' /\ r \in master.isr'
        BY <1>2, <2>1, <2>4, <3>3 DEF IntrInv, AskedOk
      <4> QED BY <3>1, <4>1, <4>2 DEF AskedOk, IsInService
    <3> QED BY <3>2, <3>3
  <2> QED BY <2>1, <2>3, <2>4, <2>6, <2>7, <2>8, <2>9 DEF IntrInv
<1> QED BY <1>4, <1>5

LEMMA AckSlaveStep ==
  ASSUME IntrInv, AckSlave, UNCHANGED <<stage, pic_writes>>
  PROVE  /\ IntrInv'
         /\ 1 \in master.irr => 1 \in master.irr'
<1>1. /\ slave.offset = 40 /\ stage \notin {"idt", "pic", "sti"}
      /\ idt_entries = isr_stub_table
  BY InterruptsNeedBoot, ControllersReady DEF AckSlave
<1>2. /\ master \in Controller /\ slave \in Controller
      /\ master.isr \subseteq {2} /\ slave.isr = {}
      /\ enabled' = FALSE
      /\ UNCHANGED <<asserted, asked, idt_entries, idt_irq_drivers>>
  BY DEF AckSlave, IntrInv, IntrTypesOk, ServiceOk, CpuOk
<1>3. master' = Cascaded(master, slave, slave')
  BY DEF AckSlave, SetSlave
<1>4. /\ SameService(master, master')
      /\ \A i \in 0 .. 7 : i # 2 => (i \in master.irr' <=> i \in master.irr)
  BY <1>2, <1>3, CascadedFacts
<1>5. \E n \in IrqNums :
        /\ cpu' = [at |-> "idt_irq_handler", num |-> n]
        /\ n >= 8
        /\ SameProgram(slave, slave') /\ slave.irr' \subseteq slave.irr
        /\ slave.isr' \subseteq {n - 8}
        /\ n = 15 \/ (n - 8 \in slave.irr /\ n - 8 \in slave.isr')
  <2>1. CASE Pending(slave) = {}
    <3>1. cpu' = Dispatched(32 + 15) /\ slave' = slave
      BY <1>1, <2>1 DEF AckSlave, SetSlave
    <3>2. cpu' = [at |-> "idt_irq_handler", num |-> 15] /\ 15 \in IrqNums
      BY <1>1, <3>1, Gates DEF IrqNums
    <3>3. SameProgram(slave, slave')
      BY <1>2, <3>1 DEF SameProgram
    <3> QED BY <1>2, <3>1, <3>2, <3>3
  <2>2. CASE Pending(slave) # {}
    <3> DEFINE r == Min(Pending(slave))
    <3>1. r \in 0 .. 7 /\ r \in slave.irr
      <4>1. Pending(slave) \in SUBSET (0 .. 7) /\ Pending(slave) \subseteq slave.irr
        BY <1>2 DEF Pending, Controller
      <4> QED BY <2>2, <4>1, LeastLine
    <3>2. cpu' = Dispatched(slave.offset + r) /\ slave' = InService(slave, r)
      BY <2>2 DEF AckSlave, SetSlave
    <3> HIDE DEF r
    <3>3. r + 8 \in IrqNums /\ slave.offset + r = 32 + (r + 8) /\ r + 8 >= 8 /\ r + 8 - 8 = r
      BY <1>1, <3>1 DEF IrqNums
    <3>4. cpu' = [at |-> "idt_irq_handler", num |-> r + 8]
      BY <1>1, <3>2, <3>3, Gates
    <3>5. /\ SameProgram(slave, slave') /\ slave.irr' = slave.irr \ {r}
          /\ slave.isr' = {r}
      BY <1>2, <3>1, <3>2, LatchFacts
    <3> QED BY <3>1, <3>3, <3>4, <3>5
  <2> QED BY <2>1, <2>2
<1>6. PICK n \in IrqNums :
        /\ cpu' = [at |-> "idt_irq_handler", num |-> n]
        /\ n >= 8
        /\ SameProgram(slave, slave') /\ slave.irr' \subseteq slave.irr
        /\ slave.isr' \subseteq {n - 8}
        /\ n = 15 \/ (n - 8 \in slave.irr /\ n - 8 \in slave.isr')
  BY <1>5
<1>7. cpu' \in [at : Places, num : 0 .. 31]
  BY <1>6 DEF Places, IrqNums
<1>8. IntrTypesOk'
  BY <1>2, <1>4, <1>6, <1>7 DEF IntrInv, IntrTypesOk, SameService, SameProgram
<1>9. BootOk'
  BY <1>1, <1>2, <1>4, <1>6, BootIsKept DEF SameService
<1>10. CpuOk' /\ ServiceOk'
  BY <1>2, <1>4, <1>6 DEF CpuOk, ServiceOk, SameService, IrqNums
<1>11. AskedOk'
  <2>1. /\ \A i \in 0 .. 7 : i \in master.irr' => i = 2 \/ i \in asked'
        /\ \A i \in 0 .. 7 : i \in slave.irr' => i + 8 \in asked'
    BY <1>2, <1>4, <1>6 DEF IntrInv, AskedOk
  <2>2. n = 15 \/ n \in asked'
    <3>1. n - 8 \in slave.irr => n - 8 \in 0 .. 7 /\ (n - 8) + 8 = n
      BY <1>6 DEF IrqNums
    <3>2. n - 8 \in slave.irr => n \in asked
      BY <3>1 DEF IntrInv, AskedOk
    <3> QED BY <1>2, <1>6, <3>2
  <2>3. ~(n < 8)
    BY <1>6 DEF IrqNums
  <2> QED BY <1>6, <2>1, <2>2, <2>3 DEF AskedOk, IsInService
<1> QED BY <1>4, <1>8, <1>9, <1>10, <1>11 DEF IntrInv

LEMMA OtherDriverStep ==
  ASSUME IntrInv, OtherDriver, UNCHANGED <<stage, pic_writes>>
  PROVE  IntrInv'
<1>1. /\ cpu.at = "idt_irq_handler" /\ cpu' = [cpu EXCEPT !.at = "pic_send_eoi"]
      /\ asked' = IF IsLatched(cpu.num) THEN asked ELSE asked \ {cpu.num}
      /\ UNCHANGED <<asserted, master, slave, idt_entries, idt_irq_drivers, enabled>>
  BY DEF OtherDriver, CallsDriver, DriverReturned
<1>2. cpu \in [at : Places, num : 0 .. 31] /\ cpu.num \in IrqNums /\ enabled \in BOOLEAN
  BY <1>1 DEF IntrInv, IntrTypesOk, CpuOk
<1>3. /\ cpu' \in [at : Places, num : 0 .. 31]
      /\ cpu'.at = "pic_send_eoi" /\ cpu'.num = cpu.num
  BY <1>1, <1>2 DEF Places
<1>4. IntrTypesOk'
  BY <1>1, <1>3 DEF IntrInv, IntrTypesOk
<1>5. BootOk'
  <2>1. stage \notin {"idt", "pic", "sti"}
    BY <1>1, InterruptsNeedBoot
  <2> QED BY <1>1, <2>1, BootIsKept DEF SameProgram, IntrInv, IntrTypesOk
<1>6. CpuOk' /\ ServiceOk'
  BY <1>1, <1>2, <1>3 DEF IntrInv, CpuOk, ServiceOk
<1>7. AskedOk'
  <2>1. \A i \in 0 .. 7 : i \in master.irr => i = 2 \/ i \in asked'
    <3> SUFFICES ASSUME NEW i \in 0 .. 7, i \in master.irr, i # 2
                 PROVE  i \in asked'
      OBVIOUS
    <3>1. i \in asked
      BY DEF IntrInv, AskedOk
    <3>2. i = cpu.num => IsLatched(cpu.num)
      BY DEF IsLatched
    <3> QED BY <1>1, <3>1, <3>2
  <2>2. \A i \in 0 .. 7 : i \in slave.irr => i + 8 \in asked'
    <3> SUFFICES ASSUME NEW i \in 0 .. 7, i \in slave.irr
                 PROVE  i + 8 \in asked'
      OBVIOUS
    <3>1. i + 8 \in asked
      BY DEF IntrInv, AskedOk
    <3>2. i + 8 = cpu.num => IsLatched(cpu.num)
      <4>1. i + 8 = cpu.num => ~(cpu.num < 8) /\ cpu.num - 8 = i
        OBVIOUS
      <4> QED BY <4>1 DEF IsLatched
    <3> QED BY <1>1, <3>1, <3>2
  <2> QED BY <1>1, <1>3, <2>1, <2>2 DEF AskedOk
<1> QED BY <1>4, <1>5, <1>6, <1>7 DEF IntrInv

\* The handler of the keyboard takes the byte out of the controller's buffer.
LEMMA KeyboardIrqStep ==
  ASSUME IntrInv, KeyboardIrq, UNCHANGED <<stage, pic_writes>>
  PROVE  IntrInv' /\ BothSameService
<1>1. /\ cpu.at = "idt_irq_handler" /\ cpu' = [cpu EXCEPT !.at = "pic_send_eoi"]
      /\ asked' = IF IsLatched(cpu.num) THEN asked ELSE asked \ {cpu.num}
      /\ asked' = asked \ {1}
      /\ asserted' \subseteq asserted
      /\ UNCHANGED <<idt_entries, idt_irq_drivers, enabled>>
  BY DEF KeyboardIrq, CallsDriver, DriverReturned, ReadData
<1>2. /\ BothSameService
      /\ \A i \in 0 .. 7 : i \in master.irr' => i = 2 \/ (i # 1 /\ i \in master.irr)
      /\ \A i \in 0 .. 7 : i \in slave.irr' => i + 8 # 1 /\ i \in slave.irr
  BY LineFallsFacts DEF KeyboardIrq, ReadData, IntrInv, IrqNums
<1>3. cpu \in [at : Places, num : 0 .. 31] /\ cpu.num \in IrqNums /\ enabled \in BOOLEAN
  BY <1>1 DEF IntrInv, IntrTypesOk, CpuOk
<1>4. /\ cpu' \in [at : Places, num : 0 .. 31]
      /\ cpu'.at = "pic_send_eoi" /\ cpu'.num = cpu.num
  BY <1>1, <1>3 DEF Places
<1>5. IntrTypesOk'
  BY <1>1, <1>2, <1>4 DEF IntrInv, IntrTypesOk, BothSameService, SameService, SameProgram
<1>6. BootOk'
  <2>1. stage \notin {"idt", "pic", "sti"}
    BY <1>1, InterruptsNeedBoot
  <2> QED BY <1>1, <1>2, <2>1, BootIsKept DEF BothSameService, SameService
<1>7. CpuOk' /\ ServiceOk'
  BY <1>1, <1>2, <1>3, <1>4
  DEF IntrInv, CpuOk, ServiceOk, BothSameService, SameService
<1>8. AskedOk'
  BY <1>1, <1>2, <1>4 DEF IntrInv, AskedOk
<1> QED BY <1>2, <1>5, <1>6, <1>7, <1>8 DEF IntrInv

LEMMA SlaveEoiStep ==
  ASSUME IntrInv, SlaveEoi, UNCHANGED <<stage, pic_writes>>
  PROVE  /\ IntrInv'
         /\ 1 \in master.irr => 1 \in master.irr'
<1>1. /\ cpu.at = "pic_send_eoi" /\ cpu.num >= 8
      /\ cpu' = [cpu EXCEPT !.at = "master_eoi"]
      /\ slave' = OnCommand(slave, 32) /\ master' = Cascaded(master, slave, slave')
      /\ UNCHANGED <<asserted, idt_entries, idt_irq_drivers, enabled, asked>>
  BY DEF SlaveEoi, SetSlave, ConcernsSlave
<1>2. /\ cpu \in [at : Places, num : 0 .. 31] /\ cpu.num \in IrqNums
      /\ master \in Controller /\ slave \in Controller
      /\ master.isr \subseteq {2} /\ slave.isr \subseteq {cpu.num - 8}
  BY <1>1 DEF IntrInv, IntrTypesOk, CpuOk, ServiceOk, IrqNums
<1>3. /\ SameService(master, master')
      /\ \A i \in 0 .. 7 : i # 2 => (i \in master.irr' <=> i \in master.irr)
  BY <1>1, <1>2, CascadedFacts
<1>4. SameProgram(slave, slave') /\ slave.irr' = slave.irr /\ slave.isr' = {}
  BY <1>1, <1>2, EoiFacts
<1>5. /\ cpu' \in [at : Places, num : 0 .. 31]
      /\ cpu'.at = "master_eoi" /\ cpu'.num = cpu.num
  BY <1>1, <1>2 DEF Places
<1>6. IntrTypesOk'
  BY <1>1, <1>3, <1>4, <1>5 DEF IntrInv, IntrTypesOk, SameService, SameProgram
<1>7. BootOk'
  <2>1. stage \notin {"idt", "pic", "sti"}
    BY <1>1, InterruptsNeedBoot
  <2> QED BY <1>1, <1>3, <1>4, <2>1, BootIsKept DEF SameService
<1>8. CpuOk' /\ ServiceOk'
  BY <1>1, <1>2, <1>3, <1>4, <1>5 DEF IntrInv, CpuOk, ServiceOk, SameService
<1>9. AskedOk'
  BY <1>1, <1>3, <1>4, <1>5 DEF IntrInv, AskedOk
<1> QED BY <1>3, <1>6, <1>7, <1>8, <1>9 DEF IntrInv

LEMMA MasterEoiStep ==
  ASSUME IntrInv, MasterEoi, UNCHANGED <<stage, pic_writes>>
  PROVE  /\ IntrInv'
         /\ 1 \in master.irr => 1 \in master.irr'
<1>1. /\ cpu.at = IF cpu.num >= 8 THEN "master_eoi" ELSE "pic_send_eoi"
      /\ cpu' = [at |-> "kernel", num |-> 0] /\ enabled' = TRUE
      /\ master' = OnCommand(master, 32) /\ slave' = slave
      /\ UNCHANGED <<asserted, idt_entries, idt_irq_drivers, asked>>
  BY DEF MasterEoi, SetMaster, ConcernsSlave
<1>2. master \in Controller /\ slave \in Controller /\ cpu.num \in IrqNums
  BY <1>1 DEF IntrInv, IntrTypesOk, CpuOk
<1>3. slave.isr = {}
  <2>1. CASE cpu.num >= 8
    BY <1>1, <2>1 DEF IntrInv, ServiceOk
  <2>2. CASE ~(cpu.num >= 8)
    <3>1. slave.isr \subseteq {cpu.num - 8} /\ cpu.num - 8 \notin 0 .. 7
      BY <1>1, <1>2, <2>2 DEF IntrInv, ServiceOk, IrqNums
    <3>2. slave.isr \subseteq 0 .. 7
      BY <1>2 DEF Controller
    <3> QED BY <3>1, <3>2
  <2> QED BY <2>1, <2>2
<1>4. \E n : master.isr \subseteq {n}
  BY <1>1 DEF IntrInv, ServiceOk
<1>5. SameProgram(master, master') /\ master.irr' = master.irr /\ master.isr' = {}
  BY <1>1, <1>2, <1>4, EoiFacts
<1>6. cpu' \in [at : Places, num : 0 .. 31] /\ cpu'.at = "kernel"
  BY <1>1 DEF Places
<1>7. IntrTypesOk'
  BY <1>1, <1>5, <1>6 DEF IntrInv, IntrTypesOk, SameProgram
<1>8. BootOk'
  <2>1. stage \notin {"idt", "pic", "sti"}
    BY <1>1, InterruptsNeedBoot
  <2>2. SameProgram(slave, slave')
    BY <1>1, <1>2 DEF SameProgram
  <2> QED BY <1>1, <1>5, <2>1, <2>2, BootIsKept
<1>9. CpuOk' /\ ServiceOk' /\ AskedOk'
  BY <1>1, <1>3, <1>5, <1>6 DEF IntrInv, CpuOk, ServiceOk, AskedOk
<1> QED BY <1>5, <1>7, <1>8, <1>9 DEF IntrInv

LEMMA NmiStep ==
  ASSUME IntrInv, Nmi, UNCHANGED <<stage, pic_writes>>
  PROVE  IntrInv'
<1>1. stage \notin {"idt", "pic", "sti"}
  BY InterruptsNeedBoot DEF Nmi
<1>2. cpu' = [at |-> "idt_exception_handler", num |-> 2] /\ enabled' = FALSE
  BY <1>1, ControllersReady, Gates DEF Nmi
<1>3. cpu' \in [at : Places, num : 0 .. 31]
  BY <1>2 DEF Places
<1>4. IntrTypesOk'
  BY <1>2, <1>3 DEF Nmi, IntrInv, IntrTypesOk
<1>5. BootOk'
  BY <1>1, BootIsKept DEF Nmi, SameProgram, IntrInv, IntrTypesOk
<1>6. CpuOk' /\ ServiceOk' /\ AskedOk'
  BY <1>2 DEF Nmi, IntrInv, CpuOk, ServiceOk, AskedOk
<1> QED BY <1>4, <1>5, <1>6 DEF IntrInv

\* An exception, or kmain, stops the machine.
LEMMA StopStep ==
  ASSUME IntrInv, Stop, stage \notin {"idt", "pic", "sti"}, stage' \in {stage, "stopped"},
         pic_writes' = pic_writes
  PROVE  IntrInv'
<1>1. cpu' = [at |-> "stopped", num |-> 0] /\ enabled' = FALSE
  BY DEF Stop
<1>2. cpu' \in [at : Places, num : 0 .. 31]
  BY <1>1 DEF Places
<1>3. IntrTypesOk'
  BY <1>1, <1>2 DEF Stop, IntrInv, IntrTypesOk, Stages
<1>4. BootOk'
  <2>1. PicAfter(10)'
    BY DEF Stop, IntrInv, BootOk, PicAfter, Programmed
  <2> QED BY <2>1 DEF Stop, IntrInv, BootOk
<1>5. CpuOk' /\ ServiceOk' /\ AskedOk'
  BY <1>1 DEF Stop, IntrInv, CpuOk, ServiceOk, AskedOk
<1> QED BY <1>3, <1>4, <1>5 DEF IntrInv

-----------------------------------------------------------------------------
(***************************************************************************)
(* The steps of kmain                                                      *)
(***************************************************************************)

LEMMA IdtInitStep ==
  ASSUME IntrInv, KernelAt("idt"), IdtInit, stage' = "pic", pic_writes' = pic_writes
  PROVE  IntrInv'
<1>1. IntrTypesOk'
  BY DEF IdtInit, IntrInv, IntrTypesOk, Stages
<1>2. BootOk'
  <2>1. PicAfter(0) => PicAfter(0)'
    BY DEF IdtInit, PicAfter, Programmed
  <2>2. PicAfter(0)'
    BY <2>1 DEF KernelAt, IntrInv, BootOk
  <2> QED BY <2>2 DEF IdtInit, KernelAt, IntrInv, BootOk
<1>3. CpuOk' /\ ServiceOk' /\ AskedOk'
  BY DEF IdtInit, IntrInv, CpuOk, ServiceOk, AskedOk, IsInService
<1> QED BY <1>1, <1>2, <1>3 DEF IntrInv

LEMMA LinesApart == \A i \in 0 .. 7 : i + 8 \notin 0 .. 7 /\ i \notin 8 .. 15
  OBVIOUS

\* Writes to the command ports: the controllers start afresh.
LEMMA PicCommandFacts ==
  ASSUME IntrInv, InKernel, NEW port \in {"master command", "slave command"},
         PicWrite(<<port, 17>>)
  PROVE  /\ master' \in Controller /\ slave' \in Controller
         /\ master.isr' = {} /\ slave.isr' = {}
         /\ asked' \subseteq asked
         /\ \A i \in 0 .. 7 : i \in master.irr' => i = 2 \/ i \in asked'
         /\ \A i \in 0 .. 7 : i \in slave.irr' => i + 8 \in asked'
         /\ master.offset' = master.offset /\ master.cascade' = master.cascade
         /\ slave.offset' = slave.offset /\ slave.cascade' = slave.cascade
         /\ master.word' = IF port = "master command" THEN 2 ELSE master.word
         /\ slave.word' = IF port = "slave command" THEN 2 ELSE slave.word
<1>1. /\ master \in Controller /\ slave \in Controller
      /\ master.isr = {} /\ slave.isr = {}
  BY DEF InKernel, IntrInv, IntrTypesOk, ServiceOk
<1>2. CASE port = "master command"
  <2>1. /\ master' = OnCommand(master, 17) /\ slave' = slave
        /\ asked' = asked \ (0 .. 7)
    BY <1>2 DEF PicWrite, SetMaster
  <2>2. \A i \in 0 .. 7 : i \in slave.irr => i + 8 \in asked'
    <3>1. \A i \in 0 .. 7 : i \in slave.irr => i + 8 \in asked
      BY DEF IntrInv, AskedOk
    <3> QED BY <2>1, <3>1, LinesApart
  <2> QED BY <1>1, <1>2, <2>1, <2>2, Icw1Facts
<1>3. CASE port = "slave command"
  <2>1. /\ slave' = OnCommand(slave, 17) /\ master' = Cascaded(master, slave, slave')
        /\ asked' = asked \ (8 .. 15)
    BY <1>3 DEF PicWrite, SetSlave
  <2>2. /\ SameService(master, master')
        /\ \A i \in 0 .. 7 : i # 2 => (i \in master.irr' <=> i \in master.irr)
    BY <1>1, <2>1, CascadedFacts
  <2>3. \A i \in 0 .. 7 : i \in master.irr => i = 2 \/ i \in asked'
    <3>1. \A i \in 0 .. 7 : i \in master.irr => i = 2 \/ i \in asked
      BY DEF IntrInv, AskedOk
    <3> QED BY <2>1, <3>1, LinesApart
  <2> QED BY <1>1, <1>3, <2>1, <2>2, <2>3, Icw1Facts DEF SameService, SameProgram
<1> QED BY <1>2, <1>3

\* Writes to the data ports: the other words of the initialisation, then the masks.
LEMMA PicDataFacts ==
  ASSUME IntrInv, InKernel, NEW port \in {"master data", "slave data"},
         NEW byte \in 0 .. 255, PicWrite(<<port, byte>>)
  PROVE  /\ master' \in Controller /\ slave' \in Controller
         /\ master.isr' = {} /\ slave.isr' = {}
         /\ asked' = asked
         /\ \A i \in 0 .. 7 : i \in master.irr' => i = 2 \/ i \in asked'
         /\ \A i \in 0 .. 7 : i \in slave.irr' => i + 8 \in asked'
         /\ port = "master data" =>
              /\ slave' = slave
              /\ master' = OnData(master, byte)
         /\ port = "slave data" =>
              /\ SameProgram(master, master')
              /\ slave' = OnData(slave, byte)
<1>1. /\ master \in Controller /\ slave \in Controller
      /\ master.isr = {} /\ slave.isr = {}
  BY DEF InKernel, IntrInv, IntrTypesOk, ServiceOk
<1>2. asked' = asked
  BY DEF PicWrite
<1>3. /\ \A i \in 0 .. 7 : i \in master.irr => i = 2 \/ i \in asked'
      /\ \A i \in 0 .. 7 : i \in slave.irr => i + 8 \in asked'
  BY <1>2 DEF IntrInv, AskedOk
<1>4. CASE port = "master data"
  <2>1. master' = OnData(master, byte) /\ slave' = slave
    BY <1>4 DEF PicWrite, SetMaster
  <2> QED BY <1>1, <1>2, <1>3, <1>4, <2>1, IcwFacts
<1>5. CASE port = "slave data"
  <2>1. slave' = OnData(slave, byte) /\ master' = Cascaded(master, slave, slave')
    BY <1>5 DEF PicWrite, SetSlave
  <2>2. /\ SameService(master, master')
        /\ \A i \in 0 .. 7 : i # 2 => (i \in master.irr' <=> i \in master.irr)
    BY <1>1, <2>1, CascadedFacts
  <2> QED BY <1>1, <1>2, <1>3, <1>5, <2>1, <2>2, IcwFacts DEF SameService, SameProgram
<1> QED BY <1>4, <1>5

LEMMA Writes ==
  /\ PicInitWrites[1] = <<"master command", 17>> /\ PicInitWrites[2] = <<"slave command", 17>>
  /\ PicInitWrites[3] = <<"master data", 32>>    /\ PicInitWrites[4] = <<"slave data", 40>>
  /\ PicInitWrites[5] = <<"master data", 4>>     /\ PicInitWrites[6] = <<"slave data", 2>>
  /\ PicInitWrites[7] = <<"master data", 1>>     /\ PicInitWrites[8] = <<"slave data", 1>>
  /\ PicInitWrites[9] = <<"master data", 0>>     /\ PicInitWrites[10] = <<"slave data", 0>>
  BY DEF PicInitWrites, RemapWrites

LEMMA Bytes ==
  /\ 0 \in 0 .. 255 /\ 1 \in 0 .. 255 /\ 2 \in 0 .. 255 /\ 4 \in 0 .. 255
  /\ 32 \in 0 .. 255 /\ 40 \in 0 .. 255
  /\ 32 - (32 % 8) = 32 /\ 40 - (40 % 8) = 40
  OBVIOUS

LEMMA Words ==
  /\ MasterWords[1] = 0 /\ MasterWords[2] = 2 /\ MasterWords[3] = 2 /\ MasterWords[4] = 3
  /\ MasterWords[5] = 3 /\ MasterWords[6] = 4 /\ MasterWords[7] = 4 /\ MasterWords[8] = 0
  /\ MasterWords[9] = 0 /\ MasterWords[10] = 0 /\ MasterWords[11] = 0
  /\ SlaveWords[1] = 0 /\ SlaveWords[2] = 0 /\ SlaveWords[3] = 2 /\ SlaveWords[4] = 2
  /\ SlaveWords[5] = 3 /\ SlaveWords[6] = 3 /\ SlaveWords[7] = 4 /\ SlaveWords[8] = 4
  /\ SlaveWords[9] = 0 /\ SlaveWords[10] = 0 /\ SlaveWords[11] = 0
  BY DEF MasterWords, SlaveWords

\* A word of the initialisation of one controller leaves the other alone, ...
LEMMA MasterWord ==
  ASSUME IntrInv, InKernel, NEW byte \in 0 .. 255, PicWrite(<<"master data", byte>>)
  PROVE  /\ slave' = slave
         /\ master.word = 2 => master.word' = 3 /\ master.offset' = byte - (byte % 8)
         /\ master.word = 3 => master.word' = 4 /\ master.cascade' = byte
         /\ master.word \in {0, 4} => master.word' = 0
         /\ master.word \in {0, 3, 4} => master.offset' = master.offset
         /\ master.word \in {0, 2, 4} => master.cascade' = master.cascade
<1>1. slave' = slave /\ master' = OnData(master, byte)
  BY PicDataFacts
<1>2. master \in Controller
  BY DEF IntrInv, IntrTypesOk
<1> QED BY <1>1, <1>2, IcwFacts

LEMMA SlaveWord ==
  ASSUME IntrInv, InKernel, NEW byte \in 0 .. 255, PicWrite(<<"slave data", byte>>)
  PROVE  /\ SameProgram(master, master')
         /\ slave.word = 2 => slave.word' = 3 /\ slave.offset' = byte - (byte % 8)
         /\ slave.word = 3 => slave.word' = 4 /\ slave.cascade' = byte
         /\ slave.word \in {0, 4} => slave.word' = 0
         /\ slave.word \in {0, 3, 4} => slave.offset' = slave.offset
         /\ slave.word \in {0, 2, 4} => slave.cascade' = slave.cascade
<1>1. SameProgram(master, master') /\ slave' = OnData(slave, byte)
  BY PicDataFacts
<1>2. slave \in Controller
  BY DEF IntrInv, IntrTypesOk
<1> QED BY <1>1, <1>2, IcwFacts

\* ... and sets what it is for; the first word keeps the offset and the cascade.
LEMMA ProgrammedNext ==
  ASSUME IntrInv, InKernel, NEW k \in 0 .. 9, Programmed(k), PicWrite(PicInitWrites[k + 1])
  PROVE  Programmed(k + 1)'
<1>1. k \in {0, 1, 2, 3, 4, 5, 6, 7, 8, 9}
  OBVIOUS
<1>10. CASE k = 0
  <2>1. PicWrite(<<"master command", 17>>)
    <3>1. PicWrite(PicInitWrites[1])
      BY <1>10
    <3> QED BY <3>1, Writes
  <2>2. slave.word = 0
    BY <1>10, Words DEF Programmed
  <2>3. master.word' = 2 /\ slave.word' = 0
    BY <2>1, <2>2, PicCommandFacts
  <2> QED BY <1>10, <2>3, Words DEF Programmed
<1>11. CASE k = 1
  <2>1. PicWrite(<<"slave command", 17>>)
    <3>1. PicWrite(PicInitWrites[2])
      BY <1>11
    <3> QED BY <3>1, Writes
  <2>2. master.word = 2
    BY <1>11, Words DEF Programmed
  <2>3. master.word' = 2 /\ slave.word' = 2
    BY <2>1, <2>2, PicCommandFacts
  <2> QED BY <1>11, <2>3, Words DEF Programmed
<1>2. CASE k = 2
  <2>1. PicWrite(<<"master data", 32>>)
    <3>1. PicWrite(PicInitWrites[3])
      BY <1>2
    <3> QED BY <3>1, Writes
  <2>2. /\ master.word = 2 /\ slave.word = 2
    BY <1>2, Words DEF Programmed
  <2>3. /\ master.word' = 3 /\ slave.word' = 2 /\ master.offset' = 32
    BY <2>1, <2>2, MasterWord, Bytes
  <2> QED BY <1>2, <2>3, Words DEF Programmed
<1>3. CASE k = 3
  <2>1. PicWrite(<<"slave data", 40>>)
    <3>1. PicWrite(PicInitWrites[4])
      BY <1>3
    <3> QED BY <3>1, Writes
  <2>2. /\ master.word = 3 /\ slave.word = 2 /\ master.offset = 32
    BY <1>3, Words DEF Programmed
  <2>3. /\ master.word' = 3 /\ slave.word' = 3 /\ master.offset' = 32
        /\ slave.offset' = 40
    BY <2>1, <2>2, SlaveWord, Bytes DEF SameProgram
  <2> QED BY <1>3, <2>3, Words DEF Programmed
<1>4. CASE k = 4
  <2>1. PicWrite(<<"master data", 4>>)
    <3>1. PicWrite(PicInitWrites[5])
      BY <1>4
    <3> QED BY <3>1, Writes
  <2>2. /\ master.word = 3 /\ slave.word = 3 /\ master.offset = 32
        /\ slave.offset = 40
    BY <1>4, Words DEF Programmed
  <2>3. /\ master.word' = 4 /\ slave.word' = 3 /\ master.offset' = 32
        /\ slave.offset' = 40 /\ master.cascade' = 4
    <3>1. master.word' = 4 /\ master.cascade' = 4 /\ master.offset' = master.offset
      BY <2>1, <2>2, MasterWord, Bytes
    <3>2. slave' = slave
      BY <2>1, MasterWord, Bytes
    <3> QED BY <2>2, <3>1, <3>2
  <2> QED BY <1>4, <2>3, Words DEF Programmed
<1>5. CASE k = 5
  <2>1. PicWrite(<<"slave data", 2>>)
    <3>1. PicWrite(PicInitWrites[6])
      BY <1>5
    <3> QED BY <3>1, Writes
  <2>2. /\ master.word = 4 /\ slave.word = 3 /\ master.offset = 32
        /\ slave.offset = 40 /\ master.cascade = 4
    BY <1>5, Words DEF Programmed
  <2>3. /\ master.word' = 4 /\ slave.word' = 4 /\ master.offset' = 32
        /\ slave.offset' = 40 /\ master.cascade' = 4 /\ slave.cascade' = 2
    <3>1. slave.word' = 4 /\ slave.cascade' = 2 /\ slave.offset' = slave.offset
      BY <2>1, <2>2, SlaveWord, Bytes
    <3>2. SameProgram(master, master')
      BY <2>1, SlaveWord, Bytes
    <3> QED BY <2>2, <3>1, <3>2 DEF SameProgram
  <2> QED BY <1>5, <2>3, Words DEF Programmed
<1>6. CASE k = 6
  <2>1. PicWrite(<<"master data", 1>>)
    <3>1. PicWrite(PicInitWrites[7])
      BY <1>6
    <3> QED BY <3>1, Writes
  <2>2. /\ master.word = 4 /\ slave.word = 4 /\ master.offset = 32
        /\ slave.offset = 40 /\ master.cascade = 4 /\ slave.cascade = 2
    BY <1>6, Words DEF Programmed
  <2>3. /\ master.word' = 0 /\ slave.word' = 4 /\ master.offset' = 32
        /\ slave.offset' = 40 /\ master.cascade' = 4 /\ slave.cascade' = 2
    <3>1. master.word' = 0 /\ master.cascade' = master.cascade /\ master.offset' = master.offset
      BY <2>1, <2>2, MasterWord, Bytes
    <3>2. slave' = slave
      BY <2>1, MasterWord, Bytes
    <3> QED BY <2>2, <3>1, <3>2
  <2> QED BY <1>6, <2>3, Words DEF Programmed
<1>7. CASE k = 7
  <2>1. PicWrite(<<"slave data", 1>>)
    <3>1. PicWrite(PicInitWrites[8])
      BY <1>7
    <3> QED BY <3>1, Writes
  <2>2. /\ master.word = 0 /\ slave.word = 4 /\ master.offset = 32
        /\ slave.offset = 40 /\ master.cascade = 4 /\ slave.cascade = 2
    BY <1>7, Words DEF Programmed
  <2>3. /\ master.word' = 0 /\ slave.word' = 0 /\ master.offset' = 32
        /\ slave.offset' = 40 /\ master.cascade' = 4 /\ slave.cascade' = 2
    <3>1. slave.word' = 0 /\ slave.cascade' = slave.cascade /\ slave.offset' = slave.offset
      BY <2>1, <2>2, SlaveWord, Bytes
    <3>2. SameProgram(master, master')
      BY <2>1, SlaveWord, Bytes
    <3> QED BY <2>2, <3>1, <3>2 DEF SameProgram
  <2> QED BY <1>7, <2>3, Words DEF Programmed
<1>8. CASE k = 8
  <2>1. PicWrite(<<"master data", 0>>)
    <3>1. PicWrite(PicInitWrites[9])
      BY <1>8
    <3> QED BY <3>1, Writes
  <2>2. /\ master.word = 0 /\ slave.word = 0 /\ master.offset = 32
        /\ slave.offset = 40 /\ master.cascade = 4 /\ slave.cascade = 2
    BY <1>8, Words DEF Programmed
  <2>3. /\ master.word' = 0 /\ slave.word' = 0 /\ master.offset' = 32
        /\ slave.offset' = 40 /\ master.cascade' = 4 /\ slave.cascade' = 2
    <3>1. master.word' = 0 /\ master.cascade' = master.cascade /\ master.offset' = master.offset
      BY <2>1, <2>2, MasterWord, Bytes
    <3>2. slave' = slave
      BY <2>1, MasterWord, Bytes
    <3> QED BY <2>2, <3>1, <3>2
  <2> QED BY <1>8, <2>3, Words DEF Programmed
<1>9. CASE k = 9
  <2>1. PicWrite(<<"slave data", 0>>)
    <3>1. PicWrite(PicInitWrites[10])
      BY <1>9
    <3> QED BY <3>1, Writes
  <2>2. /\ master.word = 0 /\ slave.word = 0 /\ master.offset = 32
        /\ slave.offset = 40 /\ master.cascade = 4 /\ slave.cascade = 2
    BY <1>9, Words DEF Programmed
  <2>3. /\ master.word' = 0 /\ slave.word' = 0 /\ master.offset' = 32
        /\ slave.offset' = 40 /\ master.cascade' = 4 /\ slave.cascade' = 2
    <3>1. slave.word' = 0 /\ slave.cascade' = slave.cascade /\ slave.offset' = slave.offset
      BY <2>1, <2>2, SlaveWord, Bytes
    <3>2. SameProgram(master, master')
      BY <2>1, SlaveWord, Bytes
    <3> QED BY <2>2, <3>1, <3>2 DEF SameProgram
  <2> QED BY <1>9, <2>3, Words DEF Programmed
<1> QED BY <1>1, <1>2, <1>3, <1>4, <1>5, <1>6, <1>7, <1>8, <1>9, <1>10, <1>11

LEMMA PicWriteStep ==
  ASSUME IntrInv, KernelAt("pic"), PicWrite(Head(pic_writes)),
         pic_writes' = Tail(pic_writes),
         stage' = IF Len(pic_writes) = 1 THEN "sti" ELSE "pic"
  PROVE  IntrInv'
<1>1. PICK k \in 0 .. 9 : PicAfter(k)
  BY DEF KernelAt, IntrInv, BootOk
<1>2. InKernel /\ pic_writes \in Seq(Ports \X (0 .. 255)) /\ Len(pic_writes) = 10 - k
  BY <1>1 DEF KernelAt, IntrInv, IntrTypesOk, PicAfter
<1>3. /\ Head(pic_writes) = PicInitWrites[k + 1]
      /\ Len(pic_writes') = 10 - (k + 1)
      /\ pic_writes' \in Seq(Ports \X (0 .. 255))
      /\ \A i \in 1 .. 10 - (k + 1) : pic_writes'[i] = PicInitWrites[i + (k + 1)]
  <2>1. Head(pic_writes) = pic_writes[1] /\ pic_writes[1] = PicInitWrites[k + 1]
    BY <1>1, <1>2 DEF PicAfter
  <2>2. \A i \in 1 .. 10 - (k + 1) :
          pic_writes'[i] = pic_writes[i + 1] /\ i + 1 \in 1 .. 10 - k
    BY <1>2
  <2>3. \A i \in 1 .. 10 - (k + 1) : pic_writes[i + 1] = PicInitWrites[(i + 1) + k]
    BY <1>1, <2>2 DEF PicAfter
  <2>4. \A i \in 1 .. 10 - (k + 1) : (i + 1) + k = i + (k + 1)
    OBVIOUS
  <2>5. Len(pic_writes') = 10 - (k + 1) /\ pic_writes' \in Seq(Ports \X (0 .. 255))
    BY <1>2
  <2> QED BY <2>1, <2>2, <2>3, <2>4, <2>5
<1>4. /\ master' \in Controller /\ slave' \in Controller
      /\ master.isr' = {} /\ slave.isr' = {}
      /\ asked' \subseteq asked
      /\ \A i \in 0 .. 7 : i \in master.irr' => i = 2 \/ i \in asked'
      /\ \A i \in 0 .. 7 : i \in slave.irr' => i + 8 \in asked'
  <2>1. PicWrite(PicInitWrites[k + 1]) /\ k + 1 \in 1 .. 10
    BY <1>3
  <2>2. \/ \E port \in {"master command", "slave command"} :
             PicInitWrites[k + 1] = <<port, 17>>
        \/ \E port \in {"master data", "slave data"} : \E byte \in 0 .. 255 :
             PicInitWrites[k + 1] = <<port, byte>>
    <3>1. PICK n \in 1 .. 10 : n = k + 1
      BY <2>1
    <3>2. n \in {1, 2} \/ n \in {3, 5, 7, 9} \/ n \in {4, 6, 8, 10}
      OBVIOUS
    <3>3. CASE n \in {1, 2}
      BY <3>1, <3>3, Writes
    <3>4. CASE n \in {3, 5, 7, 9}
      <4>1. \E byte \in 0 .. 255 : PicInitWrites[n] = <<"master data", byte>>
        BY <3>4, Writes, Bytes
      <4> QED BY <3>1, <4>1
    <3>5. CASE n \in {4, 6, 8, 10}
      <4>1. \E byte \in 0 .. 255 : PicInitWrites[n] = <<"slave data", byte>>
        BY <3>5, Writes, Bytes
      <4> QED BY <3>1, <4>1
    <3> QED BY <3>2, <3>3, <3>4, <3>5
  <2>3. CASE \E port \in {"master command", "slave command"} :
               PicInitWrites[k + 1] = <<port, 17>>
    BY <1>2, <2>1, <2>3, PicCommandFacts
  <2>4. CASE \E port \in {"master data", "slave data"} : \E byte \in 0 .. 255 :
               PicInitWrites[k + 1] = <<port, byte>>
    <3>1. PICK port \in {"master data", "slave data"}, byte \in 0 .. 255 :
            PicInitWrites[k + 1] = <<port, byte>>
      BY <2>4
    <3>2. PicWrite(<<port, byte>>)
      BY <2>1, <3>1
    <3>3. asked' = asked
      BY <1>2, <3>2, PicDataFacts
    <3>4. /\ master' \in Controller /\ slave' \in Controller
          /\ master.isr' = {} /\ slave.isr' = {}
      BY <1>2, <3>2, PicDataFacts
    <3>5. /\ \A i \in 0 .. 7 : i \in master.irr' => i = 2 \/ i \in asked
          /\ \A i \in 0 .. 7 : i \in slave.irr' => i + 8 \in asked
      BY <1>2, <3>2, PicDataFacts
    <3>6. /\ \A i \in 0 .. 7 : i \in master.irr' => i = 2 \/ i \in asked'
          /\ \A i \in 0 .. 7 : i \in slave.irr' => i + 8 \in asked'
      BY <3>3, <3>5
    <3>7. asked' \subseteq asked
      BY <3>3
    <3> QED BY <3>4, <3>6, <3>7
  <2> QED BY <2>2, <2>3, <2>4
<1>5. PicAfter(k + 1)'
  <2>1. PicWrite(PicInitWrites[k + 1])
    BY <1>3
  <2>2. Programmed(k)
    BY <1>1 DEF PicAfter
  <2>3. Programmed(k + 1)'
    BY <1>2, <2>1, <2>2, ProgrammedNext, Zenon
  <2> QED BY <1>3, <2>3 DEF PicAfter
<1>6. /\ UNCHANGED <<asserted, idt_entries, idt_irq_drivers, enabled, cpu>>
      /\ ~enabled /\ cpu.at = "kernel" /\ idt_entries = isr_stub_table
  BY DEF PicWrite, KernelAt, IntrInv, BootOk
<1>7. IntrTypesOk'
  BY <1>3, <1>4, <1>6 DEF IntrInv, IntrTypesOk, Stages
<1>8. BootOk'
  <2>1. k + 1 \in 0 .. 10 /\ (stage' = "pic" => k + 1 < 10) /\ (stage' # "pic" => k + 1 = 10)
        /\ stage' # "idt"
    BY <1>1, <1>2
  <2> QED BY <1>6, <1>5, <2>1 DEF BootOk
<1>9. CpuOk' /\ ServiceOk' /\ AskedOk'
  BY <1>4, <1>6 DEF IntrInv, CpuOk, ServiceOk, AskedOk
<1> QED BY <1>7, <1>8, <1>9 DEF IntrInv

LEMMA EnableStep ==
  ASSUME IntrInv, KernelAt("sti"), EnableInterrupts, stage' = "keyboard",
         pic_writes' = pic_writes
  PROVE  IntrInv'
<1>1. IntrTypesOk'
  BY DEF EnableInterrupts, IntrInv, IntrTypesOk, Stages
<1>2. BootOk'
  <2>1. PicAfter(10)'
    BY DEF KernelAt, EnableInterrupts, IntrInv, BootOk, PicAfter, Programmed
  <2> QED BY <2>1 DEF KernelAt, EnableInterrupts, IntrInv, BootOk
<1>3. CpuOk' /\ ServiceOk' /\ AskedOk'
  BY DEF KernelAt, InKernel, EnableInterrupts, IntrInv, CpuOk, ServiceOk, AskedOk
<1> QED BY <1>1, <1>2, <1>3 DEF IntrInv

LEMMA InstallStep ==
  ASSUME IntrInv, NEW n \in IrqNums, NEW driver \in Drivers, InstallIrqDriver(n, driver),
         stage \notin {"idt", "pic", "sti"}, stage' \in Stages \ {"idt", "pic", "sti"},
         pic_writes' = pic_writes
  PROVE  IntrInv'
<1>1. IntrTypesOk'
  BY DEF InstallIrqDriver, IntrInv, IntrTypesOk
<1>2. BootOk'
  <2>1. PicAfter(10)'
    BY DEF InstallIrqDriver, IntrInv, BootOk, PicAfter, Programmed
  <2> QED BY <2>1 DEF InstallIrqDriver, IntrInv, BootOk
<1>3. CpuOk' /\ ServiceOk' /\ AskedOk'
  BY DEF InstallIrqDriver, IntrInv, CpuOk, ServiceOk, AskedOk, IsInService
<1> QED BY <1>1, <1>2, <1>3 DEF IntrInv

\* kmain goes on.
LEMMA StageStep ==
  ASSUME IntrInv,
         UNCHANGED <<asserted, master, slave, idt_entries, idt_irq_drivers, enabled, cpu,
                     asked, pic_writes>>,
         stage' = stage \/ (/\ stage \notin {"idt", "pic", "sti"}
                            /\ stage' \in Stages \ {"idt", "pic", "sti"})
  PROVE  IntrInv'
<1>1. IntrTypesOk'
  BY DEF IntrInv, IntrTypesOk
<1>2. BootOk'
  <2>1. \A k \in 0 .. 10 : PicAfter(k) => PicAfter(k)'
    BY DEF PicAfter, Programmed
  <2> QED BY <2>1 DEF IntrInv, BootOk
<1>3. CpuOk' /\ ServiceOk' /\ AskedOk'
  BY DEF IntrInv, CpuOk, ServiceOk, AskedOk, IsInService
<1> QED BY <1>1, <1>2, <1>3 DEF IntrInv

-----------------------------------------------------------------------------
(***************************************************************************)
(* The invariant of the interrupts holds in every behaviour                *)
(***************************************************************************)

LEMMA WritesType == PicInitWrites \in Seq(Ports \X (0 .. 255)) /\ Len(PicInitWrites) = 10
<1> DEFINE Write == Ports \X (0 .. 255)
<1>1. \A port \in Ports, byte \in 0 .. 255 : <<port, byte>> \in Write
  OBVIOUS
<1> HIDE DEF Write
<1>2. /\ "master command" \in Ports /\ "slave command" \in Ports
      /\ "master data" \in Ports /\ "slave data" \in Ports
  BY DEF Ports
<1>3. 17 \in 0 .. 255
  OBVIOUS
<1>4. \A i \in 1 .. 10 : PicInitWrites[i] \in Write
  <2> SUFFICES ASSUME NEW i \in 1 .. 10 PROVE PicInitWrites[i] \in Write
    OBVIOUS
  <2>1. i \in {1, 2, 3, 4, 5, 6, 7, 8, 9, 10}
    OBVIOUS
  <2>2. /\ <<"master command", 17>> \in Write /\ <<"slave command", 17>> \in Write
    BY <1>1, <1>2, <1>3
  <2>3. \A byte \in 0 .. 255 :
          <<"master data", byte>> \in Write /\ <<"slave data", byte>> \in Write
    BY <1>1, <1>2
  <2>4. /\ <<"master data", 32>> \in Write /\ <<"master data", 4>> \in Write
        /\ <<"master data", 1>> \in Write /\ <<"master data", 0>> \in Write
    BY <2>3, Bytes
  <2>5. /\ <<"slave data", 40>> \in Write /\ <<"slave data", 2>> \in Write
        /\ <<"slave data", 1>> \in Write /\ <<"slave data", 0>> \in Write
    BY <2>3, Bytes
  <2>6. CASE i \in {1, 2}
    BY <2>2, <2>6, Writes
  <2>7. CASE i \in {3, 5, 7, 9}
    BY <2>4, <2>7, Writes
  <2>8. CASE i \in {4, 6, 8, 10}
    BY <2>5, <2>8, Writes
  <2> QED BY <2>1, <2>6, <2>7, <2>8
<1>5. Len(PicInitWrites) = 10 /\ PicInitWrites = [i \in 1 .. 10 |-> PicInitWrites[i]]
  BY DEF PicInitWrites, RemapWrites
<1>6. PicInitWrites \in Seq(Write)
  BY <1>4, <1>5
<1> QED BY <1>5, <1>6 DEF Write

LEMMA FirmwareFacts ==
  ASSUME NEW offset \in 0 .. 255, NEW cascade \in 0 .. 255
  PROVE  /\ Firmware(offset, cascade) \in Controller
         /\ Firmware(offset, cascade).word = 0
         /\ Firmware(offset, cascade).irr = {} /\ Firmware(offset, cascade).isr = {}
  BY DEF Firmware, Controller

LEMMA FirmwareStarts ==
  /\ Firmware(8, 4) \in Controller /\ Firmware(112, 2) \in Controller
  /\ Firmware(8, 4).word = 0 /\ Firmware(112, 2).word = 0
  /\ Firmware(8, 4).irr = {} /\ Firmware(112, 2).irr = {}
  /\ Firmware(8, 4).isr = {} /\ Firmware(112, 2).isr = {}
<1>1. 8 \in 0 .. 255 /\ 4 \in 0 .. 255
  OBVIOUS
<1>2. 112 \in 0 .. 255 /\ 2 \in 0 .. 255
  OBVIOUS
<1>3. /\ Firmware(8, 4) \in Controller /\ Firmware(8, 4).word = 0
      /\ Firmware(8, 4).irr = {} /\ Firmware(8, 4).isr = {}
  BY <1>1, FirmwareFacts
<1>4. /\ Firmware(112, 2) \in Controller /\ Firmware(112, 2).word = 0
      /\ Firmware(112, 2).irr = {} /\ Firmware(112, 2).isr = {}
  <2>1. \A offset, cascade \in 0 .. 255 :
          /\ Firmware(offset, cascade) \in Controller /\ Firmware(offset, cascade).word = 0
          /\ Firmware(offset, cascade).irr = {} /\ Firmware(offset, cascade).isr = {}
    BY FirmwareFacts
  <2> QED BY <1>2, <2>1, Zenon
<1> QED BY <1>3, <1>4

LEMMA IntrInit ==
  ASSUME Init
  PROVE  IntrInv
<1>1. /\ asserted = {} /\ asked = {} /\ enabled = FALSE
      /\ cpu = [at |-> "kernel", num |-> 0]
      /\ idt_irq_drivers = [n \in IrqNums |-> "idt_default_irq_handler"]
      /\ stage = "idt" /\ pic_writes = PicInitWrites
      /\ master = Firmware(8, 4) /\ slave = Firmware(112, 2)
  BY DEF Init, InterruptsInit
<1>2. /\ master \in Controller /\ master.word = 0
      /\ master.irr = {} /\ master.isr = {}
  BY <1>1, FirmwareStarts
<1>3. /\ slave \in Controller /\ slave.word = 0
      /\ slave.irr = {} /\ slave.isr = {}
  BY <1>1, FirmwareStarts
<1>4. cpu \in [at : Places, num : 0 .. 31] /\ cpu.at = "kernel"
  BY <1>1 DEF Places
<1>5. IntrTypesOk
  BY <1>1, <1>2, <1>3, <1>4, WritesType DEF IntrTypesOk, Drivers, Stages
<1>6. BootOk
  <2>1. \A i \in 1 .. 10 : pic_writes[i] = PicInitWrites[i + 0]
    BY <1>1
  <2>2. Programmed(0)
    BY <1>2, <1>3, Words DEF Programmed
  <2>3. PicAfter(0)
    BY <1>1, <2>1, <2>2, WritesType DEF PicAfter
  <2> QED BY <1>1, <2>3 DEF BootOk
<1>7. CpuOk /\ ServiceOk /\ AskedOk
  BY <1>1, <1>2, <1>3 DEF CpuOk, ServiceOk, AskedOk
<1> QED BY <1>5, <1>6, <1>7 DEF IntrInv

LEMMA KernelKeepsIntr ==
  ASSUME IntrInv, KernelStep
  PROVE  IntrInv'
<1>1. CASE InitIdt
  BY <1>1, IdtInitStep DEF InitIdt, Reports
<1>2. CASE InitPic
  BY <1>2, PicWriteStep DEF InitPic, Reports, KernelAt
<1>3. CASE EnablesInterrupts
  BY <1>3, EnableStep DEF EnablesInterrupts, Reports
<1>4. CASE InitKeyboard
  <2>0. /\ InKernel /\ stage = "keyboard"
        /\ UNCHANGED <<stage, pic_writes>>
    BY <1>4 DEF InitKeyboard, KernelAt, kernelVars
  <2>1. CASE SendCommand \/ RetriesExhausted \/ Flushed \/ AnnounceConfiguration
    BY <2>0, <2>1, StageStep 
    DEF SendCommand, RetriesExhausted, Flushed, AnnounceConfiguration, intrVars
  <2>2. CASE ReadAnswer \/ FlushByte
    BY <2>0, <2>2, ReadDataStep DEF ReadAnswer, FlushByte
  <2>3. CASE WriteConfiguration
    BY <2>0, <2>3, StageStep, RaiseLineStep DEF WriteConfiguration, IrqNums, intrVars
  <2>4. CASE InstallKeyboardDriver
    BY <2>0, <2>4, InstallStep DEF InstallKeyboardDriver, Drivers, Stages, IrqNums
  <2> QED BY <1>4, <2>1, <2>2, <2>3, <2>4 DEF InitKeyboard, KeyboardInitStep
<1>5. CASE KeyboardIsInitialised \/ InitMemory \/ GptIsInitialised
  <2>1. /\ stage \notin {"idt", "pic", "sti"}
        /\ stage' \in Stages \ {"idt", "pic", "sti"}
        /\ UNCHANGED <<asserted, master, slave, idt_entries, idt_irq_drivers, enabled, cpu,
                       asked, pic_writes>>
    BY <1>5 DEF KeyboardIsInitialised, InitMemory, GptIsInitialised, Reports, KernelAt,
                intrVars, Stages
  <2> QED BY <2>1, StageStep
<1>9. CASE DiskPollsForever
  BY <1>9, StageStep DEF DiskPollsForever, KernelAt, intrVars, Stages
<1>6. CASE KeyboardFails \/ InitFails \/ GptFails
  BY <1>6, StopStep DEF KeyboardFails, InitFails, GptFails, Fails, KernelAt
<1>7. CASE InitDisk
  BY <1>7, InstallStep DEF InitDisk, Reports, KernelAt, Drivers, Stages, IrqNums
<1>8. CASE InitShell \/ PrintPrompt \/ PromptIsPrinted \/ PromptAgain
  BY <1>8, StageStep
  DEF InitShell, PrintPrompt, PromptIsPrinted, PromptAgain, KernelAt, Stages, kernelVars, intrVars
<1> QED BY <1>1, <1>2, <1>3, <1>4, <1>5, <1>6, <1>7, <1>8, <1>9 DEF KernelStep

LEMMA NextKeepsIntr ==
  ASSUME IntrInv, [Next]_vars
  PROVE  IntrInv'
<1>1. CASE KernelStep
  BY <1>1, KernelKeepsIntr
<1>2. CASE Interrupted
  <2>1. CASE KeyIsIgnored \/ LetterIsTyped \/ EnterIsTyped
    BY <2>1, KeyboardIrqStep DEF KeyIsIgnored, LetterIsTyped, EnterIsTyped, kernelVars
  <2>2. CASE InterruptStep /\ UNCHANGED kernelVars
    BY <2>2, AcceptStep, AckMasterStep, AckSlaveStep, OtherDriverStep, SlaveEoiStep,
       MasterEoiStep
    DEF InterruptStep, kernelVars
  <2>3. CASE ExceptionStops /\ UNCHANGED kernelVars
    <3>1. stage \notin {"idt", "pic", "sti"}
      BY <2>3, InterruptsNeedBoot DEF ExceptionStops
    <3> QED BY <2>3, <3>1, StopStep DEF ExceptionStops, kernelVars
  <2> QED BY <1>2, <2>1, <2>2, <2>3 DEF Interrupted
<1>3. CASE KeyboardWorks
  <2>1. UNCHANGED <<stage, pic_writes>>
    BY <1>3 DEF KeyboardWorks, kernelVars
  <2>2. CASE KeyboardObeys \/ KeyboardAsksAgain
    BY <2>1, <2>2, StageStep DEF KeyboardObeys, KeyboardAsksAgain, intrVars
  <2>3. CASE KeyboardSends
    BY <2>1, <2>3, StageStep, RaiseLineStep DEF KeyboardSends, IrqNums, intrVars
  <2> QED BY <1>3, <2>2, <2>3 DEF KeyboardWorks
<1>4. CASE Environment
  <2>1. UNCHANGED <<stage, pic_writes>>
    BY <1>4 DEF Environment, kernelVars
  <2>2. CASE PressKey
    BY <2>1, <2>2, StageStep DEF PressKey, intrVars
  <2>3. CASE DeviceStep
    BY <2>1, <2>3, RaiseLineStep, DropStep, LinesAssumption DEF DeviceStep, Raise
  <2>4. CASE Nmi
    BY <2>1, <2>4, NmiStep
  <2> QED BY <1>4, <2>2, <2>3, <2>4 DEF Environment
<1>5. CASE UNCHANGED vars
  BY <1>5, StageStep DEF vars, kernelVars, intrVars
<1> QED BY <1>1, <1>2, <1>3, <1>4, <1>5 DEF Next

THEOREM InterruptsHold == Spec => []IntrInv
<1>1. Init => IntrInv
  BY IntrInit
<1>2. IntrInv /\ [Next]_vars => IntrInv'
  BY NextKeepsIntr
<1> QED BY <1>1, <1>2, PTL DEF Spec

\* DriverWasAskedFor: the driver that runs is that of a device which asked, or a
\* controller answers without a request, and every vector has its gate (pic.c:47,
\* idt.c:77-85).
THEOREM DriversWereAskedFor == Spec => []DriverWasAskedFor
<1>1. IntrInv => DriverWasAskedFor
  <2> SUFFICES ASSUME IntrInv PROVE DriverWasAskedFor
    OBVIOUS
  <2>1. cpu.at # "reset"
    BY DEF IntrInv, IntrTypesOk, Places
  <2>2. cpu.at = "idt_irq_handler" => cpu.num \in asked \cup {7, 15}
    BY DEF IntrInv, AskedOk
  <2> QED BY <2>1, <2>2 DEF DriverWasAskedFor
<1> QED BY <1>1, InterruptsHold, PTL

\* NothingLeftInService: no line is in service while the kernel's code runs, and at
\* most its own while a handler runs (pic.c:49-52, idt.c:72-75).
THEOREM NothingIsLeftInService == Spec => []NothingLeftInService
<1>1. IntrInv => NothingLeftInService
  BY DEF IntrInv, ServiceOk, NothingLeftInService, InKernel
<1> QED BY <1>1, InterruptsHold, PTL

-----------------------------------------------------------------------------
(***************************************************************************)
(* The keyboard: a byte in the output buffer has its interrupt still to    *)
(* come.  It rests on the invariant of the interrupts.                     *)
(***************************************************************************)

KeyboardBytes == {"ACK", "RESEND", "KEY"}
KeyboardCommands == {"DISABLE_SCANNING", "SET_SCANCODE_SET", "2", "ENABLE_SCANNING"}
Steps ==
  {"disable", "flush", "ccb", "ccb_data", "set", "number", "install", "enable", "done",
   "failed"}

Keyboards ==
  [inbox : KeyboardCommands \cup {None}, number : BOOLEAN, set : {1, 2},
   scanning : BOOLEAN, out : Seq(KeyboardBytes), keys : Nat, resends : Nat]

KbdTypesOk ==
  /\ kbd \in Keyboards
  /\ kbc \in [full : BOOLEAN, data : KeyboardBytes, interrupts : BOOLEAN,
              translation : BOOLEAN]
  /\ kinit \in [at : Steps, tries : Nat, reading : BOOLEAN]
  /\ late \in BOOLEAN

BeforeKeyboard == {"idt", "pic", "sti"}

\* What the progress of keyboard_init says about the controller and the driver.
KinitOk ==
  /\ kinit.reading => kinit.at \in {"disable", "set", "number", "enable"}
  /\ stage \in BeforeKeyboard => kinit.at = "disable" /\ ~kinit.reading
  /\ kinit.at \in {"set", "number", "install", "enable", "done"} =>
       kbc.interrupts /\ ~kbc.translation
  /\ kinit.at \in {"enable", "done"} => idt_irq_drivers[1] = "keyboard_irq_handler"

NoAnswer(bytes) == \A i \in 1 .. Len(bytes) : bytes[i] = "KEY"

\* What an answer to the command that was sent says about the keyboard.
Means(answer) ==
  /\ kinit.at = "set" /\ answer = "ACK" => kbd.number = TRUE
  /\ kinit.at = "number" /\ answer = "ACK" => kbd.set = 2
  /\ kinit.at = "number" /\ answer = "RESEND" => kbd.number = TRUE
  /\ kinit.at = "enable" /\ answer = "ACK" => kbd.scanning = TRUE

\* The one answer that is under way, at place i of what the keyboard has to send.
AnswerAt(i) ==
  /\ kbd.out[i] \in Answers /\ Means(kbd.out[i])
  /\ \A j \in 1 .. Len(kbd.out) : j # i => kbd.out[j] = "KEY"

\* The exchange with the keyboard while no answer has been missed: at most one command
\* or one answer is under way, and it is the one that keyboard_init waits for.
Conversation ==
  /\ ~kinit.reading => ~InputFull /\ NoAnswer(kbd.out)
  /\ InputFull => kbd.inbox = CommandOf[kinit.at] /\ NoAnswer(kbd.out)
  /\ kinit.reading /\ ~InputFull =>
       \/ NoAnswer(kbd.out) /\ (kbc.data \in Answers => Means(kbc.data))
       \/ \E i \in 1 .. Len(kbd.out) : AnswerAt(i)
  /\ kinit.at = "number" /\ (~kinit.reading \/ InputFull) => kbd.number = TRUE
  /\ kinit.at \in {"install", "enable", "done"} => kbd.set = 2
  /\ kinit.at = "done" => kbd.scanning = TRUE

AnswersOk == stage \in BeforeKeyboard \cup {"keyboard"} /\ ~late => Conversation

KbdInv == KbdTypesOk /\ KinitOk /\ KeyboardStaysAlive /\ AnswersOk

-----------------------------------------------------------------------------
(***************************************************************************)
(* The queue of the keyboard                                               *)
(***************************************************************************)

LEMMA KeyQueued ==
  ASSUME NEW q \in Seq(KeyboardBytes), NEW b \in KeyboardBytes
  PROVE  /\ Append(q, b) \in Seq(KeyboardBytes) /\ Len(Append(q, b)) = Len(q) + 1
         /\ Append(q, b)[Len(q) + 1] = b
         /\ \A i \in 1 .. Len(q) : Append(q, b)[i] = q[i]
         /\ NoAnswer(q) /\ b = "KEY" => NoAnswer(Append(q, b))
<1>1. /\ Append(q, b) \in Seq(KeyboardBytes) /\ Len(Append(q, b)) = Len(q) + 1
      /\ Append(q, b)[Len(q) + 1] = b
      /\ \A i \in 1 .. Len(q) : Append(q, b)[i] = q[i]
  OBVIOUS
<1>2. \A i \in 1 .. Len(q) + 1 : i \in 1 .. Len(q) \/ i = Len(q) + 1
  OBVIOUS
<1> QED BY <1>1, <1>2 DEF NoAnswer

LEMMA KeySent ==
  ASSUME NEW q \in Seq(KeyboardBytes), q # <<>>
  PROVE  /\ Tail(q) \in Seq(KeyboardBytes) /\ Len(Tail(q)) = Len(q) - 1
         /\ Head(q) = q[1] /\ Head(q) \in KeyboardBytes /\ 1 \in 1 .. Len(q)
         /\ \A i \in 1 .. Len(q) - 1 : Tail(q)[i] = q[i + 1] /\ i + 1 \in 1 .. Len(q)
         /\ NoAnswer(q) => NoAnswer(Tail(q)) /\ Head(q) = "KEY"
<1>1. /\ Tail(q) \in Seq(KeyboardBytes) /\ Len(Tail(q)) = Len(q) - 1
      /\ Head(q) = q[1] /\ Head(q) \in KeyboardBytes /\ 1 \in 1 .. Len(q)
      /\ \A i \in 1 .. Len(q) - 1 : Tail(q)[i] = q[i + 1] /\ i + 1 \in 1 .. Len(q)
  OBVIOUS
<1> QED BY <1>1 DEF NoAnswer

LEMMA QueueFacts ==
  ASSUME NEW k \in Keyboards, NEW b \in KeyboardBytes
  PROVE  /\ Queue(k, b) \in Keyboards /\ Queue(k, b).out = Append(k.out, b)
         /\ Queue(k, b).inbox = k.inbox /\ Queue(k, b).number = k.number
         /\ Queue(k, b).set = k.set /\ Queue(k, b).scanning = k.scanning
<1>1. Append(k.out, b) \in Seq(KeyboardBytes)
  BY KeyQueued DEF Keyboards
<1> QED BY <1>1 DEF Queue, Keyboards

\* What the keyboard does with a byte.
LEMMA ObeyedFacts ==
  ASSUME NEW k \in Keyboards, NEW byte \in KeyboardCommands
  PROVE  /\ Obeyed(k, byte) \in Keyboards /\ Obeyed(k, byte).inbox = k.inbox
         /\ Obeyed(k, byte).set = k.set \/ Obeyed(k, byte).set = 2
         /\ byte \in {"DISABLE_SCANNING", "ENABLE_SCANNING"} =>
              Obeyed(k, byte).out = <<"ACK">>
         /\ byte = "ENABLE_SCANNING" => Obeyed(k, byte).scanning = TRUE
         /\ byte = "SET_SCANCODE_SET" =>
              Obeyed(k, byte).number = TRUE /\ Obeyed(k, byte).out = Append(k.out, "ACK")
         /\ byte = "2" /\ k.number =>
              Obeyed(k, byte).set = 2 /\ Obeyed(k, byte).out = Append(k.out, "ACK")
<1>1. <<"ACK">> \in Seq(KeyboardBytes)
  BY DEF KeyboardBytes
<1>2. "ACK" \in KeyboardBytes /\ "RESEND" \in KeyboardBytes
  BY DEF KeyboardBytes
<1>3. CASE byte = "DISABLE_SCANNING"
  BY <1>1, <1>3 DEF Obeyed, Keyboards
<1>4. CASE byte = "ENABLE_SCANNING"
  BY <1>1, <1>4 DEF Obeyed, Keyboards
<1>5. CASE byte = "SET_SCANCODE_SET"
  <2> DEFINE l == [k EXCEPT !.number = TRUE]
  <2>1. l \in Keyboards /\ l.number = TRUE /\ l.out = k.out /\ l.set = k.set /\ l.inbox = k.inbox
    BY DEF Keyboards
  <2>2. Obeyed(k, byte) = Queue(l, "ACK")
    BY <1>5 DEF Obeyed
  <2> HIDE DEF l
  <2> QED BY <1>2, <1>5, <2>1, <2>2, QueueFacts
<1>6. CASE byte = "2" /\ k.number
  <2> DEFINE l == [k EXCEPT !.number = FALSE, !.set = 2]
  <2>1. l \in Keyboards /\ l.out = k.out /\ l.set = 2 /\ l.inbox = k.inbox
    BY DEF Keyboards
  <2>2. Obeyed(k, byte) = Queue(l, "ACK")
    BY <1>6 DEF Obeyed
  <2> HIDE DEF l
  <2> QED BY <1>2, <1>6, <2>1, <2>2, QueueFacts
<1>7. CASE byte = "2" /\ ~k.number
  <2>1. Obeyed(k, byte) = Queue(k, "RESEND")
    BY <1>7 DEF Obeyed
  <2> QED BY <1>2, <1>7, <2>1, QueueFacts
<1> QED BY <1>3, <1>4, <1>5, <1>6, <1>7 DEF KeyboardCommands

\* The keyboard takes the byte it was sent.
Taken(k) == [k EXCEPT !.inbox = None]

LEMMA TakenFacts ==
  ASSUME NEW k \in Keyboards
  PROVE  /\ Taken(k) \in Keyboards /\ Taken(k).inbox = None
         /\ Taken(k).number = k.number /\ Taken(k).set = k.set
         /\ Taken(k).scanning = k.scanning /\ Taken(k).out = k.out
  BY DEF Taken, Keyboards

-----------------------------------------------------------------------------
(***************************************************************************)
(* The keyboard at work                                                    *)
(***************************************************************************)

\* While no answer is missed, a command is under way only if keyboard_init waits for
\* its answer.
LEMMA CommandUnderWay ==
  ASSUME KbdInv, Conversation, InputFull
  PROVE  /\ kinit.reading /\ kinit.at \in {"disable", "set", "number", "enable"}
         /\ kbd.inbox = CommandOf[kinit.at] /\ NoAnswer(kbd.out)
         /\ kinit.at = "number" => kbd.number = TRUE
  BY DEF KbdInv, KinitOk, Conversation

LEMMA ObeysKeepsConversation ==
  ASSUME KbdInv, KeyboardObeys, Conversation
  PROVE  Conversation'
<1>1. /\ InputFull
      /\ kbd' = Obeyed(Taken(kbd), kbd.inbox)
      /\ kbc' = kbc /\ kinit' = kinit
  BY DEF KeyboardObeys, InputFull, Taken
<1>2. /\ kinit.reading /\ kinit.at \in {"disable", "set", "number", "enable"}
      /\ kbd.inbox = CommandOf[kinit.at] /\ NoAnswer(kbd.out)
      /\ kinit.at = "number" => kbd.number = TRUE
  BY <1>1, CommandUnderWay
<1>3. kbd \in Keyboards /\ kbd.inbox \in KeyboardCommands
  BY <1>1 DEF KbdInv, KbdTypesOk, InputFull, Keyboards
<1> DEFINE k == Taken(kbd)
<1>4. /\ k \in Keyboards /\ k.inbox = None /\ k.out = kbd.out /\ k.set = kbd.set
      /\ k.number = kbd.number
  BY <1>3, TakenFacts
<1> HIDE DEF k
<1>5. /\ kbd' = Obeyed(k, kbd.inbox) /\ kbd' \in Keyboards /\ kbd'.inbox = None
      /\ kbd.set = 2 => kbd'.set = 2
  BY <1>1, <1>3, <1>4, ObeyedFacts DEF k
<1>6. k.out \in Seq(KeyboardBytes) /\ "ACK" \in KeyboardBytes
  BY <1>4 DEF Keyboards, KeyboardBytes
<1>7. \/ kbd'.out = <<"ACK">>
      \/ kbd'.out = Append(k.out, "ACK")
  <2>1. CASE kinit.at = "disable" \/ kinit.at = "enable"
    <3>1. kbd.inbox \in {"DISABLE_SCANNING", "ENABLE_SCANNING"}
      BY <1>2, <2>1 DEF CommandOf
    <3> QED BY <1>3, <1>4, <1>5, <3>1, ObeyedFacts
  <2>2. CASE kinit.at = "set"
    <3>1. kbd.inbox = "SET_SCANCODE_SET"
      BY <1>2, <2>2 DEF CommandOf
    <3> QED BY <1>3, <1>4, <1>5, <3>1, ObeyedFacts
  <2>3. CASE kinit.at = "number"
    <3>1. kbd.inbox = "2" /\ k.number
      BY <1>2, <1>4, <2>3 DEF CommandOf
    <3> QED BY <1>3, <1>4, <1>5, <3>1, ObeyedFacts
  <2> QED BY <1>2, <2>1, <2>2, <2>3
<1>8. PICK i \in 1 .. Len(kbd'.out) :
        kbd'.out[i] = "ACK" /\ \A j \in 1 .. Len(kbd'.out) : j # i => kbd'.out[j] = "KEY"
  <2>1. CASE kbd'.out = <<"ACK">>
    BY <2>1
  <2>2. CASE kbd'.out = Append(k.out, "ACK")
    <3>1. /\ Len(kbd'.out) = Len(k.out) + 1 /\ kbd'.out[Len(k.out) + 1] = "ACK"
          /\ \A j \in 1 .. Len(k.out) : kbd'.out[j] = "KEY"
      BY <1>2, <1>4, <1>6, <2>2, KeyQueued DEF NoAnswer
    <3>2. Len(k.out) \in Nat
      BY <1>6
    <3>3. /\ Len(k.out) + 1 \in 1 .. Len(kbd'.out)
          /\ \A j \in 1 .. Len(kbd'.out) : j # Len(k.out) + 1 => j \in 1 .. Len(k.out)
      BY <3>1, <3>2
    <3> QED BY <3>1, <3>3
  <2> QED BY <1>7, <2>1, <2>2
<1>9. Means("ACK")'
  <2>1. CASE kinit.at = "disable"
    BY <1>1, <2>1 DEF Means
  <2>2. CASE kinit.at = "set"
    <3>1. kbd.inbox = "SET_SCANCODE_SET"
      BY <1>2, <2>2 DEF CommandOf
    <3> QED BY <1>1, <1>3, <1>4, <1>5, <2>2, <3>1, ObeyedFacts DEF Means
  <2>3. CASE kinit.at = "number"
    <3>1. kbd.inbox = "2" /\ k.number
      BY <1>2, <1>4, <2>3 DEF CommandOf
    <3>2. kbd'.set = 2
      BY <1>3, <1>4, <1>5, <3>1, ObeyedFacts
    <3> QED BY <1>1, <2>3, <3>2 DEF Means
  <2>4. CASE kinit.at = "enable"
    <3>1. kbd.inbox = "ENABLE_SCANNING"
      BY <1>2, <2>4 DEF CommandOf
    <3> QED BY <1>1, <1>3, <1>4, <1>5, <2>4, <3>1, ObeyedFacts DEF Means
  <2> QED BY <1>2, <2>1, <2>2, <2>3, <2>4
<1>10. ~InputFull'
  BY <1>5 DEF InputFull
<1>11. AnswerAt(i)'
  BY <1>8, <1>9 DEF AnswerAt, Answers
<1> QED BY <1>1, <1>2, <1>5, <1>8, <1>10, <1>11 DEF Conversation

LEMMA ObeysStep ==
  ASSUME KbdInv, KeyboardObeys, UNCHANGED stage
  PROVE  KbdInv'
<1>1. /\ kbd' = Obeyed(Taken(kbd), kbd.inbox) /\ kbd.inbox # None
      /\ UNCHANGED <<kbc, kinit, late, master, cpu, idt_irq_drivers>>
  BY DEF KeyboardObeys, Taken, intrVars
<1>2. kbd' \in Keyboards
  <2>1. kbd \in Keyboards /\ kbd.inbox \in KeyboardCommands
    BY <1>1 DEF KbdInv, KbdTypesOk, Keyboards
  <2> QED BY <1>1, <2>1, TakenFacts, ObeyedFacts
<1>3. KbdTypesOk'
  BY <1>1, <1>2 DEF KbdInv, KbdTypesOk
<1>4. KinitOk' /\ KeyboardStaysAlive'
  BY <1>1 DEF KbdInv, KinitOk, KeyboardStaysAlive
<1>5. AnswersOk'
  BY <1>1, ObeysKeepsConversation DEF KbdInv, AnswersOk
<1> QED BY <1>3, <1>4, <1>5 DEF KbdInv

\* A byte is added to what the keyboard has to send: a key, or the request to repeat
\* the command.
LEMMA AsksAgainStep ==
  ASSUME KbdInv, KeyboardAsksAgain, UNCHANGED stage
  PROVE  KbdInv'
<1> DEFINE k == [kbd EXCEPT !.inbox = None, !.resends = @ - 1]
<1>1. /\ kbd' = Queue(k, "RESEND") /\ kbd.inbox # None /\ kbd.resends > 0
      /\ UNCHANGED <<kbc, kinit, late, master, cpu, idt_irq_drivers>>
  BY DEF KeyboardAsksAgain, intrVars
<1>2. kbd \in Keyboards
  BY DEF KbdInv, KbdTypesOk
<1>3. kbd.resends - 1 \in Nat
  BY <1>1, <1>2 DEF Keyboards
<1>4. /\ k \in Keyboards /\ k.inbox = None /\ k.out = kbd.out /\ k.set = kbd.set
      /\ k.number = kbd.number
  BY <1>2, <1>3 DEF Keyboards
<1> HIDE DEF k
<1>5. "RESEND" \in KeyboardBytes
  BY DEF KeyboardBytes
<1>6. /\ kbd' \in Keyboards /\ kbd'.inbox = None /\ kbd'.out = Append(kbd.out, "RESEND")
      /\ kbd'.set = kbd.set /\ kbd'.number = kbd.number
  BY <1>1, <1>4, <1>5, QueueFacts
<1>7. KbdTypesOk'
  BY <1>1, <1>6 DEF KbdInv, KbdTypesOk
<1>8. KinitOk' /\ KeyboardStaysAlive'
  BY <1>1 DEF KbdInv, KinitOk, KeyboardStaysAlive
<1>9. ASSUME Conversation PROVE Conversation'
  <2>1. /\ kinit.reading /\ kinit.at \in {"disable", "set", "number", "enable"}
        /\ NoAnswer(kbd.out)
        /\ kinit.at = "number" => kbd.number = TRUE
    BY <1>1, <1>9, CommandUnderWay DEF InputFull
  <2>2. kbd.out \in Seq(KeyboardBytes) /\ Len(kbd.out) \in Nat
    BY <1>2 DEF Keyboards
  <2>3. PICK i \in Nat : i = Len(kbd.out) + 1
    BY <2>2
  <2>4. /\ Len(kbd'.out) = i /\ kbd'.out[i] = "RESEND"
        /\ \A j \in 1 .. Len(kbd.out) : kbd'.out[j] = "KEY"
    BY <1>5, <1>6, <2>1, <2>2, <2>3, KeyQueued DEF NoAnswer
  <2>5. i \in 1 .. Len(kbd'.out) /\ \A j \in 1 .. Len(kbd'.out) : j # i => j \in 1 .. Len(kbd.out)
    BY <2>2, <2>3, <2>4
  <2>6. Means("RESEND")'
    BY <1>1, <1>6, <2>1 DEF Means
  <2>7. AnswerAt(i)'
    BY <2>4, <2>5, <2>6 DEF AnswerAt, Answers
  <2>8. ~InputFull'
    BY <1>6 DEF InputFull
  <2> QED BY <1>1, <1>6, <1>9, <2>1, <2>5, <2>7, <2>8 DEF Conversation
<1>10. AnswersOk'
  BY <1>1, <1>9 DEF KbdInv, AnswersOk
<1> QED BY <1>7, <1>8, <1>10 DEF KbdInv

LEMMA PressKeyStep ==
  ASSUME KbdInv, PressKey, UNCHANGED stage
  PROVE  KbdInv'
<1> DEFINE k == [kbd EXCEPT !.keys = @ - 1]
<1>1. /\ kbd' = Queue(k, "KEY") /\ kbd.keys > 0
      /\ UNCHANGED <<kbc, kinit, late, master, cpu, idt_irq_drivers>>
  BY DEF PressKey, intrVars
<1>2. kbd \in Keyboards
  BY DEF KbdInv, KbdTypesOk
<1>3. kbd.keys - 1 \in Nat
  BY <1>1, <1>2 DEF Keyboards
<1>4. /\ k \in Keyboards /\ k.inbox = kbd.inbox /\ k.out = kbd.out /\ k.set = kbd.set
      /\ k.number = kbd.number /\ k.scanning = kbd.scanning
  BY <1>2, <1>3 DEF Keyboards
<1> HIDE DEF k
<1>5. "KEY" \in KeyboardBytes
  BY DEF KeyboardBytes
<1>6. /\ kbd' \in Keyboards /\ kbd'.inbox = kbd.inbox /\ kbd'.out = Append(kbd.out, "KEY")
      /\ kbd'.set = kbd.set /\ kbd'.number = kbd.number /\ kbd'.scanning = kbd.scanning
  BY <1>1, <1>4, <1>5, QueueFacts
<1>7. KbdTypesOk'
  BY <1>1, <1>6 DEF KbdInv, KbdTypesOk
<1>8. KinitOk' /\ KeyboardStaysAlive'
  BY <1>1 DEF KbdInv, KinitOk, KeyboardStaysAlive
<1>9. ASSUME Conversation PROVE Conversation'
  <2>1. kbd.out \in Seq(KeyboardBytes) /\ Len(kbd.out) \in Nat
    BY <1>2 DEF Keyboards
  <2>2. /\ Len(kbd'.out) = Len(kbd.out) + 1 /\ kbd'.out[Len(kbd.out) + 1] = "KEY"
        /\ \A j \in 1 .. Len(kbd.out) : kbd'.out[j] = kbd.out[j]
        /\ NoAnswer(kbd.out) => NoAnswer(kbd'.out)
    BY <1>5, <1>6, <2>1, KeyQueued
  <2>3. \A a \in KeyboardBytes : Means(a) => Means(a)'
    BY <1>1, <1>6 DEF Means
  <2>4. \A i \in 1 .. Len(kbd.out) :
          AnswerAt(i) => i \in 1 .. Len(kbd'.out) /\ AnswerAt(i)'
    <3> SUFFICES ASSUME NEW i \in 1 .. Len(kbd.out), AnswerAt(i)
                 PROVE  i \in 1 .. Len(kbd'.out) /\ AnswerAt(i)'
      OBVIOUS
    <3>1. /\ i \in 1 .. Len(kbd'.out)
          /\ \A j \in 1 .. Len(kbd'.out) : j \in 1 .. Len(kbd.out) \/ j = Len(kbd.out) + 1
      BY <2>1, <2>2
    <3>2. kbd'.out[i] = kbd.out[i] /\ kbd.out[i] \in KeyboardBytes
      BY <2>1, <2>2
    <3>3. Means(kbd.out[i])'
      BY <2>3, <3>2, <1>1, <1>6 DEF AnswerAt, Means
    <3>4. \A j \in 1 .. Len(kbd'.out) : j # i => kbd'.out[j] = "KEY"
      BY <2>2, <3>1 DEF AnswerAt
    <3> QED BY <3>1, <3>2, <3>3, <3>4 DEF AnswerAt
  <2>5. InputFull' <=> InputFull
    BY <1>6 DEF InputFull
  <2>6. kbc.data \in Answers /\ Means(kbc.data) => Means(kbc.data)'
    BY <1>1, <1>6 DEF Means
  <2> QED BY <1>1, <1>6, <1>9, <2>2, <2>4, <2>5, <2>6 DEF Conversation
<1>10. AnswersOk'
  BY <1>1, <1>9 DEF KbdInv, AnswersOk
<1> QED BY <1>7, <1>8, <1>10 DEF KbdInv

LEMMA SendsKeepsConversation ==
  ASSUME KbdInv, KeyboardSends, Conversation
  PROVE  Conversation'
<1>1. /\ kbd.out # <<>> /\ kbd' = [kbd EXCEPT !.out = Tail(@)]
      /\ kbc' = [kbc EXCEPT !.full = TRUE, !.data = Head(kbd.out)]
      /\ kinit' = kinit
  BY DEF KeyboardSends
<1>2. kbd \in Keyboards /\ kbd.out \in Seq(KeyboardBytes)
  BY DEF KbdInv, KbdTypesOk, Keyboards
<1>3. /\ kbd'.out = Tail(kbd.out)
      /\ kbd'.inbox = kbd.inbox /\ kbd'.set = kbd.set /\ kbd'.number = kbd.number
      /\ kbd'.scanning = kbd.scanning
  BY <1>1, <1>2 DEF Keyboards
<1>4. kbc'.data = kbd.out[1]
  <2>1. kbc'.data = Head(kbd.out)
    BY <1>1 DEF KbdInv, KbdTypesOk
  <2> QED BY <1>1, <1>2, <2>1, KeySent
<1>5. /\ Len(kbd'.out) = Len(kbd.out) - 1 /\ 1 \in 1 .. Len(kbd.out)
      /\ \A i \in 1 .. Len(kbd.out) - 1 :
           kbd'.out[i] = kbd.out[i + 1] /\ i + 1 \in 1 .. Len(kbd.out)
      /\ NoAnswer(kbd.out) => NoAnswer(kbd'.out)
  BY <1>1, <1>2, <1>3, KeySent
<1>6. InputFull' <=> InputFull
  BY <1>3 DEF InputFull
<1>7. ASSUME kinit.reading, ~InputFull
      PROVE  \/ NoAnswer(kbd'.out) /\ (kbc'.data \in Answers => Means(kbc.data)')
             \/ \E i \in 1 .. Len(kbd'.out) : AnswerAt(i)'
  <2>1. CASE NoAnswer(kbd.out)
    <3>1. kbc'.data \notin Answers
      BY <1>4, <1>5, <2>1 DEF NoAnswer, Answers
    <3> QED BY <1>5, <2>1, <3>1
  <2>2. CASE \E i \in 1 .. Len(kbd.out) : AnswerAt(i)
    <3>1. PICK i \in 1 .. Len(kbd.out) : AnswerAt(i)
      BY <2>2
    <3>2. CASE i = 1
      <4>1. NoAnswer(kbd'.out)
        <5> SUFFICES ASSUME NEW j \in 1 .. Len(kbd'.out) PROVE kbd'.out[j] = "KEY"
          BY DEF NoAnswer
        <5>1. j \in 1 .. Len(kbd.out) - 1 /\ j + 1 # 1
          BY <1>5
        <5>2. kbd'.out[j] = kbd.out[j + 1] /\ j + 1 \in 1 .. Len(kbd.out)
          BY <1>5, <5>1
        <5> QED BY <3>1, <3>2, <5>1, <5>2 DEF AnswerAt
      <4>2. Means(kbc.data)'
        <5>1. Means(kbd.out[1])
          BY <3>1, <3>2 DEF AnswerAt
        <5> QED BY <1>1, <1>3, <1>4, <5>1 DEF Means
      <4> QED BY <4>1, <4>2
    <3>3. CASE i # 1
      <4>1. PICK h \in Nat : h = i - 1 /\ h \in 1 .. Len(kbd'.out) /\ h \in 1 .. Len(kbd.out) - 1
        BY <1>2, <1>5, <3>3
      <4>2. h + 1 = i /\ kbd'.out[h] = kbd.out[i]
        BY <1>5, <4>1
      <4>3. Means(kbd.out[i])
        BY <3>1 DEF AnswerAt
      <4>4. Means(kbd.out[h])'
        BY <1>1, <1>3, <4>2, <4>3 DEF Means
      <4>5. \A j \in 1 .. Len(kbd'.out) : j # h => kbd'.out[j] = "KEY"
        <5> SUFFICES ASSUME NEW j \in 1 .. Len(kbd'.out), j # h PROVE kbd'.out[j] = "KEY"
          OBVIOUS
        <5>1. j \in 1 .. Len(kbd.out) - 1 /\ j + 1 # i
          BY <1>5, <4>1
        <5>2. kbd'.out[j] = kbd.out[j + 1] /\ j + 1 \in 1 .. Len(kbd.out)
          BY <1>5, <5>1
        <5> QED BY <3>1, <5>1, <5>2 DEF AnswerAt
      <4>6. AnswerAt(h)'
        BY <3>1, <4>2, <4>4, <4>5 DEF AnswerAt
      <4> QED BY <4>1, <4>6
    <3> QED BY <3>2, <3>3
  <2>3. CASE NoAnswer(kbd.out) \/ \E i \in 1 .. Len(kbd.out) : AnswerAt(i)
    BY <2>1, <2>2, <2>3
  <2> QED BY <1>7, <2>3 DEF Conversation
<1> QED BY <1>1, <1>3, <1>5, <1>6, <1>7 DEF Conversation

LEMMA SendsStep ==
  ASSUME IntrInv, KbdInv, KeyboardSends, UNCHANGED <<stage, pic_writes>>
  PROVE  KbdInv'
<1>1. /\ kbd.out # <<>> /\ kbd' = [kbd EXCEPT !.out = Tail(@)]
      /\ kbc' = [kbc EXCEPT !.full = TRUE, !.data = Head(kbd.out)]
      /\ UNCHANGED <<kinit, late>>
      /\ IF kbc.interrupts THEN RaiseLine(1) ELSE UNCHANGED intrVars
  BY DEF KeyboardSends
<1>2. /\ kbd \in Keyboards /\ kbd.out \in Seq(KeyboardBytes)
      /\ kbc \in [full : BOOLEAN, data : KeyboardBytes, interrupts : BOOLEAN,
                  translation : BOOLEAN]
  BY DEF KbdInv, KbdTypesOk, Keyboards
<1>3. Tail(kbd.out) \in Seq(KeyboardBytes) /\ Head(kbd.out) \in KeyboardBytes
  BY <1>1, <1>2, KeySent
<1>4. kbd' \in Keyboards
  BY <1>1, <1>2, <1>3 DEF Keyboards
<1>5. /\ kbc' \in [full : BOOLEAN, data : KeyboardBytes, interrupts : BOOLEAN,
                   translation : BOOLEAN]
      /\ kbc'.interrupts = kbc.interrupts /\ kbc'.translation = kbc.translation
  BY <1>1, <1>2, <1>3
<1>6. KbdTypesOk'
  BY <1>1, <1>4, <1>5 DEF KbdInv, KbdTypesOk
<1>7. idt_irq_drivers' = idt_irq_drivers
  BY <1>1 DEF RaiseLine, intrVars
<1>8. KinitOk'
  BY <1>1, <1>5, <1>7 DEF KbdInv, KinitOk
<1>9. KeyboardStaysAlive'
  <2>1. kinit.at = "done" => RaiseLine(1)
    BY <1>1 DEF KbdInv, KinitOk
  <2>2. RaiseLine(1) => 1 \in master.irr'
    <3>1. 1 \in IrqNums /\ 1 \in 0 .. 7
      BY DEF IrqNums
    <3> QED BY <3>1, LineRisesFacts DEF RaiseLine, IntrInv
  <2> QED BY <1>1, <2>1, <2>2 DEF KeyboardStaysAlive
<1>10. AnswersOk'
  BY <1>1, SendsKeepsConversation DEF KbdInv, AnswersOk
<1> QED BY <1>6, <1>8, <1>9, <1>10 DEF KbdInv

-----------------------------------------------------------------------------
(***************************************************************************)
(* keyboard_init                                                           *)
(***************************************************************************)

\* A step that goes to another place of keyboard_init has no answer to wait for.
LEMMA GoToFacts ==
  ASSUME NEW step \in Steps, GoTo(step)
  PROVE  /\ kinit' \in [at : Steps, tries : Nat, reading : BOOLEAN]
         /\ kinit'.at = step /\ kinit'.reading = FALSE
  BY DEF GoTo

LEMMA SendCommandStep ==
  ASSUME KbdInv, SendCommand, stage = "keyboard", stage' = stage
  PROVE  KbdInv'
<1>1. PICK step \in DOMAIN CommandOf :
        kinit.at = step /\ kbd' = [kbd EXCEPT !.inbox = CommandOf[step]]
  BY DEF SendCommand, InitAt, WriteData
<1>2. /\ ~kinit.reading
      /\ kinit' = [kinit EXCEPT !.tries = @ + 1, !.reading = TRUE]
      /\ UNCHANGED <<kbc, late, master, cpu, idt_irq_drivers>>
  BY DEF SendCommand, intrVars
<1>3. /\ kbd \in Keyboards /\ kinit \in [at : Steps, tries : Nat, reading : BOOLEAN]
  BY DEF KbdInv, KbdTypesOk
<1>4. /\ step \in {"disable", "set", "number", "enable"}
      /\ CommandOf[step] \in KeyboardCommands
  BY DEF CommandOf, KeyboardCommands
<1>5. /\ kbd' \in Keyboards /\ kbd'.inbox = CommandOf[step]
      /\ kbd'.out = kbd.out /\ kbd'.number = kbd.number /\ kbd'.set = kbd.set
      /\ kbd'.scanning = kbd.scanning
  BY <1>1, <1>3, <1>4 DEF Keyboards
<1>6. /\ kinit' \in [at : Steps, tries : Nat, reading : BOOLEAN]
      /\ kinit'.at = kinit.at /\ kinit'.reading = TRUE
  <2>1. kinit.tries + 1 \in Nat
    BY <1>3
  <2> QED BY <1>2, <1>3, <2>1
<1>7. KbdTypesOk'
  BY <1>2, <1>5, <1>6 DEF KbdInv, KbdTypesOk
<1>8. KinitOk' /\ KeyboardStaysAlive'
  BY <1>1, <1>2, <1>4, <1>6 DEF KbdInv, KinitOk, KeyboardStaysAlive, BeforeKeyboard
<1>9. ASSUME Conversation PROVE Conversation'
  <2>1. NoAnswer(kbd.out) /\ (kinit.at = "number" => kbd.number = TRUE)
    BY <1>2, <1>9 DEF Conversation
  <2>2. InputFull'
    BY <1>4, <1>5 DEF InputFull, None, KeyboardCommands
  <2> QED BY <1>1, <1>5, <1>6, <1>9, <2>1, <2>2 DEF Conversation
<1>10. AnswersOk'
  BY <1>2, <1>9 DEF KbdInv, AnswersOk
<1> QED BY <1>7, <1>8, <1>10 DEF KbdInv

LEMMA ReadAnswerStep ==
  ASSUME KbdInv, ReadAnswer, stage = "keyboard", stage' = stage
  PROVE  KbdInv'
<1>1. /\ kinit.reading /\ kinit.at \in {"disable", "set", "number", "enable"}
      /\ kbc' = [kbc EXCEPT !.full = FALSE]
      /\ late' = (late \/ ~IsAnswered)
      /\ UNCHANGED <<kbd, idt_irq_drivers>>
  BY DEF ReadAnswer, ReadData, KbdInv, KinitOk
<1>2. /\ kbc \in [full : BOOLEAN, data : KeyboardBytes, interrupts : BOOLEAN,
                  translation : BOOLEAN]
      /\ kinit \in [at : Steps, tries : Nat, reading : BOOLEAN]
      /\ late \in BOOLEAN
  BY DEF KbdInv, KbdTypesOk
<1>3. /\ kbc' \in [full : BOOLEAN, data : KeyboardBytes, interrupts : BOOLEAN,
                   translation : BOOLEAN]
      /\ kbc'.full = FALSE /\ kbc'.data = kbc.data
      /\ kbc'.interrupts = kbc.interrupts /\ kbc'.translation = kbc.translation
  BY <1>1, <1>2
<1>4. /\ kinit' \in [at : Steps, tries : Nat, reading : BOOLEAN]
      /\ kinit'.reading = FALSE
      /\ \/ kbc.data = "RESEND" /\ kinit'.at = kinit.at
         \/ kinit'.at = "failed"
         \/ /\ kbc.data # "RESEND"
            /\ kinit.at \in {"set", "number"} => kbc.data = "ACK"
            /\ kinit'.at = FollowedBy[kinit.at]
  <2>1. CASE AsksAgain(kbc.data)
    <3>1. kinit' = [kinit EXCEPT !.reading = FALSE]
      BY <2>1 DEF ReadAnswer
    <3> QED BY <1>2, <2>1, <3>1 DEF AsksAgain
  <2>2. CASE ~AsksAgain(kbc.data) /\ IsRefused(kinit.at, kbc.data)
    <3>1. GoTo("failed") /\ "failed" \in Steps
      BY <2>2 DEF ReadAnswer, Steps
    <3> QED BY <3>1, GoToFacts
  <2>3. CASE ~AsksAgain(kbc.data) /\ ~IsRefused(kinit.at, kbc.data)
    <3>1. GoTo(FollowedBy[kinit.at])
      BY <2>3 DEF ReadAnswer
    <3>2. FollowedBy[kinit.at] \in Steps
      BY <1>1 DEF FollowedBy, Steps
    <3> QED BY <2>3, <3>1, <3>2, GoToFacts DEF AsksAgain, IsRefused
  <2> QED BY <2>1, <2>2, <2>3
<1>5. /\ FollowedBy["disable"] = "flush" /\ FollowedBy["set"] = "number"
      /\ FollowedBy["number"] = "install" /\ FollowedBy["enable"] = "done"
  BY DEF FollowedBy
<1>6. KbdTypesOk'
  <2>1. late' \in BOOLEAN
    BY <1>1
  <2> QED BY <1>1, <1>3, <1>4, <2>1 DEF KbdInv, KbdTypesOk
<1>7. KinitOk'
  BY <1>1, <1>3, <1>4, <1>5 DEF KbdInv, KinitOk, BeforeKeyboard
<1>8. KeyboardStaysAlive'
  BY <1>3 DEF KeyboardStaysAlive
<1>9. ASSUME Conversation, IsAnswered PROVE Conversation'
  <2>1. /\ ~InputFull /\ kbc.data \in Answers
        /\ \A i \in 1 .. Len(kbd.out) : kbd.out[i] \notin Answers
    <3>1. kbd.out \in Seq(KeyboardBytes)
      BY DEF KbdInv, KbdTypesOk, Keyboards
    <3>2. \A i \in 1 .. Len(kbd.out) : kbd.out[i] \in ToSet(kbd.out)
      BY <3>1 DEF ToSet
    <3> QED BY <1>9, <3>2 DEF IsAnswered
  <2>2. NoAnswer(kbd.out) /\ Means(kbc.data)
    BY <1>1, <1>9, <2>1 DEF Conversation, AnswerAt
  <2>3. InputFull' = InputFull /\ NoAnswer(kbd'.out)
    BY <1>1, <2>2 DEF InputFull
  <2>4. kbc.data = "ACK" \/ kbc.data = "RESEND"
    BY <2>1 DEF Answers
  <2>5. kinit'.at = "number" => kbd.number = TRUE
    BY <1>1, <1>4, <1>5, <2>2, <2>4 DEF Means
  <2>6. kinit'.at \in {"install", "enable", "done"} => kbd.set = 2
    BY <1>1, <1>4, <1>5, <1>9, <2>2, <2>4 DEF Means, Conversation
  <2>7. kinit'.at = "done" => kbd.scanning = TRUE
    BY <1>1, <1>4, <1>5, <2>2, <2>4 DEF Means
  <2> QED BY <1>1, <1>4, <2>1, <2>3, <2>5, <2>6, <2>7 DEF Conversation
<1>10. AnswersOk'
  <2>1. ~late' => ~late /\ IsAnswered
    BY <1>1
  <2> QED BY <1>9, <2>1 DEF KbdInv, AnswersOk
<1> QED BY <1>6, <1>7, <1>8, <1>10 DEF KbdInv

\* The steps of keyboard_init that do not wait for an answer.
LEMMA QuietStep ==
  ASSUME KbdInv, stage = "keyboard", stage' = stage, UNCHANGED <<kbd, late>>,
         NEW step \in Steps, GoTo(step), ~kinit.reading,
         kbc'.interrupts = kbc.interrupts \/ kbc'.interrupts = TRUE,
         kbc'.translation = kbc.translation \/ kbc'.translation = FALSE,
         kbc' \in [full : BOOLEAN, data : KeyboardBytes, interrupts : BOOLEAN,
                   translation : BOOLEAN],
         step \in {"set", "install", "enable"} => kbc'.interrupts /\ ~kbc'.translation,
         step = "enable" => idt_irq_drivers[1]' = "keyboard_irq_handler",
         step \in {"failed", "ccb", "ccb_data", "set"} \/ (step = "enable" /\ kinit.at = "install")
  PROVE  KbdInv'
<1>1. /\ kinit' \in [at : Steps, tries : Nat, reading : BOOLEAN]
      /\ kinit'.at = step /\ kinit'.reading = FALSE
  BY GoToFacts
<1>2. KbdTypesOk'
  BY <1>1 DEF KbdInv, KbdTypesOk
<1>3. KinitOk' /\ KeyboardStaysAlive'
  BY <1>1 DEF KinitOk, KeyboardStaysAlive, BeforeKeyboard
<1>4. ASSUME Conversation PROVE Conversation'
  <2>1. ~InputFull' /\ NoAnswer(kbd'.out)
    BY <1>4 DEF Conversation, InputFull
  <2> QED BY <1>1, <1>4, <2>1 DEF Conversation
<1>5. AnswersOk'
  BY <1>4 DEF KbdInv, AnswersOk
<1> QED BY <1>2, <1>3, <1>5 DEF KbdInv

LEMMA InitKeyboardStep ==
  ASSUME IntrInv, KbdInv, InitKeyboard
  PROVE  KbdInv'
<1>1. stage = "keyboard" /\ stage' = stage /\ InKernel
  BY DEF InitKeyboard, KernelAt, kernelVars
<1>2. /\ kbc \in [full : BOOLEAN, data : KeyboardBytes, interrupts : BOOLEAN,
                  translation : BOOLEAN]
      /\ {"failed", "ccb", "ccb_data", "set", "enable"} \subseteq Steps
  BY DEF KbdInv, KbdTypesOk, Steps
<1>3. CASE SendCommand
  BY <1>1, <1>3, SendCommandStep
<1>4. CASE ReadAnswer
  BY <1>1, <1>4, ReadAnswerStep
<1>5. CASE RetriesExhausted
  <2>1. ~kinit.reading /\ GoTo("failed") /\ UNCHANGED <<kbd, kbc, late>>
    BY <1>5 DEF RetriesExhausted
  <2> QED BY <1>1, <1>2, <2>1, QuietStep
<1>6. CASE FlushByte
  <2>1. /\ kbc' = [kbc EXCEPT !.full = FALSE]
        /\ UNCHANGED <<kbd, kinit, late, idt_irq_drivers>>
    BY <1>6 DEF FlushByte, ReadData
  <2>2. /\ kbc' \in [full : BOOLEAN, data : KeyboardBytes, interrupts : BOOLEAN,
                     translation : BOOLEAN]
        /\ kbc'.full = FALSE /\ kbc'.data = kbc.data
        /\ kbc'.interrupts = kbc.interrupts /\ kbc'.translation = kbc.translation
    BY <1>2, <2>1
  <2>3. KbdTypesOk' /\ KinitOk' /\ KeyboardStaysAlive'
    BY <1>1, <2>1, <2>2 DEF KbdInv, KbdTypesOk, KinitOk, KeyboardStaysAlive
  <2>4. Conversation => Conversation'
    BY <2>1, <2>2 DEF Conversation, InputFull, AnswerAt, Means
  <2>5. AnswersOk'
    BY <1>1, <2>1, <2>4 DEF KbdInv, AnswersOk
  <2> QED BY <2>3, <2>5 DEF KbdInv
<1>7. CASE Flushed
  <2>1. kinit.at = "flush" /\ GoTo("ccb") /\ UNCHANGED <<kbd, kbc, late>>
    BY <1>7 DEF Flushed, InitAt
  <2>2. ~kinit.reading
    BY <2>1 DEF KbdInv, KinitOk
  <2> QED BY <1>1, <1>2, <2>1, <2>2, QuietStep
<1>8. CASE AnnounceConfiguration
  <2>1. kinit.at = "ccb" /\ GoTo("ccb_data") /\ UNCHANGED <<kbd, kbc, late>>
    BY <1>8 DEF AnnounceConfiguration, InitAt
  <2>2. ~kinit.reading
    BY <2>1 DEF KbdInv, KinitOk
  <2> QED BY <1>1, <1>2, <2>1, <2>2, QuietStep
<1>9. CASE WriteConfiguration
  <2>1. /\ kinit.at = "ccb_data" /\ GoTo("set") /\ UNCHANGED <<kbd, late>>
        /\ kbc' = [kbc EXCEPT !.interrupts = TRUE, !.translation = FALSE]
    BY <1>9 DEF WriteConfiguration, InitAt
  <2>2. ~kinit.reading
    BY <2>1 DEF KbdInv, KinitOk
  <2>3. /\ kbc' \in [full : BOOLEAN, data : KeyboardBytes, interrupts : BOOLEAN,
                     translation : BOOLEAN]
        /\ kbc'.interrupts = TRUE /\ kbc'.translation = FALSE
    BY <1>2, <2>1
  <2> QED BY <1>1, <1>2, <2>1, <2>2, <2>3, QuietStep
<1>10. CASE InstallKeyboardDriver
  <2>1. /\ kinit.at = "install" /\ GoTo("enable") /\ UNCHANGED <<kbd, kbc, late>>
        /\ InstallIrqDriver(1, "keyboard_irq_handler")
    BY <1>10 DEF InstallKeyboardDriver, InitAt, FollowedBy
  <2>2. ~kinit.reading /\ kbc.interrupts /\ ~kbc.translation
    BY <2>1 DEF KbdInv, KinitOk
  <2>3. idt_irq_drivers[1]' = "keyboard_irq_handler"
    BY <2>1 DEF InstallIrqDriver, IntrInv, IntrTypesOk, IrqNums
  <2> QED BY <1>1, <1>2, <2>1, <2>2, <2>3, QuietStep
<1> QED BY <1>3, <1>4, <1>5, <1>6, <1>7, <1>8, <1>9, <1>10 DEF InitKeyboard, KeyboardInitStep

-----------------------------------------------------------------------------
(***************************************************************************)
(* The steps around the keyboard                                           *)
(***************************************************************************)

\* A step of someone else.
LEMMA OthersStep ==
  ASSUME KbdInv, UNCHANGED kbdVars, KeyboardStaysAlive',
         stage' \in BeforeKeyboard => stage \in BeforeKeyboard,
         stage' = "keyboard" => stage \in BeforeKeyboard \cup {"keyboard"},
         idt_irq_drivers[1]' = idt_irq_drivers[1]
  PROVE  KbdInv'
<1>1. KbdTypesOk' /\ KinitOk'
  BY DEF kbdVars, KbdInv, KbdTypesOk, KinitOk
<1>2. Conversation => Conversation'
  BY DEF kbdVars, Conversation, InputFull, AnswerAt, Means
<1>3. AnswersOk'
  BY <1>2 DEF kbdVars, KbdInv, AnswersOk
<1> QED BY <1>1, <1>3 DEF KbdInv

\* The handler takes the byte and leaves it in the port.
LEMMA HandlerStep ==
  ASSUME KbdInv, KeyboardIrq, stage' = stage
  PROVE  KbdInv'
<1>1. /\ kbc' = [kbc EXCEPT !.full = FALSE]
      /\ UNCHANGED <<kbd, kinit, late, idt_irq_drivers>>
  BY DEF KeyboardIrq, ReadData
<1>2. /\ kbc' \in [full : BOOLEAN, data : KeyboardBytes, interrupts : BOOLEAN,
                   translation : BOOLEAN]
      /\ kbc'.full = FALSE /\ kbc'.data = kbc.data
      /\ kbc'.interrupts = kbc.interrupts /\ kbc'.translation = kbc.translation
  BY <1>1 DEF KbdInv, KbdTypesOk
<1>3. KbdTypesOk' /\ KinitOk' /\ KeyboardStaysAlive'
  BY <1>1, <1>2 DEF KbdInv, KbdTypesOk, KinitOk, KeyboardStaysAlive
<1>4. Conversation => Conversation'
  BY <1>1, <1>2 DEF Conversation, InputFull, AnswerAt, Means
<1>5. AnswersOk'
  BY <1>1, <1>4 DEF KbdInv, AnswersOk
<1> QED BY <1>3, <1>5 DEF KbdInv

\* An interrupt of another kind, or a later step of this one.
LEMMA InterruptKeepsKbd ==
  ASSUME IntrInv, KbdInv, InterruptStep, UNCHANGED <<kbdVars, stage, pic_writes>>
  PROVE  KbdInv'
<1>1. idt_irq_drivers' = idt_irq_drivers
  BY DEF InterruptStep, Accept, AckMaster, AckSlave, OtherDriver, SlaveEoi, MasterEoi
<1>2. KeyboardStaysAlive'
  <2> SUFFICES ASSUME kinit.at = "done", kbc.full
               PROVE  1 \in master.irr' \/ cpu' = [at |-> "idt_irq_handler", num |-> 1]
    BY DEF KeyboardStaysAlive, kbdVars
  <2>1. 1 \in master.irr \/ cpu = [at |-> "idt_irq_handler", num |-> 1]
    BY DEF KbdInv, KeyboardStaysAlive
  <2>2. CASE Accept
    BY <2>1, <2>2 DEF Accept, InKernel
  <2>3. CASE AckMaster
    <3>1. 1 \in master.irr
      BY <2>1, <2>3 DEF AckMaster
    <3> QED BY <2>3, <3>1, AckMasterStep
  <2>4. CASE AckSlave
    <3>1. 1 \in master.irr
      BY <2>1, <2>4 DEF AckSlave
    <3> QED BY <2>4, <3>1, AckSlaveStep
  <2>5. CASE OtherDriver
    <3>1. idt_irq_drivers[1] = "keyboard_irq_handler"
      BY DEF KbdInv, KinitOk
    <3>2. cpu # [at |-> "idt_irq_handler", num |-> 1]
      BY <2>5, <3>1 DEF OtherDriver, CallsDriver
    <3> QED BY <2>1, <2>5, <3>2 DEF OtherDriver
  <2>6. CASE SlaveEoi
    <3>1. 1 \in master.irr
      BY <2>1, <2>6 DEF SlaveEoi
    <3> QED BY <2>6, <3>1, SlaveEoiStep
  <2>7. CASE MasterEoi
    <3>1. 1 \in master.irr
      BY <2>1, <2>7 DEF MasterEoi, ConcernsSlave
    <3> QED BY <2>7, <3>1, MasterEoiStep
  <2> QED BY <2>2, <2>3, <2>4, <2>5, <2>6, <2>7 DEF InterruptStep
<1> QED BY <1>1, <1>2, OthersStep

LEMMA DevicesKeepKbd ==
  ASSUME IntrInv, KbdInv, DeviceStep, UNCHANGED <<kbdVars, stage, pic_writes>>
  PROVE  KbdInv'
<1>1. PICK n \in Lines : Raise(n) \/ Drop(n)
  BY DEF DeviceStep
<1>2. n \in IrqNums /\ n # 1 /\ 1 \in 0 .. 7
  BY LinesAssumption
<1>3. 1 \in master.irr => 1 \in master.irr'
  BY <1>1, <1>2, LineRisesFacts, LineFallsFacts DEF Raise, RaiseLine, Drop, IntrInv
<1>4. cpu' = cpu /\ idt_irq_drivers' = idt_irq_drivers
  BY <1>1 DEF Raise, RaiseLine, Drop
<1>5. KeyboardStaysAlive'
  BY <1>3, <1>4 DEF KbdInv, KeyboardStaysAlive, kbdVars
<1> QED BY <1>4, <1>5, OthersStep

\* kmain goes on, or stops: it runs, so that the byte's interrupt is still latched.
LEMMA KernelKeepsKbd ==
  ASSUME IntrInv, KbdInv, KernelStep
  PROVE  KbdInv'
<1>1. CASE InitKeyboard
  BY <1>1, InitKeyboardStep
<1>2. CASE InitPic
  <2>1. /\ stage = "pic" /\ stage' \in {"pic", "sti"} /\ UNCHANGED kbdVars
        /\ idt_irq_drivers' = idt_irq_drivers
    BY <1>2 DEF InitPic, KernelAt, Reports, PicWrite
  <2>2. kinit'.at # "done"
    BY <2>1 DEF KbdInv, KinitOk, BeforeKeyboard, kbdVars
  <2>3. KeyboardStaysAlive'
    BY <2>2 DEF KeyboardStaysAlive
  <2> QED BY <2>1, <2>3, OthersStep DEF BeforeKeyboard
<1>3. CASE KeyboardIsInitialised
  <2>1. /\ UNCHANGED <<kbc, kinit, master, cpu, idt_irq_drivers>> /\ stage' = "paging"
        /\ late' = FALSE
        /\ kbd' = kbd \/ kbd' = [kbd EXCEPT !.resends = 0]
    BY <1>3 DEF KeyboardIsInitialised
  <2>2. kbd' \in Keyboards
    <3>1. kbd \in Keyboards
      BY DEF KbdInv, KbdTypesOk
    <3>2. [kbd EXCEPT !.resends = 0] \in Keyboards
      BY <3>1 DEF Keyboards
    <3> QED BY <2>1, <3>1, <3>2, Zenon
  <2>3. KbdTypesOk' /\ KinitOk' /\ KeyboardStaysAlive' /\ AnswersOk'
    BY <2>1, <2>2
    DEF KbdInv, KbdTypesOk, KinitOk, KeyboardStaysAlive, AnswersOk, BeforeKeyboard
  <2> QED BY <2>3 DEF KbdInv
<1>4. CASE \/ InitIdt \/ EnablesInterrupts \/ KeyboardFails \/ InitMemory \/ InitDisk
           \/ InitFails \/ GptIsInitialised \/ GptFails \/ InitShell \/ PrintPrompt
           \/ PromptIsPrinted \/ PromptAgain \/ DiskPollsForever
  <2>1. InKernel /\ UNCHANGED kbdVars /\ master' = master
    BY <1>4
    DEF InitIdt, EnablesInterrupts, KeyboardFails, InitMemory, InitDisk, InitFails,
        GptIsInitialised, GptFails, InitShell, PrintPrompt, PromptIsPrinted, PromptAgain,
        DiskPollsForever, KernelAt, Reports, Fails, Stop, IdtInit, EnableInterrupts, InstallIrqDriver, intrVars
  <2>2. idt_irq_drivers[1]' = idt_irq_drivers[1]
    BY <1>4
    DEF InitIdt, EnablesInterrupts, KeyboardFails, InitMemory, InitDisk, InitFails,
        GptIsInitialised, GptFails, InitShell, PrintPrompt, PromptIsPrinted, PromptAgain,
        DiskPollsForever, Fails, Stop, IdtInit, EnableInterrupts, InstallIrqDriver, intrVars,
        IntrInv, IntrTypesOk, IrqNums
  <2>3. /\ stage' \notin BeforeKeyboard \cup {"keyboard"} \/ stage \in BeforeKeyboard
        /\ stage \in BeforeKeyboard => stage' \in {"pic", "keyboard"}
    BY <1>4
    DEF InitIdt, EnablesInterrupts, KeyboardFails, InitMemory, InitDisk, InitFails,
        GptIsInitialised, GptFails, InitShell, PrintPrompt, PromptIsPrinted, PromptAgain,
        DiskPollsForever, KernelAt, Reports, Fails, kernelVars, BeforeKeyboard
  <2>4. KeyboardStaysAlive'
    BY <2>1 DEF KbdInv, KeyboardStaysAlive, InKernel, kbdVars
  <2> QED BY <2>1, <2>2, <2>3, <2>4, OthersStep
<1> QED BY <1>1, <1>2, <1>3, <1>4 DEF KernelStep

-----------------------------------------------------------------------------
(***************************************************************************)
(* The invariant                                                           *)
(***************************************************************************)

LEMMA KbdInit ==
  ASSUME Init
  PROVE  KbdInv
<1>1. KeyboardInitInit /\ stage = "idt"
  BY DEF Init
<1>2. /\ kbd.inbox = None /\ kbd.out = <<>> /\ kinit.at = "disable" /\ kinit.reading = FALSE
      /\ late = FALSE
  BY <1>1 DEF KeyboardInitInit
<1>3. KbdTypesOk
  <2>1. <<>> \in Seq(KeyboardBytes) /\ "ACK" \in KeyboardBytes /\ "disable" \in Steps
    BY DEF KeyboardBytes, Steps
  <2>2. kbd \in Keyboards
    BY <1>1, <2>1, CountsAssumption DEF KeyboardInitInit, Keyboards
  <2>3. kbc \in [full : BOOLEAN, data : KeyboardBytes, interrupts : BOOLEAN,
                 translation : BOOLEAN]
    BY <1>1 DEF KeyboardInitInit, KeyboardBytes
  <2>4. kinit \in [at : Steps, tries : Nat, reading : BOOLEAN] /\ late \in BOOLEAN
    BY <1>1, <2>1 DEF KeyboardInitInit
  <2> QED BY <2>2, <2>3, <2>4 DEF KbdTypesOk
<1>4. KinitOk /\ KeyboardStaysAlive
  BY <1>2 DEF KinitOk, KeyboardStaysAlive
<1>5. AnswersOk
  BY <1>2 DEF AnswersOk, Conversation, InputFull, NoAnswer
<1> QED BY <1>3, <1>4, <1>5 DEF KbdInv

LEMMA NextKeepsKbd ==
  ASSUME IntrInv, KbdInv, [Next]_vars
  PROVE  KbdInv'
<1>1. CASE KernelStep
  BY <1>1, KernelKeepsKbd
<1>2. CASE Interrupted
  <2>1. CASE KeyIsIgnored \/ LetterIsTyped \/ EnterIsTyped
    BY <2>1, HandlerStep DEF KeyIsIgnored, LetterIsTyped, EnterIsTyped, kernelVars
  <2>2. CASE InterruptStep /\ UNCHANGED <<kbdVars, screenVars, gpt, kernelVars>>
    BY <2>2, InterruptKeepsKbd DEF kernelVars
  <2>3. CASE ExceptionStops /\ UNCHANGED <<kbdVars, gpt, kernelVars>>
    <3>1. /\ cpu.at = "idt_exception_handler" /\ UNCHANGED <<kbdVars, stage>>
          /\ master' = master /\ idt_irq_drivers' = idt_irq_drivers
      BY <2>3 DEF ExceptionStops, Stop, kernelVars
    <3>2. KeyboardStaysAlive'
      BY <3>1 DEF KbdInv, KeyboardStaysAlive, kbdVars
    <3> QED BY <3>1, <3>2, OthersStep
  <2> QED BY <1>2, <2>1, <2>2, <2>3 DEF Interrupted
<1>3. CASE KeyboardWorks
  <2>1. UNCHANGED <<stage, pic_writes>>
    BY <1>3 DEF KeyboardWorks, kernelVars
  <2> QED BY <1>3, <2>1, ObeysStep, AsksAgainStep, SendsStep DEF KeyboardWorks
<1>4. CASE Environment
  <2>1. UNCHANGED <<stage, pic_writes>>
    BY <1>4 DEF Environment, kernelVars
  <2>2. CASE PressKey
    BY <2>1, <2>2, PressKeyStep
  <2>3. CASE DeviceStep /\ UNCHANGED kbdVars
    BY <2>1, <2>3, DevicesKeepKbd
  <2>4. CASE Nmi /\ UNCHANGED kbdVars
    <3>1. /\ InKernel /\ master' = master /\ idt_irq_drivers' = idt_irq_drivers
      BY <2>4 DEF Nmi
    <3>2. KeyboardStaysAlive'
      BY <2>4, <3>1 DEF KbdInv, KeyboardStaysAlive, kbdVars, InKernel
    <3> QED BY <2>1, <2>4, <3>1, <3>2, OthersStep
  <2> QED BY <1>4, <2>2, <2>3, <2>4 DEF Environment
<1>5. CASE UNCHANGED vars
  <2>1. UNCHANGED <<kbdVars, stage, master, cpu, idt_irq_drivers>>
    BY <1>5 DEF vars, kernelVars, intrVars
  <2>2. KeyboardStaysAlive'
    BY <2>1 DEF KbdInv, KeyboardStaysAlive, kbdVars
  <2> QED BY <2>1, <2>2, OthersStep
<1> QED BY <1>1, <1>2, <1>3, <1>4, <1>5 DEF Next

\* The invariant of the keyboard and of its initialisation, with that of the interrupts
\* it rests on.
THEOREM KeyboardHolds == Spec => [](IntrInv /\ KbdInv)
<1>1. Init => IntrInv /\ KbdInv
  BY IntrInit, KbdInit
<1>2. (IntrInv /\ KbdInv) /\ [Next]_vars => (IntrInv /\ KbdInv)'
  BY NextKeepsIntr, NextKeepsKbd
<1> QED BY <1>1, <1>2, PTL DEF Spec

\* KeyboardStaysAlive: once keyboard_init is done, a byte in the output buffer has its
\* interrupt still to come, whatever came late or before the driver was installed
\* (keyboard.c:580-605).
THEOREM KeyboardIsNeverSilenced == Spec => []KeyboardStaysAlive
<1>1. IntrInv /\ KbdInv => KeyboardStaysAlive
  BY DEF KbdInv
<1> QED BY <1>1, KeyboardHolds, PTL

\* InitMeansReady: when keyboard_init returns 0 and no answer came too late, the
\* keyboard scans in set 2, untranslated, with its interrupt (keyboard.c:31-95, 580-607).
THEOREM InitMakesReady == Spec => []InitMeansReady
<1>1. IntrInv /\ KbdInv => InitMeansReady
  BY DEF KbdInv, KinitOk, AnswersOk, Conversation, InitMeansReady, KernelAt
<1> QED BY <1>1, KeyboardHolds, PTL
=============================================================================
