----------------------------- MODULE DiskProofs -----------------------------
(***************************************************************************)
(* Proofs about Disk, for devices and commands of any size, any contents   *)
(* and any calls: the driver's count of sectors and the device's progress  *)
(* through its command stay in step, whatever fails and whenever the       *)
(* device works.                                                           *)
(***************************************************************************)
EXTENDS Disk, TLAPS

Commands == {"none", "identify", "read", "write", "flush"}
Transfers == {"read", "write"}
Registers ==
  [bsy : BOOLEAN, drq : BOOLEAN, err : BOOLEAN, df : BOOLEAN, cmd : Commands,
   lba : 0 .. LbaLimit, left : 0 .. MaxCount, sector : Data \cup {Junk}]

\* A device that works on a command is busy or asks for the driver, never both; a
\* sector that it offers or asks for, or has been given, is one it has.
DevOk ==
  /\ dev \in Registers
  /\ dev.cmd = "none" => ~dev.bsy /\ ~dev.drq
  /\ dev.cmd # "none" => dev.bsy = ~dev.drq
  /\ dev.err => dev.cmd = "none"
  /\ dev.cmd = "flush" => dev.bsy
  /\ dev.cmd \in Transfers => dev.left >= 1
  /\ dev.cmd \in Transfers /\ dev.drq => dev.lba \in Sectors
  /\ dev.sector # Junk => dev.cmd = "write" /\ dev.bsy /\ dev.lba \in Sectors

Returning == pc = "idle" /\ call.op # "init" /\ result = 0

\* What the driver's variables mean by themselves.
DriverOk ==
  /\ pc \in {"init_data", "idle", "ensure", "poll", "flush"} => kind = "ata"
  /\ pc \in {"boot", "init_status", "init_busy", "init_data"} => call.op = "init"
  /\ pc = "init_busy" => kind # "none"
  /\ pc = "boot" => dev = Ready
  /\ InCall => call.op # "init"
  /\ call.op = "write" => buff \in [0 .. call.count - 1 -> Data]
  /\ pc = "ensure" => s = 0
  /\ pc = "flush" => call.op = "write" /\ s = call.count
  /\ Returning => s = call.count
  /\ call.op # "init" /\ ~misused => call.count \in 1 .. MaxCount

\* The sectors that the device is through with.
Done == IF dev.sector = Junk THEN s ELSE s - 1

\* Where the device is in its command: at the sector the driver is at.
InStep ==
  ~misused =>
    /\ pc \in {"idle", "ensure"} => dev.cmd = "none"
    /\ dev.cmd = "identify" => pc \notin {"boot", "idle"} /\ ~InCall
    /\ dev.cmd = "flush" => pc = "flush"
    /\ dev.cmd \in Transfers =>
         /\ pc = "poll" \/ (pc = "flush" /\ dev.cmd = "write")
         /\ call.op = dev.cmd
         /\ dev.lba = Address(call.start) + Done
         /\ dev.left = call.count - Done
    /\ dev.sector # Junk => s >= 1 /\ dev.sector = buff[s - 1]

\* The sector of the buffer and that of the device are the same.
Same(i) == call.start + i \in Sectors /\ buff[i] = stored[call.start + i]

\* What is transferred when s sectors are.
TransferOk ==
  Servable /\ (pc \in {"poll", "flush"} \/ Returning) =>
    /\ call.op = "read" => \A i \in 0 .. s - 1 : Same(i)
    /\ call.op = "write" =>
         /\ \A i \in 0 .. s - 2 : Same(i)
         /\ dev.cmd = "write" /\ dev.sector = Junk => \A i \in 0 .. s - 1 : Same(i)

IInv == TypeOK /\ DevOk /\ DriverOk /\ InStep /\ TransferOk

-----------------------------------------------------------------------------
LEMMA ConstantFacts ==
  /\ MaxCount \in Nat /\ MaxCount > 0 /\ LbaLimit \in Nat /\ LbaLimit > 0
  /\ Capacity \in Nat /\ Capacity > 0 /\ Capacity <= LbaLimit
  /\ Sectors = 0 .. Capacity - 1
  /\ Starts \subseteq Nat /\ Counts \subseteq Nat /\ Junk \notin Data
  /\ Kinds \subseteq {"ata", "atapi", "none", "floating"}
<1>1. QED BY DiskAssumption DEF Sectors

\* The address a command gets.
LEMMA AddressFacts ==
  ASSUME NEW lba \in Nat
  PROVE  /\ Address(lba) \in 0 .. LbaLimit - 1
         /\ lba < LbaLimit => Address(lba) = lba
<1>1. QED BY ConstantFacts DEF Address

LEMMA SectorCountFacts ==
  ASSUME NEW count \in Nat
  PROVE  /\ SectorCount(count) \in 1 .. MaxCount
         /\ count \in 1 .. MaxCount => SectorCount(count) = count
<1>1. QED BY ConstantFacts DEF SectorCount

LEMMA CallFacts ==
  ASSUME TypeOK
  PROVE  /\ call.start \in Nat /\ call.count \in Nat
         /\ call.op # "init" => call.op \in Transfers
         /\ s \in Nat /\ s <= call.count
<1>1. CASE call = NoCall
  BY <1>1 DEF NoCall, TypeOK
<1>2. CASE call \in [op : {"read", "write"}, start : Starts, count : Counts]
  <2>1. call.start \in Nat /\ call.count \in Nat /\ call.op \in Transfers
    BY <1>2, ConstantFacts DEF Transfers
  <2>2. QED BY <2>1 DEF TypeOK
<1>3. QED BY <1>1, <1>2 DEF TypeOK

LEMMA ReadyFacts ==
  /\ Ready \in Registers
  /\ Ready.cmd = "none" /\ ~Ready.bsy /\ ~Ready.drq /\ ~Ready.err /\ Ready.sector = Junk
<1>1. QED BY ConstantFacts DEF Ready, Registers, Commands

\* A device without a command accepts one, if there is a device.
LEMMA CommandFacts ==
  ASSUME DevOk, NEW c \in {"identify", "read", "write", "flush"},
         NEW lba \in 0 .. LbaLimit - 1, NEW count \in 0 .. MaxCount
  PROVE  LET d == Command(c, lba, count) IN
         \/ d = dev /\ (dev.cmd # "none" \/ kind \notin {"ata", "atapi"})
         \/ /\ dev.cmd = "none" /\ kind \in {"ata", "atapi"}
            /\ d \in Registers /\ d.cmd = c /\ d.bsy /\ ~d.drq /\ ~d.err /\ d.sector = Junk
            /\ d.lba = lba /\ d.left = count
<1>1. CASE kind \notin {"ata", "atapi"} \/ dev.bsy \/ dev.drq
  BY <1>1 DEF Command, DevOk
<1>2. CASE ~(kind \notin {"ata", "atapi"} \/ dev.bsy \/ dev.drq)
  <2>1. dev.cmd = "none"
    BY <1>2 DEF DevOk, Registers
  <2>2. Command(c, lba, count) = Working(c, lba, count)
    BY <1>2 DEF Command
  <2> DEFINE d == Working(c, lba, count)
  <2>3. d \in Registers /\ d.cmd = c /\ d.bsy /\ ~d.drq /\ d.lba = lba /\ d.left = count
    <3>1. lba \in 0 .. LbaLimit
      BY ConstantFacts
    <3>2. d \in Registers
      BY <3>1, ReadyFacts DEF Working, Registers, Commands
    <3>3. d.cmd = c /\ d.bsy = TRUE /\ d.drq = Ready.drq /\ d.lba = lba /\ d.left = count
      BY ReadyFacts DEF Working, Registers
    <3> HIDE DEF d
    <3>4. QED BY <3>2, <3>3, ReadyFacts
  <2>4. ~d.err /\ d.sector = Junk
    BY ReadyFacts DEF Working
  <2>5. QED BY <1>2, <2>1, <2>2, <2>3, <2>4
<1>3. QED BY <1>1, <1>2

\* The device behind a sector.
LEMMA NextSectorFacts ==
  ASSUME DevOk, dev.cmd \in Transfers, dev.lba \in Sectors
  PROVE  /\ dev.left = 1 => NextSector = Ready
         /\ dev.left # 1 =>
              /\ NextSector \in Registers
              /\ NextSector.cmd = dev.cmd /\ NextSector.err = dev.err
              /\ NextSector.drq = dev.drq /\ NextSector.bsy = dev.bsy
              /\ NextSector.sector = Junk
              /\ NextSector.lba = dev.lba + 1
              /\ NextSector.left = dev.left - 1 /\ NextSector.left >= 1
<1>1. dev.lba + 1 \in 0 .. LbaLimit /\ dev.left - 1 \in 0 .. MaxCount /\ dev.left >= 1
  BY ConstantFacts DEF DevOk, Registers
<1>2. CASE dev.left # 1
  <2>1. NextSector = [dev EXCEPT !.lba = @ + 1, !.left = @ - 1, !.sector = Junk]
    BY <1>2 DEF NextSector
  <2>2. dev \in Registers
    BY DEF DevOk
  <2>3. NextSector =
          [bsy |-> dev.bsy, drq |-> dev.drq, err |-> dev.err, df |-> dev.df,
           cmd |-> dev.cmd, lba |-> dev.lba + 1, left |-> dev.left - 1, sector |-> Junk]
    BY <2>1, <2>2 DEF Registers
  <2>4. NextSector \in Registers
    BY <1>1, <2>2, <2>3 DEF Registers
  <2>5. QED BY <1>1, <1>2, <2>2, <2>3, <2>4 DEF Registers
<1>3. QED BY <1>2 DEF NextSector

\* The device once a sector was read from it.
LEMMA AfterReadFacts ==
  ASSUME DevOk, dev.drq, dev.cmd = "read"
  PROVE  /\ AfterRead \in Registers
         /\ ~AfterRead.drq /\ ~AfterRead.err /\ AfterRead.sector = Junk
         /\ dev.left = 1 => AfterRead.cmd = "none" /\ ~AfterRead.bsy
         /\ dev.left # 1 =>
              /\ AfterRead.cmd = "read" /\ AfterRead.bsy
              /\ AfterRead.lba = dev.lba + 1
              /\ AfterRead.left = dev.left - 1 /\ AfterRead.left >= 1
<1> DEFINE next == NextSector
           d    == [next EXCEPT !.bsy = next.cmd = "read", !.drq = FALSE]
<1>1. AfterRead = d
  BY DEF AfterRead
<1>2. dev.cmd \in Transfers /\ dev.lba \in Sectors /\ ~dev.err /\ dev \in Registers
  BY DEF DevOk, Transfers
<1>3. next \in Registers
  BY <1>2, NextSectorFacts, ReadyFacts
<1>4. (next.cmd = "read") \in BOOLEAN
  OBVIOUS
<1>5. /\ dev.left = 1 => next = Ready
      /\ dev.left # 1 =>
           /\ next.cmd = "read" /\ next.err = dev.err /\ next.sector = Junk
           /\ next.lba = dev.lba + 1 /\ next.left = dev.left - 1 /\ next.left >= 1
  BY <1>2, NextSectorFacts
<1> HIDE DEF next
<1>6. d \in Registers
  BY <1>3, <1>4 DEF Registers
<1>7. /\ d.cmd = next.cmd /\ d.err = next.err /\ d.sector = next.sector
      /\ d.lba = next.lba /\ d.left = next.left
      /\ d.bsy = (next.cmd = "read") /\ d.drq = FALSE
  BY <1>3 DEF Registers
<1> HIDE DEF d
<1>8. CASE dev.left = 1
  <2>1. next.cmd = "none" /\ ~next.err /\ next.sector = Junk
    BY <1>5, <1>8, ReadyFacts
  <2>2. d.bsy = FALSE
    BY <1>7, <2>1
  <2>3. QED BY <1>1, <1>6, <1>7, <1>8, <2>1, <2>2
<1>9. CASE dev.left # 1
  <2>1. d.bsy = TRUE
    BY <1>5, <1>7, <1>9
  <2>2. QED BY <1>1, <1>2, <1>5, <1>6, <1>7, <1>9, <2>1
<1>10. QED BY <1>8, <1>9

\* The device once a sector was written to it.
LEMMA AfterWriteFacts ==
  ASSUME DevOk, dev.drq, dev.cmd = "write", NEW v \in Data
  PROVE  /\ AfterWrite(v) \in Registers
         /\ AfterWrite(v).cmd = "write" /\ AfterWrite(v).bsy
         /\ ~AfterWrite(v).drq /\ ~AfterWrite(v).err /\ AfterWrite(v).sector = v
         /\ AfterWrite(v).lba = dev.lba /\ AfterWrite(v).left = dev.left
<1> DEFINE d == [dev EXCEPT !.bsy = TRUE, !.drq = FALSE, !.sector = v]
<1>1. AfterWrite(v) = d
  BY DEF AfterWrite
<1>2. ~dev.err /\ dev \in Registers
  BY DEF DevOk
<1>3. d \in Registers
  BY <1>2 DEF Registers
<1>4. /\ d.cmd = dev.cmd /\ d.err = dev.err /\ d.lba = dev.lba /\ d.left = dev.left
      /\ d.bsy = TRUE /\ d.drq = FALSE /\ d.sector = v
  BY <1>2 DEF Registers
<1> HIDE DEF d
<1>5. QED BY <1>1, <1>2, <1>3, <1>4

\* The device once it has stored a sector.
LEMMA StoresFacts ==
  ASSUME DevOk, DeviceStores
  PROVE  /\ dev' \in Registers
         /\ ~dev'.drq /\ ~dev'.err /\ dev'.sector = Junk
         /\ dev.left = 1 => dev'.cmd = "none" /\ ~dev'.bsy
         /\ dev.left # 1 =>
              /\ dev'.cmd = "write" /\ dev'.bsy
              /\ dev'.lba = dev.lba + 1
              /\ dev'.left = dev.left - 1 /\ dev'.left >= 1
<1> DEFINE next == NextSector
           d    == [next EXCEPT !.bsy = next.cmd = "write"]
<1>1. dev' = d
  BY DEF DeviceStores
<1>2. /\ dev.cmd \in Transfers /\ dev.lba \in Sectors /\ ~dev.err /\ ~dev.drq
      /\ dev \in Registers /\ dev.cmd = "write"
  BY DEF DevOk, Transfers, DeviceStores, Present, Registers
<1>3. next \in Registers
  BY <1>2, NextSectorFacts, ReadyFacts
<1>4. (next.cmd = "write") \in BOOLEAN
  OBVIOUS
<1>5. /\ dev.left = 1 => next = Ready
      /\ dev.left # 1 =>
           /\ next.cmd = "write" /\ next.err = dev.err /\ next.drq = dev.drq
           /\ next.sector = Junk
           /\ next.lba = dev.lba + 1 /\ next.left = dev.left - 1 /\ next.left >= 1
  BY <1>2, NextSectorFacts
<1> HIDE DEF next
<1>6. d \in Registers
  BY <1>3, <1>4 DEF Registers
<1>7. /\ d.cmd = next.cmd /\ d.err = next.err /\ d.sector = next.sector
      /\ d.lba = next.lba /\ d.left = next.left /\ d.drq = next.drq
      /\ d.bsy = (next.cmd = "write")
  BY <1>3 DEF Registers
<1> HIDE DEF d
<1>8. CASE dev.left = 1
  <2>1. next.cmd = "none" /\ ~next.err /\ ~next.drq /\ next.sector = Junk
    BY <1>5, <1>8, ReadyFacts
  <2>2. d.bsy = FALSE
    BY <1>7, <2>1
  <2>3. QED BY <1>1, <1>6, <1>7, <1>8, <2>1, <2>2
<1>9. CASE dev.left # 1
  <2>1. d.bsy = TRUE
    BY <1>5, <1>7, <1>9
  <2>2. QED BY <1>1, <1>2, <1>5, <1>6, <1>7, <1>9, <2>1
<1>10. QED BY <1>8, <1>9

\* A command that is over, for better or worse.
LEMMA ReadyWithFacts ==
  /\ [Ready EXCEPT !.err = TRUE] \in Registers /\ [Ready EXCEPT !.df = TRUE] \in Registers
  /\ \A d \in {[Ready EXCEPT !.err = TRUE], [Ready EXCEPT !.df = TRUE]} :
       d.cmd = "none" /\ ~d.bsy /\ ~d.drq /\ d.sector = Junk
<1>1. QED BY ReadyFacts DEF Registers

-----------------------------------------------------------------------------
LEMMA InitEstablishes == Init => IInv
<1> SUFFICES ASSUME Init PROVE IInv
  OBVIOUS
<1>1. dev = Ready /\ dev \in Registers /\ dev.cmd = "none" /\ dev.sector = Junk
  BY ReadyFacts DEF Init
<1>2. call = NoCall /\ call.op = "init" /\ call.count = 0 /\ call.start = 0 /\ buff = <<>>
  BY DEF Init, NoCall
<1>3. TypeOK
  <2>1. 0 .. call.count - 1 = {} /\ 0 .. call.count = {0}
    BY <1>2
  <2>2. <<>> \in [{} -> Data \cup {Junk}]
    OBVIOUS
  <2>3. buff \in [0 .. call.count - 1 -> Data \cup {Junk}]
    BY <1>2, <2>1, <2>2
  <2>4. QED BY <1>1, <1>2, <2>1, <2>3 DEF Init, TypeOK, Registers, Commands
<1>4. DevOk
  BY <1>1, ReadyFacts DEF DevOk, Transfers
<1>5. DriverOk
  BY <1>2 DEF Init, DriverOk, InCall, Returning
<1>6. InStep
  BY <1>1 DEF Init, InStep, InCall, Transfers
<1>7. TransferOk
  BY <1>2 DEF Init, TransferOk, Returning
<1>8. QED BY <1>3, <1>4, <1>5, <1>6, <1>7 DEF IInv

\* The driver moves on, and nothing else happens.
LEMMA MovesKeep ==
  ASSUME IInv, UNCHANGED <<device, call, s, buff, misused>>,
         InitStatus \/ InitBusy \/ InitError \/ PollError \/ ReadReturns \/ WriteReturns
  PROVE  IInv'
<1>1. TypeOK /\ DevOk /\ DriverOk /\ InStep /\ TransferOk
  BY DEF IInv
<1>2. UNCHANGED <<kind, dev, stored, dirty, call, s, buff, misused>>
  BY DEF device
<1>3. \/ pc \in {"init_status", "init_busy", "init_data"} /\ pc' \in {"init_busy", "init_data", "stopped"}
      \/ pc = "poll" /\ pc' = "idle" /\ result' = -1 /\ Err
      \/ pc = "poll" /\ pc' = "idle" /\ call.op = "read" /\ s = call.count
      \/ pc = "flush" /\ pc' = "idle" /\ ~Bsy
  BY DEF InitStatus, InitBusy, InitError, PollError, ReadReturns, WriteReturns, InitFails, Polls,
         FlushEnds
<1>4. TypeOK'
  <2>1. result' \in {0, -1, -2, -3}
    BY <1>1 DEF TypeOK, InitStatus, InitBusy, InitError, PollError, ReadReturns, WriteReturns,
                InitFails
  <2>2. QED BY <1>1, <1>2, <1>3, <2>1 DEF TypeOK
<1>5. DevOk'
  BY <1>1, <1>2 DEF DevOk
<1>6. DriverOk'
  <2>1. pc' = "init_data" => kind = "ata"
    <3>1. pc' = "init_data" => InitBusy
      BY DEF InitStatus, InitBusy, InitError, PollError, ReadReturns, WriteReturns, InitFails
    <3>2. pc' = "init_data" => kind # "atapi" /\ kind # "floating"
      BY <3>1 DEF InitBusy, InitFails, Bsy
    <3>3. pc' = "init_data" => kind # "none"
      BY <3>1, <1>1 DEF InitBusy, DriverOk
    <3>4. QED BY <1>1, <3>2, <3>3, ConstantFacts DEF TypeOK
  <2>2. Returning' => s = call.count
    BY <1>1, <1>2, <1>3 DEF DriverOk, Returning
  <2>3. pc' = "init_busy" => kind # "none"
    BY DEF InitStatus, InitBusy, InitError, PollError, ReadReturns, WriteReturns, InitFails
  <2>4. QED BY <1>1, <1>2, <1>3, <2>1, <2>2, <2>3 DEF DriverOk, InCall
<1>7. InStep'
  <2>1. ASSUME ~misused, pc' = "idle" PROVE dev.cmd = "none"
    <3>1. kind = "ata" /\ InCall /\ dev.cmd \in Commands /\ dev.left \in Nat
      BY <1>1, <1>3, <2>1, ConstantFacts DEF DriverOk, InCall, DevOk, Registers
    <3>2. CASE pc = "poll" /\ Err
      BY <1>1, <3>1, <3>2 DEF Err, DevOk
    <3>3. CASE pc = "poll" /\ call.op = "read" /\ s = call.count
      <4>1. dev.cmd # "flush" /\ dev.cmd # "identify" /\ dev.cmd # "write"
        BY <1>1, <2>1, <3>1, <3>3 DEF InStep, Transfers
      <4>2. dev.cmd # "read"
        BY <1>1, <2>1, <3>1, <3>3 DEF InStep, Transfers, DevOk, Done, TypeOK
      <4>3. QED BY <3>1, <4>1, <4>2 DEF Commands
    <3>4. CASE pc = "flush" /\ ~Bsy
      <4>1. ~dev.bsy /\ s = call.count
        BY <1>1, <3>4 DEF Bsy, DriverOk
      <4>2. dev.cmd # "flush" /\ dev.cmd # "identify" /\ dev.cmd # "read"
        BY <1>1, <2>1, <3>1, <3>4, <4>1 DEF InStep, Transfers, DevOk
      <4>3. dev.cmd # "write"
        BY <1>1, <2>1, <4>1 DEF InStep, Transfers, DevOk, Done, TypeOK
      <4>4. QED BY <3>1, <4>2, <4>3 DEF Commands
    <3>5. QED BY <1>3, <2>1, <3>2, <3>3, <3>4
  <2>2. pc' # "ensure" /\ pc' # "poll" /\ pc' # "flush" /\ pc' # "boot"
    BY <1>3
  <2>3. dev.cmd \in {"identify", "flush"} \cup Transfers /\ ~misused => pc' \notin {"idle"}
    BY <2>1 DEF Transfers
  <2>4. ~misused /\ dev.cmd = "flush" => pc' = "flush"
    BY <1>1, <1>3, <2>1 DEF InStep
  <2>5. ~misused => dev.cmd \notin Transfers
    BY <1>1, <1>3, <2>1 DEF InStep, Transfers
  <2>6. QED BY <1>1, <1>2, <2>1, <2>2, <2>3, <2>4, <2>5 DEF InStep, InCall
<1>8. TransferOk'
  <2>1. Servable' = Servable
    BY <1>2 DEF Servable
  <2>2. Returning' => pc \in {"poll", "flush"}
    BY <1>3 DEF Returning
  <2>3. pc' \notin {"poll", "flush"}
    BY <1>3
  <2>4. QED BY <1>1, <1>2, <2>1, <2>2, <2>3 DEF TransferOk, Same
<1>9. QED BY <1>4, <1>5, <1>6, <1>7, <1>8 DEF IInv
\* disk_init sends IDENTIFY and reads its data.
LEMMA DiskInitKeeps == ASSUME IInv, DiskInit \/ InitData PROVE IInv'
<1>1. TypeOK /\ DevOk /\ DriverOk /\ InStep /\ TransferOk
  BY DEF IInv
<1>2. UNCHANGED <<kind, stored, dirty, call, s, buff, misused, result>>
  BY DEF DiskInit, InitData, InitUnchanged
<1>3. \/ pc = "boot" /\ pc' = "init_status" /\ dev' = Command("identify", 0, 0)
      \/ pc = "init_data" /\ pc' = "idle" /\ dev' = Ready
  BY DEF DiskInit, InitData
<1>4. /\ dev' \in Registers /\ dev'.sector = Junk /\ ~dev'.err
      /\ dev'.cmd # "none" => dev'.bsy /\ ~dev'.drq
      /\ dev'.cmd = "none" => ~dev'.bsy /\ ~dev'.drq
      /\ dev'.cmd = "none" \/ (dev'.cmd = "identify" /\ pc' = "init_status")
  <2>1. CASE pc = "boot"
    <3>1. dev = Ready
      BY <1>1, <2>1 DEF DriverOk
    <3>2. 0 \in 0 .. LbaLimit - 1 /\ 0 \in 0 .. MaxCount
      BY ConstantFacts
    <3>3. dev' = Command("identify", 0, 0) /\ pc' = "init_status"
      BY <1>3, <2>1
    <3>4. QED BY <1>1, <3>1, <3>2, <3>3, ReadyFacts, CommandFacts
  <2>2. CASE pc # "boot"
    BY <1>3, <2>2, ReadyFacts
  <2>3. QED BY <2>1, <2>2
<1>5. TypeOK'
  BY <1>1, <1>2, <1>3, <1>4 DEF TypeOK, Registers, Commands
<1>6. DevOk'
  BY <1>4 DEF DevOk, Transfers
<1>7. DriverOk'
  BY <1>1, <1>2, <1>3 DEF DriverOk, InCall, Returning, TypeOK
<1>8. InStep'
  BY <1>2, <1>3, <1>4 DEF InStep, InCall, Transfers
<1>9. TransferOk'
  BY <1>1, <1>2, <1>3 DEF TransferOk, Returning, DriverOk
<1>10. QED BY <1>5, <1>6, <1>7, <1>8, <1>9 DEF IInv

\* A call begins: the device is at rest.
LEMMA CallsKeep ==
  ASSUME IInv, NEW start \in Starts, NEW count \in Counts,
         DiskRead(start, count) \/ DiskWrite(start, count)
  PROVE  IInv'
<1>1. TypeOK /\ DevOk /\ DriverOk /\ InStep
  BY DEF IInv
<1>2. PICK op, contents :
        /\ op \in Transfers
        /\ Start(op, start, count, contents)
        /\ contents \in [0 .. count - 1 -> Data \cup {Junk}]
        /\ op = "write" => contents \in [0 .. count - 1 -> Data]
  <2>1. CASE DiskRead(start, count)
    BY <2>1 DEF DiskRead, Transfers
  <2>2. CASE DiskWrite(start, count)
    BY <2>2 DEF DiskWrite, Transfers
  <2>3. QED BY <2>1, <2>2
<1>3. /\ pc = "idle" /\ pc' = "ensure" /\ s' = 0 /\ buff' = contents
      /\ call' = [op |-> op, start |-> start, count |-> count]
      /\ misused' = (misused \/ count \notin 1 .. MaxCount)
      /\ UNCHANGED <<kind, dev, stored, dirty, result>>
  BY <1>2 DEF Start, device
<1>4. call'.op = op /\ call'.start = start /\ call'.count = count /\ count \in Nat
  BY <1>3, ConstantFacts
<1>5. TypeOK'
  <2>1. call' \in [op : {"read", "write"}, start : Starts, count : Counts]
    BY <1>2, <1>3 DEF Transfers
  <2>2. misused' \in BOOLEAN
    BY <1>3
  <2>3. buff' \in [0 .. call'.count - 1 -> Data \cup {Junk}] /\ s' \in 0 .. call'.count
    BY <1>2, <1>3, <1>4
  <2>4. QED BY <1>1, <1>3, <2>1, <2>2, <2>3 DEF TypeOK
<1>6. DevOk'
  BY <1>1, <1>3 DEF DevOk
<1>7. DriverOk'
  BY <1>1, <1>2, <1>3, <1>4 DEF DriverOk, InCall, Returning, Transfers
<1>8. InStep'
  <2>1. ~misused' => ~misused
    BY <1>3
  <2>2. ~misused' => dev.cmd = "none" /\ dev.sector = Junk
    BY <1>1, <1>3, <2>1 DEF InStep, DevOk
  <2>3. QED BY <1>3, <2>2 DEF InStep, InCall, Transfers
<1>9. TransferOk'
  BY <1>3 DEF TransferOk, Returning
<1>10. QED BY <1>5, <1>6, <1>7, <1>8, <1>9 DEF IInv

\* The command is written: its count and its address are those of the call, unless
\* the call was for too few sectors or too many.
LEMMA SendCommandKeeps == ASSUME IInv, SendCommand PROVE IInv'
<1>1. TypeOK /\ DevOk /\ DriverOk /\ InStep
  BY DEF IInv
<1>2. /\ pc = "ensure" /\ pc' = "poll" /\ ~dev.bsy /\ kind = "ata" /\ s = 0
      /\ dev' = Command(call.op, Address(call.start), SectorCount(call.count))
      /\ UNCHANGED <<kind, stored, dirty, call, s, buff, result, misused>>
  BY <1>1 DEF SendCommand, Bsy, DriverOk
<1>3. call.op \in Transfers /\ call.start \in Nat /\ call.count \in Nat
  BY <1>1, <1>2, CallFacts DEF DriverOk, InCall
<1>4. /\ Address(call.start) \in 0 .. LbaLimit - 1
      /\ SectorCount(call.count) \in 1 .. MaxCount
      /\ call.count \in 1 .. MaxCount => SectorCount(call.count) = call.count
  BY <1>3, AddressFacts, SectorCountFacts
<1>5. \/ dev' = dev /\ dev.cmd # "none"
      \/ /\ dev.cmd = "none"
         /\ dev' \in Registers /\ dev'.cmd = call.op /\ dev'.bsy /\ ~dev'.drq
         /\ ~dev'.err /\ dev'.sector = Junk
         /\ dev'.lba = Address(call.start) /\ dev'.left = SectorCount(call.count)
  <2>1. call.op \in {"identify", "read", "write", "flush"} /\ SectorCount(call.count) \in 0 .. MaxCount
    BY <1>3, <1>4, ConstantFacts DEF Transfers
  <2>2. QED BY <1>1, <1>2, <1>4, <2>1, CommandFacts
<1>6. dev' \in Registers
  BY <1>1, <1>5 DEF DevOk
<1>7. TypeOK'
  BY <1>1, <1>2, <1>6 DEF TypeOK, Registers, Commands
<1>8. DevOk'
  <2>1. CASE dev' = dev
    BY <1>1, <2>1 DEF DevOk
  <2>2. CASE dev.cmd = "none" /\ dev' # dev
    <3>1. /\ dev'.cmd \in Transfers /\ dev'.bsy /\ ~dev'.drq /\ ~dev'.err
          /\ dev'.sector = Junk /\ dev'.left \in 1 .. MaxCount
      BY <1>3, <1>4, <1>5, <2>2
    <3>2. dev'.bsy \in BOOLEAN /\ dev'.drq \in BOOLEAN
      BY <1>6 DEF Registers
    <3>3. dev'.left >= 1
      BY <3>1, ConstantFacts
    <3>4. QED BY <1>6, <3>1, <3>2, <3>3 DEF DevOk, Transfers
  <2>3. QED BY <1>5, <2>1, <2>2
<1>9. DriverOk'
  BY <1>1, <1>2 DEF DriverOk, InCall, Returning
<1>10. InStep'
  <2>1. SUFFICES ASSUME ~misused PROVE InStep'
    BY <1>2 DEF InStep
  <2>2. call.count \in 1 .. MaxCount
    BY <1>1, <1>3, <2>1 DEF DriverOk, Transfers
  <2>3. /\ dev'.cmd = call.op /\ dev'.sector = Junk
        /\ dev'.lba = Address(call.start) /\ dev'.left = call.count
    BY <1>1, <1>2, <1>4, <1>5, <2>1, <2>2 DEF InStep
  <2>4. Done' = 0
    BY <1>2, <2>3 DEF Done
  <2>5. dev'.lba = Address(call.start) + Done' /\ dev'.left = call.count - Done'
    BY <1>3, <1>4, <2>3, <2>4
  <2>6. Address(call.start)' = Address(call.start)
    BY <1>2 DEF Address
  <2>7. QED BY <1>2, <1>3, <2>3, <2>5, <2>6 DEF InStep, InCall, Transfers
<1>11. TransferOk'
  BY <1>2 DEF TransferOk
<1>12. QED BY <1>7, <1>8, <1>9, <1>10, <1>11 DEF IInv

\* All sectors were handed over: FLUSH CACHE, which a device that still stores the
\* last one ignores.
LEMMA SendFlushKeeps == ASSUME IInv, SendFlush PROVE IInv'
<1>1. TypeOK /\ DevOk /\ DriverOk /\ InStep /\ TransferOk
  BY DEF IInv
<1>2. /\ pc = "poll" /\ pc' = "flush" /\ call.op = "write" /\ s = call.count
      /\ kind = "ata"
      /\ dev' = Command("flush", 0, 0)
      /\ UNCHANGED <<kind, stored, dirty, call, s, buff, result, misused>>
  BY <1>1 DEF SendFlush, DriverOk
<1>3. \/ dev' = dev /\ dev.cmd # "none"
      \/ /\ dev.cmd = "none"
         /\ dev' \in Registers /\ dev'.cmd = "flush" /\ dev'.bsy /\ ~dev'.drq
         /\ ~dev'.err /\ dev'.sector = Junk
  <2>1. 0 \in 0 .. LbaLimit - 1 /\ 0 \in 0 .. MaxCount
    BY ConstantFacts
  <2>2. QED BY <1>1, <1>2, <2>1, CommandFacts
<1>4. dev' \in Registers
  BY <1>1, <1>3 DEF DevOk
<1>5. TypeOK'
  BY <1>1, <1>2, <1>4 DEF TypeOK, Registers, Commands
<1>6. DevOk'
  <2>1. CASE dev' = dev
    BY <1>1, <2>1 DEF DevOk
  <2>2. CASE dev.cmd = "none" /\ dev' # dev
    BY <1>3, <2>2 DEF DevOk, Transfers
  <2>3. QED BY <1>3, <2>1, <2>2
<1>7. DriverOk'
  BY <1>1, <1>2 DEF DriverOk, InCall, Returning
<1>8. InStep'
  <2>1. SUFFICES ASSUME ~misused PROVE InStep'
    BY <1>2 DEF InStep
  <2>2. CASE dev' = dev
    <3>1. Done' = Done /\ Address(call.start)' = Address(call.start)
      BY <1>2, <2>2 DEF Done, Address
    <3>2. dev.cmd # "read"
      BY <1>1, <1>2, <2>1 DEF InStep, Transfers
    <3>3. QED BY <1>1, <1>2, <2>1, <2>2, <3>1, <3>2 DEF InStep, InCall, Transfers
  <2>3. CASE dev.cmd = "none" /\ dev' # dev
    BY <1>2, <1>3, <2>3 DEF InStep, InCall, Transfers
  <2>4. QED BY <1>3, <2>2, <2>3
<1>9. TransferOk'
  BY <1>1, <1>2, <1>3 DEF TransferOk, Servable, Same, Returning
<1>10. QED BY <1>5, <1>6, <1>7, <1>8, <1>9 DEF IInv
\* A sector is read.
LEMMA ReadSectorKeeps == ASSUME IInv, ReadSector PROVE IInv'
<1>1. TypeOK /\ DevOk /\ DriverOk /\ InStep /\ TransferOk
  BY DEF IInv
<1>2. /\ pc = "poll" /\ s < call.count /\ call.op = "read"
      /\ ~dev.bsy /\ dev.drq /\ kind = "ata"
      /\ buff' = [buff EXCEPT ![s] = SectorRead]
      /\ dev' = AfterRead /\ s' = s + 1
      /\ UNCHANGED <<kind, stored, dirty, pc, call, result, misused>>
  BY <1>1 DEF ReadSector, Polls, SectorReady, Position, Bsy, Drq, DriverOk
<1>3. s \in Nat /\ call.count \in Nat /\ s \in 0 .. call.count - 1 /\ s + 1 \in 0 .. call.count
  BY <1>1, <1>2, CallFacts
<1>4. SectorRead \in Data \cup {Junk}
  BY <1>1 DEF SectorRead, DevOk, Transfers, TypeOK
<1>5. /\ buff' \in [0 .. call.count - 1 -> Data \cup {Junk}]
      /\ buff'[s] = SectorRead
      /\ \A i \in 0 .. call.count - 1 : i # s => buff'[i] = buff[i]
  BY <1>1, <1>2, <1>3, <1>4 DEF TypeOK
<1>6. CASE dev.cmd # "read"
  <2>1. dev' = dev
    BY <1>2, <1>6 DEF AfterRead
  <2>2. misused
    BY <1>1, <1>2, <1>6 DEF InStep, InCall, DevOk, Registers, Commands, Transfers
  <2>3. TypeOK'
    BY <1>1, <1>2, <1>3, <1>5, <2>1 DEF TypeOK
  <2>4. DevOk'
    BY <1>1, <2>1 DEF DevOk
  <2>5. DriverOk'
    BY <1>1, <1>2 DEF DriverOk, InCall, Returning
  <2>6. InStep' /\ TransferOk'
    BY <1>2, <2>2 DEF InStep, TransferOk, Servable
  <2>7. QED BY <2>3, <2>4, <2>5, <2>6 DEF IInv
<1>7. CASE dev.cmd = "read"
  <2>1. /\ dev' \in Registers
        /\ ~dev'.drq /\ ~dev'.err /\ dev'.sector = Junk
        /\ dev.left = 1 => dev'.cmd = "none" /\ ~dev'.bsy
        /\ dev.left # 1 =>
             /\ dev'.cmd = "read" /\ dev'.bsy
             /\ dev'.lba = dev.lba + 1
             /\ dev'.left = dev.left - 1 /\ dev'.left >= 1
    BY <1>1, <1>2, <1>7, AfterReadFacts
  <2>2. SectorRead = stored[dev.lba] /\ dev.lba \in Sectors /\ dev.sector = Junk
    BY <1>1, <1>2, <1>7 DEF SectorRead, DevOk, Transfers
  <2>3. TypeOK'
    BY <1>1, <1>2, <1>3, <1>5, <2>1 DEF TypeOK, Registers, Commands
  <2>4. DevOk'
    <3>1. dev'.bsy \in BOOLEAN /\ dev'.drq \in BOOLEAN
      BY <2>1 DEF Registers
    <3>2. QED BY <2>1, <3>1 DEF DevOk, Transfers
  <2>5. DriverOk'
    BY <1>1, <1>2 DEF DriverOk, InCall, Returning
  <2>6. ~misused => dev.lba = Address(call.start) + s /\ dev.left = call.count - s
    BY <1>1, <1>2, <1>7, <2>2 DEF InStep, Transfers, Done
  <2>7. InStep'
    <3>1. SUFFICES ASSUME ~misused PROVE InStep'
      BY <1>2 DEF InStep
    <3>2. Done' = s + 1 /\ Address(call.start)' = Address(call.start)
      BY <1>2, <2>1 DEF Done, Address
    <3>3. Address(call.start) \in Nat
      BY <1>1, AddressFacts, CallFacts
    <3>4. dev'.cmd = "read" => /\ dev'.lba = Address(call.start) + Done'
                              /\ dev'.left = call.count - Done'
      BY <1>3, <2>1, <2>6, <3>1, <3>2, <3>3
    <3>5. QED BY <1>2, <2>1, <3>2, <3>4 DEF InStep, InCall, Transfers
  <2>8. TransferOk'
    <3>1. SUFFICES ASSUME Servable PROVE \A i \in 0 .. s : Same(i)'
      BY <1>2, <1>3 DEF TransferOk, Servable
    <3>2. ~misused /\ call.start \in Nat /\ call.start < LbaLimit
      BY <1>1, <1>3, <3>1, CallFacts, ConstantFacts DEF Servable
    <3>3. dev.lba = call.start + s
      BY <2>6, <3>2, AddressFacts
    <3>4. ASSUME NEW i, i = s PROVE Same(i)'
      BY <1>2, <1>3, <1>5, <2>2, <3>3, <3>4 DEF Same
    <3>5. ASSUME NEW i \in 0 .. s - 1 PROVE Same(i)'
      <4>1. Same(i)
        BY <1>1, <1>2, <3>1 DEF TransferOk
      <4>2. i \in 0 .. call.count - 1 /\ i # s
        BY <1>3
      <4>3. QED BY <1>2, <1>5, <4>1, <4>2 DEF Same
    <3>6. \A i \in 0 .. s : i = s \/ i \in 0 .. s - 1
      BY <1>3
    <3>7. QED BY <3>4, <3>5, <3>6
  <2>9. QED BY <2>3, <2>4, <2>5, <2>7, <2>8 DEF IInv
<1>8. QED BY <1>6, <1>7
\* A sector is written.
LEMMA WriteSectorKeeps == ASSUME IInv, WriteSector PROVE IInv'
<1>1. TypeOK /\ DevOk /\ DriverOk /\ InStep /\ TransferOk
  BY DEF IInv
<1>2. /\ pc = "poll" /\ s < call.count /\ call.op = "write"
      /\ ~dev.bsy /\ dev.drq /\ kind = "ata"
      /\ dev' = AfterWrite(buff[s]) /\ s' = s + 1
      /\ UNCHANGED <<kind, stored, dirty, pc, call, buff, result, misused>>
  BY <1>1 DEF WriteSector, Polls, SectorReady, Position, Bsy, Drq, DriverOk
<1>3. s \in Nat /\ call.count \in Nat /\ s \in 0 .. call.count - 1 /\ s + 1 \in 0 .. call.count
  BY <1>1, <1>2, CallFacts
<1>4. buff[s] \in Data
  BY <1>1, <1>2, <1>3 DEF DriverOk
<1>5. DriverOk'
  BY <1>1, <1>2 DEF DriverOk, InCall, Returning
<1>6. CASE dev.cmd # "write"
  <2>1. dev' = dev
    BY <1>2, <1>6 DEF AfterWrite
  <2>2. misused
    BY <1>1, <1>2, <1>6 DEF InStep, InCall, DevOk, Registers, Commands, Transfers
  <2>3. TypeOK'
    BY <1>1, <1>2, <1>3, <2>1 DEF TypeOK
  <2>4. DevOk'
    BY <1>1, <2>1 DEF DevOk
  <2>5. InStep' /\ TransferOk'
    BY <1>2, <2>2 DEF InStep, TransferOk, Servable
  <2>6. QED BY <1>5, <2>3, <2>4, <2>5 DEF IInv
<1>7. CASE dev.cmd = "write"
  <2>1. /\ dev' \in Registers /\ dev'.cmd = "write" /\ dev'.bsy /\ ~dev'.drq /\ ~dev'.err
        /\ dev'.sector = buff[s] /\ dev'.lba = dev.lba /\ dev'.left = dev.left
    BY <1>1, <1>2, <1>4, <1>7, AfterWriteFacts
  <2>2. dev.sector = Junk /\ dev.lba \in Sectors /\ dev.left >= 1 /\ dev'.sector # Junk
    BY <1>1, <1>2, <1>4, <1>7, <2>1, ConstantFacts DEF DevOk, Transfers
  <2>3. TypeOK'
    BY <1>1, <1>2, <1>3, <2>1 DEF TypeOK, Registers, Commands
  <2>4. DevOk'
    <3>1. dev'.bsy \in BOOLEAN /\ dev'.drq \in BOOLEAN
      BY <2>1 DEF Registers
    <3>2. QED BY <2>1, <2>2, <3>1 DEF DevOk, Transfers
  <2>5. InStep'
    <3>1. SUFFICES ASSUME ~misused PROVE InStep'
      BY <1>2 DEF InStep
    <3>2. Done' = Done /\ Address(call.start)' = Address(call.start)
      BY <1>2, <1>3, <2>2 DEF Done, Address
    <3>3. dev.lba = Address(call.start) + Done /\ dev.left = call.count - Done
      BY <1>1, <1>7, <3>1 DEF InStep, Transfers
    <3>4. s' - 1 = s /\ s' >= 1
      BY <1>2, <1>3
    <3>5. QED BY <1>2, <2>1, <3>2, <3>3, <3>4 DEF InStep, InCall, Transfers
  <2>6. TransferOk'
    <3>1. SUFFICES ASSUME Servable PROVE \A i \in 0 .. s - 1 : Same(i)'
      BY <1>2, <1>3, <2>2 DEF TransferOk, Servable
    <3>2. \A i \in 0 .. s - 1 : Same(i)
      BY <1>1, <1>2, <1>7, <2>2, <3>1 DEF TransferOk
    <3>3. QED BY <1>2, <3>2 DEF Same
  <2>7. QED BY <1>5, <2>3, <2>4, <2>5, <2>6 DEF IInv
<1>8. QED BY <1>6, <1>7

\* The device offers a sector, or asks for one.
LEMMA OffersKeeps == ASSUME IInv, DeviceOffers, UNCHANGED driver PROVE IInv'
<1>1. TypeOK /\ DevOk /\ DriverOk /\ InStep /\ TransferOk
  BY DEF IInv
<1>2. UNCHANGED <<kind, stored, dirty, pc, call, s, buff, result, misused>>
  BY DEF DeviceOffers, driver
<1>3. /\ dev \in Registers /\ dev.bsy /\ ~dev.err /\ dev.sector = Junk
      /\ dev.cmd \in {"identify", "read", "write"}
      /\ dev.cmd \in Transfers => dev.lba \in Sectors
  BY <1>1 DEF DeviceOffers, Present, DevOk, Transfers, Registers
<1>4. /\ dev' \in Registers /\ dev'.bsy = FALSE /\ dev'.drq = TRUE
      /\ dev'.err = dev.err /\ dev'.sector = dev.sector /\ dev'.cmd = dev.cmd
      /\ dev'.lba = dev.lba /\ dev'.left = dev.left
  BY <1>3 DEF DeviceOffers, Offered, Registers
<1>5. TypeOK'
  BY <1>1, <1>2, <1>4 DEF TypeOK, Registers, Commands
<1>6. DevOk'
  <2>1. dev'.cmd # "none" /\ dev'.cmd # "flush" /\ ~dev'.err /\ dev'.sector = Junk
    BY <1>3, <1>4
  <2>2. dev'.bsy = ~dev'.drq
    BY <1>4
  <2>3. dev'.cmd \in Transfers => dev'.lba \in Sectors /\ dev'.left >= 1
    BY <1>1, <1>3, <1>4 DEF DevOk
  <2>4. QED BY <1>4, <2>1, <2>2, <2>3 DEF DevOk
<1>7. DriverOk'
  BY <1>1, <1>2, <1>3, ReadyFacts DEF DriverOk, InCall, Returning
<1>8. Done' = Done /\ Address(call.start)' = Address(call.start)
  BY <1>2, <1>4 DEF Done, Address
<1>9. InStep'
  BY <1>1, <1>2, <1>4, <1>8 DEF InStep, InCall
<1>10. TransferOk'
  BY <1>1, <1>2, <1>4 DEF TransferOk, Servable, Returning, Same
<1>11. QED BY <1>5, <1>6, <1>7, <1>9, <1>10 DEF IInv

\* The command is over.
LEMMA EndsKeep ==
  ASSUME IInv, DeviceFlushes \/ DeviceError \/ DeviceFault, UNCHANGED driver
  PROVE  IInv'
<1>1. TypeOK /\ DevOk /\ DriverOk /\ InStep /\ TransferOk
  BY DEF IInv
<1>2. /\ UNCHANGED <<kind, stored, pc, call, s, buff, result, misused>>
      /\ dirty' = dirty \/ dirty' = {}
      /\ dev.bsy
  BY DEF DeviceFlushes, DeviceError, DeviceFault, Present, driver
<1>3. /\ dev' \in Registers /\ dev'.cmd = "none" /\ ~dev'.bsy /\ ~dev'.drq
      /\ dev'.sector = Junk
  BY ReadyFacts, ReadyWithFacts DEF DeviceFlushes, DeviceError, DeviceFault
<1>4. TypeOK'
  BY <1>1, <1>2, <1>3 DEF TypeOK, Registers, Commands
<1>5. DevOk'
  BY <1>3 DEF DevOk, Transfers
<1>6. DriverOk'
  BY <1>1, <1>2, ReadyFacts DEF DriverOk, InCall, Returning
<1>7. InStep'
  BY <1>2, <1>3 DEF InStep, InCall, Transfers
<1>8. TransferOk'
  BY <1>1, <1>2, <1>3 DEF TransferOk, Servable, Returning, Same
<1>9. QED BY <1>4, <1>5, <1>6, <1>7, <1>8 DEF IInv

\* What is stored is the sector the driver has handed over last, at its address.
LEMMA StoredSector ==
  ASSUME IInv, DeviceStores, Servable
  PROVE  /\ InCall /\ call.op = "write"
         /\ s \in 1 .. call.count
         /\ dev.lba = call.start + (s - 1)
         /\ dev.sector = buff[s - 1]
<1>1. TypeOK /\ DevOk /\ DriverOk /\ InStep
  BY DEF IInv
<1>2. dev.cmd = "write" /\ dev.sector # Junk /\ ~misused
  BY DEF DeviceStores, Servable
<1>3. /\ call.op = "write" /\ s >= 1 /\ dev.sector = buff[s - 1] /\ InCall
      /\ dev.lba = Address(call.start) + (s - 1)
  BY <1>1, <1>2 DEF InStep, Transfers, InCall, Done
<1>4. call.start \in Nat /\ call.count \in Nat /\ s \in Nat /\ s <= call.count
  BY <1>1, CallFacts
<1>5. call.start < LbaLimit
  BY <1>3, <1>4, ConstantFacts DEF Servable
<1>6. Address(call.start) = call.start
  BY <1>4, <1>5, AddressFacts
<1>7. QED BY <1>3, <1>4, <1>6

LEMMA StoresKeeps == ASSUME IInv, DeviceStores, UNCHANGED driver PROVE IInv'
<1>1. TypeOK /\ DevOk /\ DriverOk /\ InStep /\ TransferOk
  BY DEF IInv
<1>2. /\ UNCHANGED <<kind, pc, call, s, buff, result, misused>>
      /\ stored' = [stored EXCEPT ![dev.lba] = dev.sector]
      /\ dirty' = dirty \cup {dev.lba}
      /\ dev.cmd = "write" /\ dev.sector # Junk /\ dev.bsy
  BY DEF DeviceStores, Present, driver
<1>3. dev.lba \in Sectors /\ dev.sector \in Data /\ dev \in Registers
  BY <1>1, <1>2 DEF DevOk, Registers
<1>4. /\ dev' \in Registers
      /\ ~dev'.drq /\ ~dev'.err /\ dev'.sector = Junk
      /\ dev.left = 1 => dev'.cmd = "none" /\ ~dev'.bsy
      /\ dev.left # 1 =>
           /\ dev'.cmd = "write" /\ dev'.bsy
           /\ dev'.lba = dev.lba + 1
           /\ dev'.left = dev.left - 1 /\ dev'.left >= 1
  BY <1>1, StoresFacts
<1>5. TypeOK'
  <2>1. stored' \in [Sectors -> Data]
    BY <1>1, <1>2, <1>3 DEF TypeOK
  <2>2. dirty' \subseteq Sectors
    BY <1>1, <1>2, <1>3 DEF TypeOK
  <2>3. QED BY <1>1, <1>2, <1>4, <2>1, <2>2 DEF TypeOK, Registers, Commands
<1>6. DevOk'
  <2>1. dev'.bsy \in BOOLEAN /\ dev'.drq \in BOOLEAN
    BY <1>4 DEF Registers
  <2>2. QED BY <1>4, <2>1 DEF DevOk, Transfers
<1>7. DriverOk'
  BY <1>1, <1>2, ReadyFacts DEF DriverOk, InCall, Returning
<1>8. s \in Nat /\ call.count \in Nat
  BY <1>1, CallFacts
<1>9. InStep'
  <2>1. SUFFICES ASSUME ~misused PROVE InStep'
    BY <1>2 DEF InStep
  <2>2. /\ pc \in {"poll", "flush"} /\ call.op = "write"
        /\ dev.lba = Address(call.start) + (s - 1) /\ dev.left = call.count - (s - 1)
    BY <1>1, <1>2, <2>1 DEF InStep, Transfers, Done
  <2>3. Done' = s /\ Address(call.start)' = Address(call.start)
    BY <1>2, <1>4 DEF Done, Address
  <2>4. Address(call.start) \in Nat
    BY <1>1, CallFacts, AddressFacts
  <2>5. dev'.cmd = "write" => /\ dev'.lba = Address(call.start) + Done'
                             /\ dev'.left = call.count - Done'
    BY <1>4, <1>8, <2>2, <2>3, <2>4
  <2>6. dev'.cmd \in {"none", "write"}
    BY <1>4
  <2>7. QED BY <1>2, <1>4, <2>2, <2>3, <2>5, <2>6 DEF InStep, InCall, Transfers
<1>10. TransferOk'
  <2>1. SUFFICES ASSUME Servable, pc \in {"poll", "flush"} \/ Returning
                 PROVE  TransferOk'
    BY <1>2 DEF TransferOk, Servable, Returning
  <2>2. /\ call.op = "write" /\ s \in 1 .. call.count /\ dev.lba = call.start + (s - 1)
        /\ dev.sector = buff[s - 1]
    BY <2>1, StoredSector
  <2>3. \A i \in 0 .. s - 2 : Same(i)
    BY <1>1, <2>1, <2>2 DEF TransferOk
  <2>4. ASSUME NEW i \in 0 .. s - 1 PROVE Same(i)'
    <3>1. CASE i = s - 1
      BY <1>1, <1>2, <1>3, <2>2, <3>1 DEF Same, TypeOK
    <3>2. CASE i # s - 1
      <4>1. i \in 0 .. s - 2 /\ call.start + i # dev.lba
        BY <1>1, <1>8, <2>2, <3>2, CallFacts
      <4>2. Same(i)
        BY <2>3, <4>1
      <4>3. QED BY <1>1, <1>2, <4>1, <4>2 DEF Same, TypeOK
    <3>3. QED BY <3>1, <3>2
  <2>5. \A i \in 0 .. s - 2 : i \in 0 .. s - 1
    BY <1>8
  <2>6. QED BY <1>2, <2>2, <2>4, <2>5 DEF TransferOk
<1>11. QED BY <1>5, <1>6, <1>7, <1>9, <1>10 DEF IInv

-----------------------------------------------------------------------------
LEMMA StepPreserves == IInv /\ [Next]_vars => IInv'
<1> SUFFICES ASSUME IInv, [Next]_vars PROVE IInv'
  OBVIOUS
<1>1. CASE Calls
  BY <1>1, CallsKeep DEF Calls
<1>2. CASE DriverStep
  <2>1. CASE InitStatus \/ InitBusy \/ InitError \/ PollError \/ ReadReturns \/ WriteReturns
    <3>1. UNCHANGED <<device, call, s, buff, misused>>
      BY <2>1 DEF InitStatus, InitBusy, InitError, PollError, ReadReturns, WriteReturns,
                  InitUnchanged, device
    <3>2. QED BY <2>1, <3>1, MovesKeep
  <2>2. QED
    BY <1>2, <2>1, DiskInitKeeps, SendCommandKeeps, ReadSectorKeeps, WriteSectorKeeps,
       SendFlushKeeps DEF DriverStep
<1>3. CASE DeviceStep
  BY <1>3, OffersKeeps, StoresKeeps, EndsKeep DEF DeviceStep
<1>4. CASE UNCHANGED vars
  <2>1. UNCHANGED <<kind, dev, stored, dirty, pc, call, s, buff, result, misused>>
    BY <1>4 DEF vars, device, driver
  <2>2. Address(call.start)' = Address(call.start)
    BY <2>1 DEF Address
  <2>3. QED
    BY <2>1, <2>2
       DEF IInv, TypeOK, DevOk, DriverOk, InStep, TransferOk, Returning, InCall, Done,
           Servable, Same
<1>5. QED BY <1>1, <1>2, <1>3, <1>4 DEF Next

LEMMA IInvHolds == Spec => []IInv
<1>1. QED BY InitEstablishes, StepPreserves, PTL DEF Spec

(***************************************************************************)
(* The registers of the device, the buffer and the count of sectors keep   *)
(* their types, also after calls for no sectors or too many.               *)
(***************************************************************************)
THEOREM TypeCorrect == Spec => []TypeOK
<1>1. IInv => TypeOK
  BY DEF IInv
<1>2. QED BY <1>1, IInvHolds, PTL

(***************************************************************************)
(* disk_read returns 0 only with the sectors asked for in the buffer, for  *)
(* every size of the device and of commands, whatever failed before and    *)
(* however the device's work falls between the polls (disk.c:112-126).     *)
(***************************************************************************)
THEOREM ReadIsRight == Spec => []ReadGivesTheSectors
<1>1. IInv => ReadGivesTheSectors
  <2> SUFFICES ASSUME IInv, Returned("read"), NEW i \in 0 .. call.count - 1
               PROVE  Same(i)
    BY DEF ReadGivesTheSectors, Same
  <2>1. Returning /\ Servable /\ call.op = "read" /\ s = call.count
    BY DEF Returned, Returning, IInv, DriverOk
  <2>2. QED BY <2>1 DEF IInv, TransferOk
<1>2. QED BY <1>1, IInvHolds, PTL

(***************************************************************************)
(* disk_write returns 0 only with every sector but the last stored         *)
(* (disk.c:158-189).                                                       *)
(***************************************************************************)
THEOREM WriteIsRight == Spec => []WriteLosesOnlyTheLast
<1>1. IInv => WriteLosesOnlyTheLast
  <2> SUFFICES ASSUME IInv, Returned("write"), NEW i \in 0 .. call.count - 2
               PROVE  call.start + i \in Sectors /\ stored[call.start + i] = buff[i]
    BY DEF WriteLosesOnlyTheLast
  <2>1. Returning /\ Servable /\ call.op = "write" /\ s = call.count
    BY DEF Returned, Returning, IInv, DriverOk
  <2>2. Same(i)
    BY <2>1 DEF IInv, TransferOk
  <2>3. QED BY <2>2 DEF Same
<1>2. QED BY <1>1, IInvHolds, PTL

(***************************************************************************)
(* As long as every count was one the driver can serve, the device changes *)
(* a sector only while a disk_write of it runs, and then to what that      *)
(* sector's place in the call's buffer holds: what a failed or finished    *)
(* call leaves behind never reaches the disk later, and no sector of the   *)
(* buffer lands at another's address (disk.c:158-189).                     *)
(***************************************************************************)
THEOREM StoresBelongToWrites == Spec => StoredOnlyByItsWrite
<1>1. ASSUME IInv, Next, NEW l \in Sectors, stored'[l] # stored[l], Servable
      PROVE  /\ InCall /\ call.op = "write"
             /\ l \in call.start .. call.start + call.count - 1
             /\ stored'[l] = buff[l - call.start]
  <2>1. DeviceStores
    BY <1>1 DEF Next, Calls, DiskRead, DiskWrite, Start, device, DriverStep, DiskInit,
                InitStatus, InitBusy, InitError, InitData, InitUnchanged, SendCommand,
                PollError, ReadSector, WriteSector, ReadReturns, SendFlush, WriteReturns,
                DeviceStep, DeviceOffers, DeviceFlushes, DeviceError, DeviceFault
  <2>2. stored' = [stored EXCEPT ![dev.lba] = dev.sector] /\ stored \in [Sectors -> Data]
    BY <1>1, <2>1 DEF DeviceStores, IInv, TypeOK
  <2>3. l = dev.lba /\ stored'[l] = dev.sector
    BY <1>1, <2>2
  <2>4. call.start \in Nat /\ call.count \in Nat /\ s \in Nat
    BY <1>1, CallFacts DEF IInv, TypeOK
  <2>5. /\ InCall /\ call.op = "write" /\ s \in 1 .. call.count
        /\ dev.lba = call.start + (s - 1) /\ dev.sector = buff[s - 1]
    BY <1>1, <2>1, StoredSector
  <2>6. l - call.start = s - 1 /\ l \in call.start .. call.start + call.count - 1
    BY <2>3, <2>4, <2>5
  <2>7. QED BY <2>3, <2>5, <2>6
<1>2. IInv /\ [Next]_vars =>
        [\A l \in Sectors :
           stored'[l] # stored[l] /\ Servable =>
             /\ InCall /\ call.op = "write"
             /\ l \in call.start .. call.start + call.count - 1
             /\ stored'[l] = buff[l - call.start]]_vars
  BY <1>1
<1>3. QED BY <1>2, IInvHolds, PTL DEF Spec, StoredOnlyByItsWrite
=============================================================================
