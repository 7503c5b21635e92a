-------------------------------- MODULE Disk --------------------------------
(***************************************************************************)
(* The ATA driver of src/src/drivers/disk.c and the device it polls.       *)
(*                                                                         *)
(* The driver takes a step per status register it reads and acts upon; the *)
(* device works on its own between any two of them.  Nothing else touches  *)
(* the device: the handler of its interrupt is empty.                      *)
(*                                                                         *)
(* The device is outside of the repository.  It is modelled as far as the  *)
(* driver relies on it: it raises BSY as soon as it accepts a command,     *)
(* clears it together with setting DRQ, ERR or DF or at the end of the     *)
(* command, ignores a command while BSY or DRQ is set (as QEMU does, in    *)
(* which src/run-qemu runs the kernel), and keeps written sectors in a     *)
(* cache until it is flushed.                                              *)
(***************************************************************************)
EXTENDS Integers

CONSTANTS
  MaxCount,  (* sectors of a command at most: 256                           *)
  LbaLimit,  (* addresses of a command: 2^28                                *)
  Capacity,  (* sectors of the device                                       *)
  Starts,    (* values of start_lba that callers pass                       *)
  Counts,    (* values of sector_count that callers pass                    *)
  Data,      (* contents of a sector                                        *)
  Junk,      (* what is read while no sector is offered                     *)
  Kinds      (* what may be at the primary bus                              *)

ASSUME DiskAssumption ==
  /\ MaxCount \in Nat \ {0} /\ LbaLimit \in Nat /\ Capacity \in 1 .. LbaLimit
  /\ Starts \subseteq Nat /\ Counts \subseteq Nat
  /\ Data # {} /\ Junk \notin Data
  /\ Kinds \subseteq {"ata", "atapi", "none", "floating"}

Sectors == 0 .. Capacity - 1

VARIABLES
  kind,    (* what is at the primary bus                                    *)
  dev,     (* the registers of the device and the command it works on       *)
  stored,  (* the sectors of the device                                     *)
  dirty,   (* the sectors that only its cache holds                         *)
  pc,      (* where the driver is                                           *)
  call,    (* the running or last call: operation, start_lba, sector_count  *)
  s,       (* sectors transferred by it                                     *)
  buff,    (* its buffer                                                    *)
  result,  (* what it returned                                              *)
  misused  (* history: some sector_count was 0 or above MaxCount            *)

device == <<kind, dev, stored, dirty>>
driver == <<pc, call, s, buff, result, misused>>
vars == <<device, driver>>

-----------------------------------------------------------------------------
(***************************************************************************)
(* The device.                                                             *)
(***************************************************************************)

Ready == [bsy |-> FALSE, drq |-> FALSE, err |-> FALSE, df |-> FALSE,
          cmd |-> "none", lba |-> 0, left |-> 0, sector |-> Junk]

\* A bus without pull-down resistors and without a drive reads as all ones.
Bsy == kind = "floating" \/ dev.bsy
Drq == kind = "floating" \/ dev.drq
Err == kind = "floating" \/ dev.err

Working(c, lba, count) ==
  [Ready EXCEPT !.bsy = TRUE, !.cmd = c, !.lba = lba, !.left = count]

\* The device after a command was written to its register.
Command(c, lba, count) ==
  IF kind \notin {"ata", "atapi"} \/ dev.bsy \/ dev.drq
  THEN dev
  ELSE Working(c, lba, count)

Offered == [dev EXCEPT !.bsy = FALSE, !.drq = TRUE]

\* One sector is done: the device goes on with the next one or is finished.
NextSector ==
  IF dev.left = 1
  THEN Ready
  ELSE [dev EXCEPT !.lba = @ + 1, !.left = @ - 1, !.sector = Junk]

Present == kind = "ata" /\ dev.bsy

DeviceOffers ==
  /\ Present
  /\ \/ dev.cmd = "identify"
     \/ dev.cmd = "read" /\ dev.lba \in Sectors
     \/ dev.cmd = "write" /\ dev.lba \in Sectors /\ dev.sector = Junk
  /\ dev' = Offered
  /\ UNCHANGED <<kind, stored, dirty>>

DeviceStores ==
  /\ Present /\ dev.cmd = "write" /\ dev.sector # Junk
  /\ stored' = [stored EXCEPT ![dev.lba] = dev.sector]
  /\ dirty' = dirty \cup {dev.lba}
  /\ LET next == NextSector IN dev' = [next EXCEPT !.bsy = next.cmd = "write"]
  /\ UNCHANGED kind

DeviceFlushes ==
  /\ Present /\ dev.cmd = "flush"
  /\ dirty' = {}
  /\ dev' = Ready
  /\ UNCHANGED <<kind, stored>>

\* The command is aborted, by a bad sector, a bad address or since the device
\* does not know it.
DeviceError ==
  /\ dev.bsy
  /\ dev' = [Ready EXCEPT !.err = TRUE]
  /\ UNCHANGED <<kind, stored, dirty>>

\* A fault of the device, which is reported by DF alone.
DeviceFault ==
  /\ Present
  /\ dev' = [Ready EXCEPT !.df = TRUE]
  /\ UNCHANGED <<kind, stored, dirty>>

DeviceStep ==
  /\ \/ DeviceOffers \/ DeviceStores \/ DeviceFlushes
     \/ DeviceError \/ DeviceFault
  /\ UNCHANGED driver

\* What the data register gives, and the device once a whole sector was read
\* from it or written to it.
SectorRead ==
  IF dev.drq /\ dev.cmd = "read" THEN stored[dev.lba] ELSE Junk

AfterRead ==
  IF dev.drq /\ dev.cmd = "read"
  THEN LET next == NextSector
       IN  [next EXCEPT !.bsy = next.cmd = "read", !.drq = FALSE]
  ELSE dev

AfterWrite(d) ==
  IF dev.drq /\ dev.cmd = "write"
  THEN [dev EXCEPT !.bsy = TRUE, !.drq = FALSE, !.sector = d]
  ELSE dev

-----------------------------------------------------------------------------
(***************************************************************************)
(* disk_init                                                               *)
(***************************************************************************)

NoCall == [op |-> "init", start |-> 0, count |-> 0]

Init ==
  /\ kind \in Kinds
  /\ dev = Ready
  /\ stored \in [Sectors -> Data]
  /\ dirty = {}
  /\ pc = "boot" /\ call = NoCall /\ s = 0 /\ buff = <<>> /\ result = 0
  /\ misused = FALSE

InitUnchanged == UNCHANGED <<kind, stored, dirty, call, s, buff, misused>>

DiskInit ==
  /\ pc = "boot"
  /\ dev' = Command("identify", 0, 0)
  /\ pc' = "init_status"
  /\ UNCHANGED result /\ InitUnchanged

\* The kernel stops when disk_init fails.
InitFails(r) == pc' = "stopped" /\ result' = r

InitStatus ==
  /\ pc = "init_status"
  /\ \/ kind = "none" /\ InitFails(-1)
     \/ kind # "none" /\ pc' = "init_busy" /\ UNCHANGED result
  /\ UNCHANGED dev /\ InitUnchanged

\* A packet device leaves its signature in the address registers.
InitBusy ==
  /\ pc = "init_busy" /\ ~Bsy
  /\ \/ kind = "atapi" /\ InitFails(-2)
     \/ kind # "atapi" /\ pc' = "init_data" /\ UNCHANGED result
  /\ UNCHANGED dev /\ InitUnchanged

InitError ==
  /\ pc = "init_data" /\ ~Drq /\ Err
  /\ InitFails(-3)
  /\ UNCHANGED dev /\ InitUnchanged

InitData ==
  /\ pc = "init_data" /\ Drq
  /\ dev' = Ready
  /\ pc' = "idle"
  /\ UNCHANGED result /\ InitUnchanged

-----------------------------------------------------------------------------
(***************************************************************************)
(* disk_read and disk_write                                                *)
(***************************************************************************)

InCall == pc \in {"ensure", "poll", "flush"}

Start(op, start, count, contents) ==
  /\ pc = "idle"
  /\ call' = [op |-> op, start |-> start, count |-> count]
  /\ s' = 0
  /\ buff' = contents
  /\ misused' = (misused \/ count \notin 1 .. MaxCount)
  /\ pc' = "ensure"
  /\ UNCHANGED <<device, result>>

DiskRead(start, count) ==
  Start("read", start, count, [i \in 0 .. count - 1 |-> Junk])

DiskWrite(start, count) ==
  \E contents \in [0 .. count - 1 -> Data] :
     Start("write", start, count, contents)

\* Mutated: the upper bits of the address are not cut off.
AddressUncut(lba) == lba

\* The four registers of the address hold 28 bits.
Address(lba) == lba % LbaLimit

\* Mutated: a command for MaxCount sectors passes for none.
SectorCountLow(count) == IF count >= MaxCount THEN MaxCount - 1 ELSE count

\* The sector count register: MaxCount is written, and read by the device,
\* as zero.
SectorCount(count) ==
  LET register == IF count >= MaxCount THEN 0 ELSE count
  IN  IF register = 0 THEN MaxCount ELSE register

SendCommand ==
  /\ pc = "ensure" /\ ~Bsy
  /\ dev' = Command(call.op, Address(call.start), SectorCount(call.count))
  /\ pc' = "poll"
  /\ UNCHANGED <<kind, stored, dirty, call, s, buff, result, misused>>

Polls == pc = "poll" /\ s < call.count

PollError ==
  /\ Polls /\ Err
  /\ pc' = "idle" /\ result' = -1
  /\ UNCHANGED <<device, call, s, buff, misused>>

\* Mutated: DRQ is not looked at.
SectorReadyEarly == ~Err /\ ~Bsy

SectorReady == ~Err /\ ~Bsy /\ Drq

\* Mutated: the buffer's position does not advance.
PositionFirst(i) == 0

\* The sector of the buffer that the i-th transfer is from or to.
Position(i) == i

ReadSector ==
  /\ Polls /\ call.op = "read" /\ SectorReady
  /\ buff' = [buff EXCEPT ![Position(s)] = SectorRead]
  /\ dev' = AfterRead
  /\ s' = s + 1
  /\ UNCHANGED <<kind, stored, dirty, pc, call, result, misused>>

WriteSector ==
  /\ Polls /\ call.op = "write" /\ SectorReady
  /\ dev' = AfterWrite(buff[Position(s)])
  /\ s' = s + 1
  /\ UNCHANGED <<kind, stored, dirty, pc, call, buff, result, misused>>

ReadReturns ==
  /\ pc = "poll" /\ call.op = "read" /\ s = call.count
  /\ pc' = "idle" /\ result' = 0
  /\ UNCHANGED <<device, call, s, buff, misused>>

SendFlush ==
  /\ pc = "poll" /\ call.op = "write" /\ s = call.count
  /\ dev' = Command("flush", 0, 0)
  /\ pc' = "flush"
  /\ UNCHANGED <<kind, stored, dirty, call, s, buff, result, misused>>

\* Mutated: the end of the flush is not waited for.
FlushEndsAtOnce == TRUE

FlushEnds == ~Bsy

WriteReturns ==
  /\ pc = "flush" /\ FlushEnds
  /\ pc' = "idle" /\ result' = 0
  /\ UNCHANGED <<device, call, s, buff, misused>>

-----------------------------------------------------------------------------
Calls ==
  \E start \in Starts, count \in Counts :
     DiskRead(start, count) \/ DiskWrite(start, count)

DriverStep ==
  \/ DiskInit \/ InitStatus \/ InitBusy \/ InitError \/ InitData
  \/ SendCommand \/ PollError \/ ReadSector \/ WriteSector
  \/ ReadReturns \/ SendFlush \/ WriteReturns

Next == Calls \/ DriverStep \/ DeviceStep

\* The driver goes on polling, and the device does not work on one command for
\* ever.  Callers need not call.
Fairness == WF_vars(DriverStep) /\ WF_vars(DeviceStep)

Spec == Init /\ [][Next]_vars /\ Fairness

-----------------------------------------------------------------------------
(***************************************************************************)
(* Properties.                                                             *)
(***************************************************************************)

\* Types of the variables.
TypeOK ==
  /\ kind \in Kinds
  /\ dev \in [bsy : BOOLEAN, drq : BOOLEAN, err : BOOLEAN, df : BOOLEAN,
              cmd : {"none", "identify", "read", "write", "flush"},
              lba : 0 .. LbaLimit, left : 0 .. MaxCount,
              sector : Data \cup {Junk}]
  /\ stored \in [Sectors -> Data]
  /\ dirty \subseteq Sectors
  /\ pc \in {"boot", "init_status", "init_busy", "init_data", "stopped",
             "idle", "ensure", "poll", "flush"}
  /\ \/ call = NoCall
     \/ call \in [op : {"read", "write"}, start : Starts, count : Counts]
  /\ s \in 0 .. call.count
  /\ buff \in [0 .. call.count - 1 -> Data \cup {Junk}]
  /\ result \in {0, -1, -2, -3}
  /\ misused \in BOOLEAN

\* The calls the driver can serve: every one so far was for 1 to MaxCount
\* sectors, and this one is for sectors that a command can name.  A call for
\* no sectors leaves the device in a command for MaxCount of them, in which
\* the next call ends up; an address above the limit is cut.
Servable == ~misused /\ call.start + call.count <= LbaLimit

Returned(op) == pc = "idle" /\ call.op = op /\ result = 0 /\ Servable

\* disk_read returns 0 only with the buffer holding the sectors asked for,
\* each in its place, whatever failed in earlier calls and however the device's
\* progress falls between the polls of lines 112-120.
ReadGivesTheSectors ==
  Returned("read") =>
    \A i \in 0 .. call.count - 1 :
       call.start + i \in Sectors /\ buff[i] = stored[call.start + i]

\* disk_write returns 0 only when every sector but the last is what the buffer
\* holds.  The last one's outcome comes after the last status that lines
\* 162-170 look at, so an error in it goes unnoticed.
WriteLosesOnlyTheLast ==
  Returned("write") =>
    \A i \in 0 .. call.count - 2 :
       call.start + i \in Sectors /\ stored[call.start + i] = buff[i]

\* A sector of the device changes only while a disk_write that covers it runs,
\* and becomes what its place in that call's buffer holds: nothing is still
\* under way when the call returns (line 189), no failed call leaves the device
\* in a command that a later call would feed, and no transfer of lines 172-184
\* is skipped or taken twice.  After a call with a count that the device reads
\* as another one, or for an address that is cut, nothing of this is said.
StoredOnlyByItsWrite ==
  [][\A l \in Sectors :
       stored'[l] # stored[l] /\ Servable =>
         /\ InCall /\ call.op = "write"
         /\ l \in call.start .. call.start + call.count - 1
         /\ stored'[l] = buff[l - call.start]]_vars

\* Every call, of disk_init too, returns, failing device or not, with the exceptions:
\* a fault that only DF reports, a bus that floats, and a count that the device
\* reads as another one.
EveryCallReturns ==
  /\ pc = "boot" ~> (pc \in {"idle", "stopped"} \/ dev.df \/ kind = "floating")
  /\ InCall ~> (~InCall \/ dev.df \/ misused)

\* "After writing all sectors, flush cache" (src/src/drivers/disk.c:186): when
\* disk_write returns 0, the cache of the device holds none of its sectors.
FlushedOnReturn ==
  Returned("write") =>
    dirty \cap (call.start .. call.start + call.count - 1) = {}
=============================================================================
