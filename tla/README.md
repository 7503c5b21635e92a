# ssos: formal models, checks and proofs

ssos is a small x86-64 kernel (C and a little assembly, booted by Limine). This
directory holds TLA+ models of its core, the TLC configurations that check them
on small instances, and theorems about them that the TLA+ proof system checks.
Paths such as `mem/mem.c` are relative to `src/src/` of the repository.

    tlc -config MCHeap_growth.cfg MCHeap.tla      # one run
    for m in LoopProofs HeapProofs PageFramesProofs KeyboardProofs \
             ShellProofs DiskProofs KernelProofs KernelDataProofs
    do tlapm $m.tla; done                         # the proofs

## 1. The system

| Component | State it keeps | Operations | Interaction |
|---|---|---|---|
| Kernel heap, `mem/mem.c` | one free list per level, the headers inside the blocks, `highest_level`, `highest_block_size` | `kalloc_init`, `kmalloc`, `kfree` | takes runs of pages from the page frame allocator; called by the shell (loop **and** interrupt) and by `gpt_init` |
| Page frame allocator, `mem/paging.c` | the bitmap `pages`, base and number of the pages it manages | `paging_init_frame_allocator`, `paging_alloc_pages`, `paging_free_pages` (no caller) | reads the boot loader's memory map; maps every page it hands out |
| Page tables, `mem/paging.c` | the tables reached from CR3, the pool of 512 new ones | `paging_map_page` | called per page by `paging_alloc_pages` |
| Keyboard driver, `drivers/keyboard.c` | the decoder's static flags, the ring of 24 events, the callback | `keyboard_init`, `keyboard_irq_handler`, `keyboard_get_event`, `keyboard_install_event_callback` | IRQ 1; calls the shell's callback inside the interrupt |
| Shell, `shell/shell.c` | the line buffer (pointer, capacity, size), `shell_prompt_confirmed`, `shell_shift_is_held` | `shell_init` (an endless loop), `shell_input_callback` | the loop and the callback share the buffer, the heap and the screen |
| Interrupts, `interrupts/*` | the IDT, the table of 16 drivers, the two PICs' requests, masks and in-service bits | `idt_init`, `idt_irq_handler`, `idt_install_irq_driver`, `pic_init`, `pic_send_eoi`, `stop`, `wait_for_interrupts` | interrupt gates: a handler runs with interrupts off; an interrupt ends `hlt` |
| Screen, `drivers/screen.c` | cursor, colour, scale, the frame buffer | `screen_putch`, `screen_print`, `screen_scroll`, `screen_clear` | called by the loop, by the callback and by the exception handler |
| ATA disk, `drivers/disk.c` | the device's registers, the IDENTIFY block | `disk_init`, `disk_read`, `disk_write` | polled; IRQ 14 is acknowledged and ignored |
| GPT, `fs/gpt.c` | the fields of the header | `gpt_init` | `disk_read`, `kmalloc`, `kfree`, CRC |
| Kernel entry, `kernel/kmain.c` | none | the order of the initialisations | stops on the first failure |
| Bit arithmetic, `misc/bit_math.c` | none | `logb`, `round_pow2_boundary`, the CRC | used by the heap and the GPT |

What is hard here:

* **Interrupts.** There is one processor and no scheduler, but the keyboard
  interrupt runs the shell's callback between any two instructions of the
  shell's loop. Both use the line buffer, the heap and the cursor; nothing
  disables interrupts around the loop's part.
* **Long sequences of calls.** A buddy allocator is right or wrong after many
  splits and merges in some order, and `kfree` trusts the header it finds at an
  address it computed.
* **Failing steps.** A growth of the heap that is refused leaves
  `highest_level` raised.
* **Bit and index arithmetic.** Shifts of an `int` into a 64-bit bucket, a
  candidate address that is one off, rounding against the kernel's bounds, the
  wraparound of the ring buffer.
* **A decoder with memory.** Prefixes and half-seen sequences stay in static
  variables until some later byte clears them.

What makes each component correct:

* heap: blocks held by callers never overlap; no byte is lost; buddies are merged
  when both are free; NULL only when nothing fits; every call returns;
* page frames: what is handed out is in the region, was free, and is not handed
  out again (it is: `frames_twice`); the region is usable memory without a whole page
  of the kernel, and the largest;
* keyboard: what is typed is decoded, in order; events are lost only by a full
  buffer; a key that leaves flags up disturbs no more than the next;
* shell: no illegal access to the line buffer; the line is what is displayed;
  Enter is served, and nothing else is;
* disk: a return value of 0 means that the sectors asked for, and no others, were
  transferred, each to or from its place; every call returns;
* interrupts: the driver called is that of the device that asked; afterwards no line
  is left in service; a request that is not withdrawn is served;
* keyboard initialisation: 0 means a keyboard that scans in set 2; its interrupt
  is never lost for good;
* screen: the cursor stays on it, and it shows the last lines of the text;
* GPT: a header as it was written is accepted, and a damaged one is not;
* boot: it reaches the prompt, stops, or polls a disk that does not answer.

## 2. The modules

| Module | Models | Grain |
|---|---|---|
| `Heap` | `mem/mem.c:10-151` | one action per loop iteration of `kmalloc` and `kfree` |
| `Allocator`, `HeapAllocator` | what a heap promises its callers; `Heap` as one | one action per call and per return |
| `BitMath`, `HeapLevels` | `misc/bit_math.c:7-19`, `mem/mem.c:64` | pure operators on words of a given width |
| `Loops`, `LoopProofs` | the counted loops of `misc/bit_math.c`, used by `BitMath` and `Crc32`; lemmas about them | one step of a recursive function per round |
| `HeapProofs` | theorems about `Heap`, `HeapAllocator` and `HeapLevels` | |
| `PageFrames` | `mem/paging.c:97-198` | one action per loop iteration: an entry of the memory map, a bit or a skipped bucket of the scan |
| `PageFramesProofs` | theorems about `PageFrames` | |
| `Keyboard` | `drivers/keyboard.c:97-572, 609-618` | one action per byte (the interrupt handler) |
| `EventQueue`, `KeyboardQueue` | a bounded queue that drops its oldest element; the ring of `Keyboard` as one | one action per event |
| `KeyboardProofs` | theorems about `Keyboard` and `KeyboardQueue` | |
| `Shell` | `shell/shell.c` | one action per shared access of the loop; the callback is one action |
| `ShellProofs` | theorems about `Shell` | |
| `Disk` | `drivers/disk.c` | one action per status register that is read and acted upon; the device steps in between |
| `DiskProofs` | theorems about `Disk` | |
| `Interrupts` | `interrupts/idt.c`, `pic.c`, `isr.asm` | one action per port write, acknowledge, driver call |
| `KeyboardInit` | `drivers/keyboard.c:31-95, 557-607` | one action per port access that is acted upon; the keyboard steps in between |
| `Screen` | `drivers/screen.c:149-238`, `memmove` | one action per access to the cursor or the frame buffer |
| `Crc32`, `Gpt` | `misc/bit_math.c:21-35`, `fs/gpt.c` | bit by bit; one action |
| `Kernel` | `kernel/kmain.c:29-92`, the loop of `shell_init` | composes `Interrupts`, `KeyboardInit`, `Screen` and `Gpt` |
| `KernelProofs`, `KernelDataProofs` | theorems about `Kernel`: interrupts, the keyboard and its initialisation; the screen and the partition table | |
| `MCHeap`, `MCPageFrames`, `MCKeyboard`, `MCShell`, `MCDisk`, `MCKernel` | constants for TLC | |

`Kernel` is the composition: it extends the four modules below it, and an
interrupt comes between any two of its steps. The allocators, the disk and the
shell's buffer have modules of their own; `Kernel` has their outcomes.
`Heap` takes any run of pages from `paging_alloc_pages`, one with bytes it already
has included; `PageFrames` shows that those are the runs it gets. `Shell` takes from
the heap that `kmalloc` returns a buffer nobody holds, or NULL; that is what
`Allocator` says and `HeapImplementsAllocator` proves, until a growth succeeds: for
lines longer than a page, `Shell` assumes more than the kernel gives it.

Operators whose comment begins with "Mutated:" are wrong on purpose. Each is a
variant of the operator below it with a plausible bug, kept to show that a
property notices that bug; no specification uses them.

### Heap

The state is that of the C code: `mem_blocks` (a sequence per level instead of
linked pointers), `highest_level`, and `hdr`, the `level` and `is_free` fields
of the header of every current block. `highest_block_size` is
`BlockSize[highest_level]` throughout and has no variable. `pc` and the locals
of the running call are variables, since a call takes many steps. Three variables
are bookkeeping: `regions`, the runs of pages obtained, `shared`, whether one of
them had bytes of an earlier one, and `owned`, what `kmalloc` handed out and `kfree`
did not get back, with the bytes promised.

`kmalloc` takes it that a run of pages is its own. It is not. `kalloc_init` takes the
first page of the region, and `paging_alloc_pages` makes the page in use before a
run its first (`paging.c:178`), so in this kernel **every** growth that succeeds
begins with a page of the heap, the first growth with the one `kalloc_init` took:
`mem.c:59-61` write a header over whatever is there, and the bytes of that page are in
the heap twice. `KmallocGrow` does that
(`AddRegion`), and the call goes on to its end: what it hands out is in `owned`, so that
two callers may hold the same bytes. There the model ends: the next
`kmalloc` or `kfree` would read headers that callers have written over. The other
properties of the heap say nothing of what comes after (`~shared`). What they are
worth in this kernel is therefore the first page, with every growth that is
refused (no pages left, or a level too high) and its raised `highest_level`; growths
by runs of their own are covered as well, but it takes another page allocator
to get one.

`kfree` reads a header at an address it computes. If that address is a current
block, the read returns `hdr`; anywhere else the memory holds payload, a stale
header or nothing of the heap, and `HeaderAt` returns any header. If what is read
makes `kfree` merge with something that is not on the free list, the model
ends in `pc = "corrupt"` (`KfreeMergeForeign`): what the kernel does from there
on depends on the contents of memory the heap does not own.

Callers are arbitrary: any request of the set `Requests`, `kfree` of any block
held, in any order. `kmalloc(0)` and `kfree(NULL)` return at once and have no
action.

`Allocator` knows only `live` (address to size), the running call and its
request: `Grant` returns any range that nobody holds, `Free` forgets one, and a
call may end everything (`"over"`: the initialisation failed, a run of pages was
not fresh, or a merge with foreign memory). `HeapAllocator` maps `owned` to `live` and the many values of
`pc` to five calls, so that searching, splitting and merging are stutters.

The level a request needs is a condition in `Heap` (`IsTargetLevel`). `HeapLevels`
says that `logb(round_pow2_boundary(n))`, computed on words by `BitMath`, is that
level for every size up to the largest power of two of an `int`.

### PageFrames

`ConsiderEntry` is one iteration of the loop over the memory map, with the best
region so far in `best`. `InitFrameAllocator` builds the bitmap as the C code
does, in one step since nothing looks at it before: `1 << (page_idx % 64)`
shifts an `int`, so the processor takes the count modulo 32 and the value is
sign-extended (`ShiftedBit`, `BitsSetFor`). A call of `paging_alloc_pages` begins
with `AllocPages` and scans bit by bit, its locals in `scan`: `SkipBucket` passes
over a bucket without a set bit and leaves the count as it is, `ScanUsedPage`
resets the count and makes **that** page the candidate, `ScanFreePage` counts,
`Grant` marks and returns, `AllocPagesFails` returns NULL.
`virt_kernel_start` and `virt_kernel_end` are read by the code as variables
while the linker script defines addresses, so the pair is an arbitrary input.

### Keyboard

`decoder` holds the static variables of `keyboard_translate_scancode`, and
`Translate` is that function with its tables. `IrqNoEvent` and `IrqEvent` are
the two outcomes of the interrupt handler for one byte; `IrqEvent` includes the
call of the callback with the oldest event. `Press` and `Release` are the
device: they put the bytes of a key on the wire. `typed`, `decoded` and
`delivered` are histories. What the device sends is bound by
`ScancodesAssumption`: a key is one byte that the tables know, alone or behind
`E0`, or a sequence of more bytes, and only Pause has `E1`. `KeyboardQueue` reads the ring backwards from its
index, `event_count` slots, and maps that sequence to the queue of `EventQueue`,
which puts, drops its oldest element when it is full, and gets.

### Shell

The loop takes one step per access to a variable it shares with the callback, in
the order in which the `-O2` build of the repository's makefile performs them:
the reset of the buffer is inlined into `shell_init`, the pointer is loaded
before the flag and the sizes are cleared. `faults` collects illegal accesses
(double free, use after free, a write through NULL or past the end, and
`kmalloc` or `kfree` entered while the loop is inside `kfree`); after one of them
the model stops. `raced` is a history: a letter was typed during the reset.

### Disk

`disk_init` and `kind` decide whether the driver comes up: the bus has an ATA
drive, a packet device, nothing (status 0), or it floats (all ones). A call
of `disk_read` or `disk_write` waits for BSY to clear and sends the command
(`SendCommand`), then polls and transfers sector by sector (`PollError`,
`ReadSector`, `WriteSector`); a write sends CACHE FLUSH and waits once more.

The device is not part of the repository. `dev` has the status bits, the
command, its address and the sectors left; `dirty` is the set of sectors only
its cache holds. It may abort any command (ERR) or fault (DF alone). Two
assumptions are worth naming: BSY is up as soon as a command is accepted, and a
command written while BSY or DRQ is set is ignored. The ATA standard leaves
the latter open, QEMU (see `src/run-qemu`) does that. `sector_count` is any
number: a call for none, or for more than the device's maximum, sets
`misused`, since the device then works on another number of sectors than
the loop.

### Interrupts, KeyboardInit, Screen, Gpt, Kernel

`Interrupts` has the two controllers as records: the word of the initialisation
they wait for, offset, cascade, mask, requests, in service. A line is
edge-triggered; if it falls before the acknowledge, the controller answers with
its last vector, as the hardware does (a spurious interrupt). `cpu` is where the
processor is: in the kernel's code, acknowledging, in a stub, in `pic_send_eoi`.
The gates are interrupt gates, so no interrupt nests; an NMI goes to the
exception stubs. `asked` is a history: the lines that rose and whose driver
has not run.

`KeyboardInit` has the three loops of `keyboard_init` as one `SendCommand` and
one `ReadAnswer`, parameterised by the step; the answer is read once, whether
it is there or not. The keyboard takes bytes, answers or asks to repeat one,
sends keys while it scans, and does all that when it likes; its controller holds
one byte and raises line 1. `late` is a history: an answer was read that was not
the one to the last byte.

`Screen` has the frame buffer as the set of addresses of lit pixels. Printing by
the loop takes the steps in which the `-O2` build touches the shared cursor;
printing by an interrupt is one step. `memmove` is modelled by what it does to
a region that overlaps itself, in the order it copies. `text` is a history of
the last lines.

`Crc32` computes the checksum on sets of bits in the loop of the code, next to a
reference that divides polynomials. `Gpt` judges a header, any set of bits, in the
order of the code's checks. `Headers` are what a disk may hold: headers of the
revision and size that `gpt_init` knows, with the checksum of the reference. A
longer header, which UEFI allows up to a whole sector, is refused as one with unknown
fields (`gpt.c:61-64`) and is no matter of any property. `Damage` are the bits that
may have turned since: of the checksum, or of four neighbouring bytes of the rest.

`disk_init` and `gpt_init` succeed, fail, or wait for ever in one of the loops of the
disk driver (`DiskPollsForever`, stage `"polling"`), as `Disk` shows they can on a bus
that floats or after a fault reported by DF alone. Interrupts go on meanwhile.

## 3. The runs

| Run | Properties | What it shows |
|---|---|---|
| `heap_page` | `FullyCoalesced`, `MergesListedBuddyBeforeGrowth` | While the heap is its first page, buddies are merged exactly when both are free blocks. |
| `heap_growth` | `TypeOK`, `LiveRangesDisjoint`, `NoByteLost`, `NullMeansNoFit`, `LevelIsRoundedLogarithm`, `EveryCallReturns`, `ImplementsAllocator` | The same allocator with further runs of pages, obtained or refused, and as an implementation of `Allocator`, up to a run that has bytes of an earlier one. |
| `heap_foreign` (violation) | `MergesListedBuddy` | After a growth was tried, `kfree` may merge with foreign memory. |
| `frames` | `TypeOK`, `RegionIsUsable`, `LargestRegionChosen`, `PresentPagesStartFree`, `GrantsInsideShortRegion`, `NullMeansNoRun`, `LaterRunsBeginInUse` | The region chosen from the memory map, the bitmap it starts with, and runs of pages handed out until none are left, each but the first beginning with a page in use. |
| `frames_twice` (violation) | `NoPageGrantedTwice` | A run found after a page in use begins with that page. |
| `frames_phantom` (violation) | `GrantsInsideRegion` | A last bucket with more than half its pages hands out pages beyond the region. |
| `keyboard_keys` | `TypeOK`, `DecodedAsTyped`, `PlainKeyResynchronises`, `HalvesAreUsedOnce`, `ImplementsEventQueue` | Every sequence of four presses and releases of seven keys, Print Screen, Pause and a key in fake shifts among them; the ring buffer across its wraparound, with the callback installed at any time. |
| `keyboard_pause` (violation) | `PauseIsReported` | The Pause key is never reported. |
| `shell_keys` | `OnlyResetRaces`, `NoBufferLeaks`, `LineIsWhatIsShown`, `NoPromptWithoutEnter`, `EnterIsServed` | Up to six keys, each at any point of the loop. |
| `disk_calls` | `TypeOK`, `ReadGivesTheSectors`, `WriteLosesOnlyTheLast`, `StoredOnlyByItsWrite`, `EveryCallReturns` | Any sequence of reads and writes against a device that may abort or fault at any point; which calls poll for ever. |
| `disk_flush` (violation) | `FlushedOnReturn` | `disk_write` returns with its sectors in the cache. |
| `kernel_boot` | `DriverWasAskedFor`, `NothingLeftInService`, `RequestsAreServed`, `InitMeansReady`, `KeyboardStaysAlive`, `DamageIsNoticed`, `StaysOnScreen`, `ShowsTheText`, `BootEnds` | From `kmain` to the prompt, with a keyboard that answers late or asks again, a device on the slave, keys, and interrupts between any two steps. |

Deadlock is not checked where the system really stops or the input is bounded:
the heap after `"stopped"` or `"corrupt"`, the frame allocator after `"failed"`,
the keyboard and the shell when the bound on the keys is used up, the disk
driver when it polls a device that does not answer, the kernel when it has
stopped or waits in `hlt`.

### What the violations show

* **`heap_foreign`.** `kfree` compares the level of a block with
  `highest_level` only. A request larger than the heap raises `highest_level` even
  when no pages are left (`mem.c:50-57`). From then on the buddy of a whole
  region is looked for outside of it, and only the contents of that memory
  decide whether the block grows over it. The same happens after a growth that
  succeeds, since regions are neither adjacent nor aligned to their size.
  `MergesListedBuddyBeforeGrowth` holds: within the first page the allocator is
  right.
* **`frames_twice`.** `paging.c:178` makes the page that is *in use* the
  candidate. The second run handed out after some page overlaps that page. In
  the kernel the first run is the page of `kalloc_init` and the second the heap's
  first growth. With a block in the upper half of that page held by a caller, the
  growth lists the whole run as one free block and hands it to the next caller,
  who holds the first one's bytes too.
* **`frames_phantom`.** Bit 31 of a bucket, set by a shift of an `int`, sets bits
  31 to 63. When the last bucket has between 32 and 63 pages this marks pages
  beyond the region. For other sizes the two effects (lost bits above 31, sign
  extension) cancel out: `PresentPagesStartFree` holds, and
  `GrantsInsideShortRegion` says for which sizes no page beyond the region is
  handed out.
* **`keyboard_pause`.** The sequence of Pause holds `F0`, which the decoder takes
  as the prefix of a release before the match sees it.
* **`disk_flush`.** CACHE FLUSH is sent while the device is still busy with the
  last sector, so it is ignored; line 189 then waits for that sector, not for a
  flush.

### What the passing properties say, beyond their names

`OnlyResetRaces` is a conditional: the shell's loop *is* exposed to its interrupt,
and the property says that the window between the copy of the pointer and the
end of the reset is the only one. Typing a letter anywhere else, through any
number of growths, is safe. `EnterIsServed` has a proviso as well: an Enter that
arrives between the check and `hlt` sleeps until the next interrupt, since
nothing re-checks the flag with interrupts off.

`LaterRunsBeginInUse` states as a property what `frames_twice` shows an instance of:
the pages handed out are always the first ones of the region, and each run after the
first begins with the last of them, or with page 0. `PlainKeyResynchronises` is
about all flags of the decoder, as far as they can be seen: after Print Screen, Pause
and fake shifts, one plain key that is neither Left Shift nor the keypad's asterisk
makes the decoder report the next one as typed, unless that is one of the two. It
may still be reported as Print Screen, since the two flags of `keyboard.c:118-129`
outlive other keys (up arrow between fake shifts, `a`, asterisk).
`HalvesAreUsedOnce` bounds the damage: a flag is good for one report, and there are
no more of them than bytes `E0` in front of a half. It cannot say that there are no
more reports than presses of Print Screen: press it, then the keypad's asterisk and
Left Shift, and a release of it is reported that nobody made.

`WriteLosesOnlyTheLast` says exactly how much a 0 of `disk_write` is worth: the
status after the last sector is never looked at. `EveryCallReturns` lists the
ways a poll goes on for ever: a fault that only DF reports (the driver defines
that bit and never tests it), and a count of sectors that the device reads as
another one. The properties of `Disk` about data hold as long as the call is
`Servable`; a call for no sectors ends that, since the next call ends up in
the command it left behind.

`StoredOnlyByItsWrite` says which sector changes, when, and to what.

`InitMeansReady` has the proviso that no answer was late. One that is late may
leave the keyboard in the wrong scan code set although `keyboard_init` returns
0. `KeyboardStaysAlive` and `BootEnds` hold nevertheless: the flush and the
order *configure, install, enable* see to it that no byte waits without
its interrupt. `BootEnds` counts a disk that is polled for ever as an end: it is about
the keyboard's loops and the interrupts. `DamageIsNoticed` is about the checksum:
a header whose checksum was computed otherwise, or over damage to its own field, is
told from an intact one. `StaysOnScreen` and `ShowsTheText` are about screens whose sides
are multiples of a cell. On others, such as 1080 rows with cells of 16, the line
and page breaks of `screen_putch` come one cell late and the last row is drawn
in part below the frame buffer; the kernel does not look at that. `StaysOnScreen`
holds however the interrupt's printing is interleaved with the loop's:
what is shown may be garbled, but it is on the screen. That rests on the `-O2` build,
which loads the cursor once per character: with a second load of `cursor_y` at
`screen.c:196` the row could be raised twice, and `RowBelowCurrent`, the mutant of this
property, is that second load. `DriverWasAskedFor` allows
for lines 7 and 15, with which the controllers answer a request that is gone;
`NothingLeftInService` says that the end of interrupt sent for those releases
nobody else, since nothing nests.

## 4. Bounds

* `heap_page`: a page of eight smallest useful blocks (six levels, 16-byte
  headers against 8-byte units as in the kernel), requests of every level that
  fits and one that does not. All orders of calls are reached: the state space
  is finite without a bound on the number of calls.
* `heap_growth`, `heap_foreign`: a page of one smallest useful block, two further
  levels, four addresses for runs, adjacent or not, aligned or not, overlapping or
  not. Requests hit each level and one too many.
* `frames`: 4-bit buckets and 2-bit ints, the kernel's ratio of 64 to 32; up to
  three buckets; two units per page. The memory maps are of two kinds: short
  ones with entries that begin and end on and off a page and kernel bounds
  before, inside, across and after them, and long ones whose region ends in a
  bucket of every size. Runs of one to three pages. `GrantBound` caps how often a
  page was handed out at 2. `frames_twice` and `frames_phantom` have fewer maps.
* `keyboard_keys`: four key strokes, one more than any memory the decoder has, in a
  ring of two slots, whose indexes wrap around twice.
* `shell_keys`: six keys, so the buffer grows to 1, 3 and 7 bytes; three
  addresses, one more than are live at once.
* `disk_*`: three sectors under addresses of four, so that an address may be
  good, beyond the device or cut; commands of at most two sectors, calls for 0 to
  3, so that a command has a first and a last sector and both wrong counts occur.
  The number of calls is not bounded.
* `kernel_boot`: two tries per command instead of three, one request to repeat a
  byte (a late one is read twice, so the tries do run out), one key, one rise of
  line 8. `NmiStage` and `LineStages` are bounds too: the exception comes while
  the kernel waits in `hlt`, line 8 rises or falls until `keyboard_init` is over,
  both controllers' initialisation included; afterwards only the keyboard
  interrupts. `KeyboardIsInitialised` forgets what is left of the bounds. The
  screen has three rows of four cells, two pixels by two, and a pitch with a
  margin; a message of `kmain` is one character. Line breaks by width and by
  newline, and scrolls with three rows that overlap, all occur. Two headers are
  on the disk, each intact or with one of nine damages: single bits of the
  checksum and of the fields, the first and the last bit of the header, whole
  fields, and bits of two fields.

## 5. Fairness

`Heap` assumes weak fairness of the steps of a running call: the processor goes
on executing it. Nothing is assumed of the callers. `Shell` assumes weak fairness
of the loop, for the same reason. It assumes nothing of interrupts: whether a
timer ticks is up to the firmware, so `EnterIsServed` names the interrupts it
needs in its premise. `Disk` assumes that the driver goes on polling and that the
device does not work on one command for ever: it delivers, aborts or faults.
`Kernel` assumes weak fairness of the kernel's code, of interrupt handling, and
of the keyboard (it takes a byte, answers, sends what it has). No key has to be
pressed and no line has to rise. Without a keyboard that takes its bytes
`ps2_controller_configure` waits for ever (`keyboard.c:581`); the code has no
timeout, so `BootEnds` is worth that assumption.

## 6. What is proved

Every theorem but one about an operator (`ChecksumIsTheRemainder`) is of the form
`Spec => ...`. Each holds for every value of the constants that the named
assumptions allow; TLC evaluates those assumptions on every run. Each proof has an
inductive invariant, one lemma per action that preserves it, and lemmas about the
operators; temporal reasoning is only in the last step.

### Heap (`HeapProofs`)

`HeapProofs` proves about `Heap`, for every number of levels, every size of a
block that the named assumptions allow, every header size, every set of
requests and of page runs:

| Theorem | Statement |
|---|---|
| `TypeCorrect` | `Spec => []TypeOK` |
| `LiveRangesAreDisjoint` | `Spec => []LiveRangesDisjoint` |
| `NoByteIsLost` | `Spec => []NoByteLost` |
| `HeapImplementsAllocator` | `Spec => ImplementsAllocator` (the specification of `Allocator` under the mapping of `HeapAllocator`) |

The assumptions are those of `Heap.tla`: `LevelAssumption` (the page level is a
level), `SizeAssumption` (each level doubles the one below; MetaSize is a natural
number) and `EnvironmentAssumption` (requests are positive; runs of pages begin
at a multiple of a page). TLC evaluates them on every run of `MCHeap`.

**The invariant.** Neither property is inductive. `LiveRangesDisjoint` speaks of
the bytes callers were promised, but what keeps them apart is that *blocks* are
apart, free ones included, and that a block is large enough for its promise.
`IInv` therefore says, besides types:

* `BlocksApart`, `BlocksInHeap`, `HeapCovered`: the blocks, by their headers,
  partition the memory obtained so far;
* `ListsOk`: a list of level l holds free blocks of level l, each once;
  `OwnedOk`: a block a caller holds is not free and holds its bytes;
* `BlocksAccounted`: a block that is free is on its list, except for the one
  `kfree` is working on; any other is held by a caller;
* `LevelsBounded`: no block, and no list that is not empty, is above
  `highest_level`;
* `MergingOk`, `SearchOk`: what the locals of a running call mean;
* `BootState`: before `kalloc_init` there is nothing.

The argument for a split is that the two halves of an interval are disjoint,
lie in it and cover it. The argument for a merge is that the buddy is on the list of
the same level (`BuddyIsListed`), hence a block, hence apart from the freed
one, so that the two neighbours `Buddy` names make up one interval twice as
long. A growth keeps `IInv` when the run has no
byte of the heap; when it has, `shared` is set and `IInv` is gone. What is
invariant is therefore `HeapInv`: types, what is left of a call that obtained such a
run (`SharedOk`), and `IInv` as long as none was. No fact about the page
allocator is assumed but that runs begin at a multiple of a page. With that of
this kernel, no growth succeeds without setting `shared`
(`EveryLaterRunBeginsInUse`, below). `IInv` is a conjunction of
named parts, and the proof has one lemma per action.

`HeapImplementsAllocator` needs no invariant of its own: with `IInv` known of the
state before a step, the address that `kmalloc` returns is that of a block that
was on a free list, hence of no caller's, and `BlocksApart` keeps its bytes from
every range that is held. Each action of `Heap` maps to one of `Allocator` or to
a stutter, in a lemma of its own.

### Buddies (`HeapProofs`)

| Theorem | Statement |
|---|---|
| `BuddiesAreListed` | `Spec => []MergesListedBuddyBeforeGrowth` |
| `PageIsCoalesced` | `Spec => []FullyCoalesced` |
| `NullMeansNothingFits` | `Spec => NullMeansNoFit` (an action property) |

From the same three assumptions. `BuddyInv`, on top of `IInv`, adds that there
is one region until a growth is tried (`OnePageOnly`), that every block begins at
a multiple of its size (`Aligned`), that a search stands at a list with a block
or has found all above it empty (`ScanOk`), and that no two listed blocks below
the page are buddies (`Coalesced`). The last one is false for a moment: a
split lists both halves before it uses one, so `Coalesced` exempts the two that
the search has just made (`Splitting`). Alignment is what makes the `xor` of
`kfree` name the other half of the block that was split.

### Levels (`HeapProofs`, on the lemmas of `LoopProofs`)

| Theorem | Statement |
|---|---|
| `LevelIsTheLogarithm` | `Spec => []LevelIsRoundedLogarithm` |

For any widths of a word and of an unsigned int that is no wider, any shifts that
begin with 1, double, and reach over an unsigned int (`WidthsAssumption`), and
any levels whose blocks are powers of two, the smallest no larger than a header
(`LevelsAssumption`; in the kernel 8 and 16 bytes). After the shifts by 1 to k,
the 2k bits from the highest down are all 1 (`SmearedIsFull`), a word of such bits
is one less than a power of two (`NumberOfFull`), and the only level whose block
holds the request where that below does not is the exponent (`LevelOfSize`).
The invariant it needs is that a request under way has bytes beside those of its
header (`WithHeader`): for 0 the decrement would wrap around, and below the
smallest block the exponent would name a level that does not exist. Powers of
two are a loop, as the other arithmetic is; what a loop computes for any
number of rounds is in `LoopSteps`, an induction as a set of numbers that has 0
and all successors (`NatSet`, from the library's least-element theorem).

### Page frames (`PageFramesProofs`)

| Theorem | Statement |
|---|---|
| `TypeCorrect` | `Spec => []TypeOK` |
| `RegionIsRight` | `Spec => []RegionIsUsable` |
| `RegionIsLargest` | `Spec => []LargestRegionChosen` |
| `PagesStartFree` | `Spec => []PresentPagesStartFree` |
| `ShortRegionsAreKept` | `Spec => []GrantsInsideShortRegion` |
| `NullMeansNoRunIsLeft` | `Spec => []NullMeansNoRun` |
| `EveryLaterRunBeginsInUse` | `Spec => LaterRunsBeginInUse` (an action property) |

For every width of a bucket and of an int that is no wider, every number of
buckets, page size, memory map, position of the kernel and request: that is
`SizesAssumption` and `MemoryAssumption`. `RegionIsRight` and `RegionIsLargest`
follow from what `best` is after the entries looked at so far (`ChoiceOk`), and
from lemmas about `ALIGN_UP`, `ALIGN_DOWN` and the cut (`CandidateFacts`,
`CandidateIsLongest`). `PagesStartFree` is arithmetic: the bit that a shift by 32
or more loses belongs to a page whose bucket also has the page of bit 31, whose
sign extension has set it (`BitmapFacts`). The scan marks another run than it
has counted, so its invariant `ScanOk` says three things apart: how far
the candidate is behind the scan, that every free page right behind the scan is
counted, and that no run of the length asked for ends before it.
`EveryLaterRunBeginsInUse` needs that the pages handed out are the first ones and
the free pages follow them (`InOrder`), and that the candidate is page 0 or a page that
is not free (`CandidateOk`). The invariants were checked with TLC on the instance of
`frames` first.

### Keyboard (`KeyboardProofs`)

| Theorem | Statement |
|---|---|
| `TypeCorrect` | `Spec => []TypeOK` |
| `RingImplementsEventQueue` | `Spec => ImplementsEventQueue` (the specification of `EventQueue` under the mapping of `KeyboardQueue`) |
| `PlainKeysAreDecoded` | `Spec => []DecodedAsTyped` |
| `DecoderResynchronises` | `Spec => []PlainKeyResynchronises` |

For every size of the ring, every set of keys and every bound, from
`KeyboardAssumption` (types) and, for the last two, `ScancodesAssumption`. The
work for the ring is modular arithmetic: the slot at distance i behind the index
is the same before and after a push unless it is the one written, and the one
written is the oldest exactly when the ring is full. For the decoder,
`DecoderInv` says where the match of Pause is, from which bytes are still to
come (`PauseOk`); that a plain key that is no half leaves the flags of the prefixes
down behind it (`ResyncOk`); that the plain key after it is read with the prefixes
it has, or was reported as it should (`SecondOk`); and, while only plain keys were
used, that the flags are those of the prefixes read (`DecodedOk`). The tables themselves stay
folded: the theorem holds for any tables, as long as the keys' codes are those.

### Shell (`ShellProofs`)

| Theorem | Statement |
|---|---|
| `OnlyResetsRace` | `Spec => []OnlyResetRaces` |
| `NoBufferIsLost` | `Spec => []NoBufferLeaks` |
| `LineIsShown` | `Spec => []LineIsWhatIsShown` |
| `PromptsAreOwed` | `Spec => []NoPromptWithoutEnter` |

For any letters, addresses and number of presses (`ShellAssumption`). While no
letter was typed during a reset, `BufferOk` says what the globals, the heap and
the screen have to do with each other outside of a reset (`BufferIntact`,
`LineIntact`), and step by step what the reset has undone (`ResetOk`), since the
interrupt may free or grow the buffer on either side. `PromptsOk` counts: prompts
printed, the Enter that waits and the one being served are never more than the
Enters typed and the first prompt.

### Disk (`DiskProofs`)

| Theorem | Statement |
|---|---|
| `TypeCorrect` | `Spec => []TypeOK` |
| `ReadIsRight` | `Spec => []ReadGivesTheSectors` |
| `WriteIsRight` | `Spec => []WriteLosesOnlyTheLast` |
| `StoresBelongToWrites` | `Spec => StoredOnlyByItsWrite` (an action property) |

For every capacity, limit of a command, address and data (`DiskAssumption`), and
under the two assumptions about the device that the model makes. `InStep` ties
the device's command, address, sectors left and the sector it was given to the
driver's `s`, `call` and `buff`;
`TransferOk` says which sectors are equal when s of them are through. Both hold
until a call is `misused`.

### Interrupts and keyboard (`KernelProofs`), screen and partition table (`KernelDataProofs`)

| Theorem | Statement |
|---|---|
| `DriversWereAskedFor` | `Spec => []DriverWasAskedFor` |
| `NothingIsLeftInService` | `Spec => []NothingLeftInService` |
| `CursorStays` | `Spec => []StaysOnScreen` |
| `TextIsShown` | `Spec => []ShowsTheText` |
| `ChecksumIsTheRemainder` | `calculate_ccitt32_ansi_crc32` is `ReferenceCrc`, for every buffer and length |
| `DamageIsAlwaysNoticed` | `Spec => []DamageIsNoticed` |
| `KeyboardIsNeverSilenced` | `Spec => []KeyboardStaysAlive` |
| `InitMakesReady` | `Spec => []InitMeansReady` |

About the composition `Kernel`, for any lines besides 1 and 2
(`LinesAssumption`), any number of tries, repeats and keys (`CountsAssumption`);
for the screen, any size of it, any font (`FrameAssumption`) and any messages
(`MessageAssumption`: made of characters the font has, and newlines); for the
partition table, any headers with the checksum of the standard
(`HeadersAssumption`) and any damage to the checksum's field or to four neighbouring
bytes of the rest (`DamageAssumption`).

* `IntrInv`: before the controllers are programmed nothing is taken, and after k
  writes of `pic_init` they wait for the words they should (`BootOk`); what is in
  service follows where the processor is (`ServiceOk`); what is latched or in
  service was asked for (`AskedOk`). `NothingLeftInService` alone is not
  inductive: while the cascade is acknowledged, line 2 is in service.
* `KbdInv`, on top of it: `Conversation` says that, as long as no answer was
  missed, at most one command or one answer is under way, and what that answer
  will mean. A late answer ends that, and `KeyboardStaysAlive` has to hold
  without it: it is kept by the bytes' interrupts alone.
* `ScreenInv`: on whole cells, the cursor and what the kernel's `screen_putch`
  has read of it are cells, and a step to the next row is only taken above the
  last one. Since the row that is written back derives from the one that was
  read, an interrupt in between garbles but never leaves the screen. What a
  print of the interrupt does, all characters at once, is a recursive function;
  `PrintedIsDefined` and `PrintedKeeps` treat it by induction with `NatSet`.
* `TextInv`, on top of `IntrInv`, `ScreenInv` and `PlaceInv`: between characters, frame
  buffer and cursor are `ScreenOf(text)`; in the middle of one there is an older
  text that the character makes this one of, and `Between` says for each step
  which part of `ScreenOf(old)` is already overwritten. Two kinds of lemmas carry
  it. The pixels of a cell lie in its rows and columns and nobody else's
  (`GlyphRows`, `CellPixels`), so that drawing adds one cell (`ShownDrawn`). And
  `memmove` to a lower address copies forward, so no address is read after it
  was written (`MovedDown`); the glyphs moved and the last row cleared are those of
  the text without its first line (`ShownScrolled`). `PlaceInv` is there because a
  message of `kmain` is printed at once, which is right only while no character
  of the prompt is half drawn.
* `ChecksumIsTheRemainder` has no state. `Agrees` relates the register of the code,
  whose lowest bit is the highest term, to the remainder of the long division
  above exponent e, and to the terms not yet brought down, which the code xors in
  a byte at a time: `BitAgrees` is one round of the inner loop, `ByteAgrees` eight
  of them and a byte, and an induction over the bytes gives the rest.
* `DamageIsAlwaysNoticed` takes from it that an undamaged header passes. For the
  others, a round of the checksum can be undone (`RoundBack`, `ByteBack`), so equal
  checksums were equal right behind the last byte that differs, and right before the
  first one they were equal anyhow. Each of the four bytes in between moves the
  difference down by eight bits of the 32, too few for the later ones to cancel what
  an earlier one left (`BurstIsNoticed`). A turned bit of the field itself meets a sum
  that does not depend on it (`ChecksumField`).

### Only model-checked

* `EveryCallReturns` (heap and disk), `EnterIsServed`, `RequestsAreServed`,
  `BootEnds`: liveness under fairness, like `ENABLED`, is out of the prover's
  reach.
* `HalvesAreUsedOnce`: counting events in a history takes an induction over
  sequences.
* That a reference is the right one: TLC compares `ReferenceCrc` with the check
  value that is published for this checksum (`CheckValue` in `MCKernel`).

## 7. What is not modelled

* **Page tables** (`paging_map_page`). What it does depends on whether the boot
  loader's direct map uses small or large pages, which the repository does not
  say, and is seen by the processor's address translation only. Reading it shows
  hazards that `PROJECT.json` lists: the pool of tables has no check, an entry
  that maps a large page is taken for a table, and an address is shifted as if it
  were a page number.
* **`paging_free_pages`, `screen_clear`, `screen_set_color`, `memcmp`, `strlen`**:
  nothing calls them where it would change state.
* **Sizes near `SIZE_MAX`** in `kmalloc`, and levels above 2^31 bytes, where
  `__builtin_clz` is undefined.
* **Port access, the Limine header, the linker script, the makefile, the fonts**:
  no behaviour of their own.

What the models leave out on purpose: the characters of a line beyond the key and
whether Shift is held; colours; what the stubs save and restore; memory contents
except headers, line buffers, sectors, the partition table's header and the frame
buffer.

## 8. Plan

**Done**: all modules of section 2, the refinements of `Allocator` and
`EventQueue`, and a theorem for every safety property, invariant or action, that
a passing run checks, but for `HalvesAreUsedOnce`.

Next: `Memory`, `Heap` on top of `PageFrames`. The model of the heap ends with the
first run of pages that has bytes of it; the composition would go on from there and say
which lists, headers and callers' bytes such a growth leaves right.
