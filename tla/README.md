# A TLA+ model of Windozz

Windozz is a small operating system for 64-bit PCs: a boot manager, a kernel
with its own memory management, scheduler and multiprocessor start-up, and a
host tool that builds the echidnaFS volume the boot manager reads. This
directory holds TLA+ modules of the parts whose correctness depends on the
order of steps: several CPUs, threads that the timer preempts anywhere,
commands that are cut short, firmware of every shape. TLC checks them on
small instances; TLAPS proves all of their safety properties but one for
instances of every size: page allocator, heap, scheduler, interrupt lines, start
of processors, boot manager, debug output and the echidnaFS volume.

All source paths are relative to the repository; `kernel/...` below stands for
`src/kernel/src/...`.

## 1. Inventory of the system

| part | state it keeps | operations | talks to |
|---|---|---|---|
| spin lock (`kernel/asm/cpu.asm`) | bit 0 of a word | `acquire`, `release` | every part below |
| physical memory manager (`kernel/mm/pmm.c`) | bitmap, `used_pages`, `total_pages`, `highest_usable_address`, `pmm_mutex` | `pmm_init`, `pmm_alloc_page`, `pmm_free_page` | read by `vmm_alloc`; called by vmm and scheduler |
| virtual memory manager (`kernel/mm/vmm.c`) | page tables, `vmm_mutex`, MMIO regions | `vmm_map_page`, `vmm_find`, `vmm_alloc`, `vmm_free`, `vmm_create_mmio` | pmm, heap |
| kernel heap (`kernel/mm/mm.c`) | `heap_mutex`, a header in front of each block | `kmalloc`, `kcalloc`, `krealloc`, `kfree` | vmm; called by everybody, application processors included |
| scheduler (`kernel/sys/sched.c`) | process and thread tables, counts, `sched_mutex`, `cpus[0].pid/tid` | `create_process`, `create_thread`, `resched`, `find_idle`, `sched_init` | heap, pmm, timer |
| timer interrupt (`asm/isr.asm`, `firmware/timer.c`, `asm/context.asm`) | `timer_ticks` | `timer_irq`, `load_context`, `timer_sleep` | scheduler, SMP start |
| local and I/O APICs (`kernel/apic/`) | lists of CPUs, I/O APICs, overrides; redirection entries; IDT | `apic_init`, `ioapic_init`, `irq_configure`, `irq_unmask` | PIT, ACPI, IDT |
| SMP start (`apic/smpboot.c`, `asm/smpboot.a16`, `asm/startup.asm`) | `current_cpu`, `cpu_booted`, the low mapping, the trampoline page | `smp_boot`, `smp_boot_ap`, `smp_kmain` | timer, heap, page tables |
| debug output (`misc/debug.c`), numbers (`misc/string.c`) | `e9_mutex` | `debug_printf`, `ltoa`, `itoa`, `pad` | called by everybody, interrupt and exception handlers included |
| screen (`gfx/screen.c`) | cursor, colours, framebuffer, back buffer | `screen_init`, `screen_setup_buffer`, `putc`, `scroll`, `clear_screen` | draws what is printed |
| ACPI (`kernel/acpi/`) | the root table, FADT, DSDT | `acpi_init`, `acpi_find_table`, `acpi_install_irq` | APICs, lai (a submodule, not in the tree) |
| PIT, PCI | port registers | port I/O | timer, lai |
| echfs-utils (`src/echfs-utils`) | the image file | `format`, `mkdir`, `import`, `export`, `ls` | the boot manager reads its images |
| boot manager (`src/bootmgr`) | memory map, boot information, A20 gate, video mode | stage 1, hardware detection, `echfs_load`, VBE, jump to the kernel | the BIOS, `pmm_init`, the echfs image |

What is hard in it, and what makes each part correct:

* **Locks and preemption.** `acquire` is a `bt` followed by a `lock bts`; locks
  are taken with interrupts enabled, so an owner can be preempted while another
  thread spins. Correct: one owner at a time, no owner lost, every lock comes
  back on every path.
* **Page accounting.** The bitmap, `used_pages` and what callers hold are three
  records of one fact, updated in separate steps. Correct: no page twice, none
  lost, counter and bitmap agree, whatever memory map the firmware has.
* **Page tables and heap.** `kfree` does not take `heap_mutex`, `vmm_find` does
  not take `vmm_mutex`, a page goes back before it is unmapped. Correct: blocks
  keep their mapping, header and data; a page has one use.
* **The scheduler.** A tick may come between any two steps of `create_thread`
  and `create_process`, and every allocation in them may fail. Correct: a
  thread that may be picked is complete, registers are saved to and loaded from
  the right thread, ready threads run.
* **Start of processors.** They share one trampoline page and one word for the
  answer, and are timed with an interrupt that had to be routed first. Correct:
  never two in the trampoline, never without the low mapping, and the boot
  processor gets on or reports.
* **Hand-over.** Dozens of BIOS calls, each of which may fail or answer
  unexpectedly; structures are overwritten by the next call; the kernel checks
  nothing. Correct: the kernel starts in a state that it can work with, and that
  the documentation promises, or the machine stops with a message.
* **Firmware tables.** Two lists of tables that may differ, of any order, with
  parts missing. Correct: the tables of the right list are used, and what
  depends on a missing one does not pretend to work.
* **Messages.** A message is printed character by character under a spin lock
  with interrupts as they are: by preempted threads, by several CPUs, by
  handlers. Correct: messages come out whole, in order and right, and printing
  ends.
* **The volume.** A command is a series of writes; it may be killed between two
  of them. Two programs that share no code read the result. Correct: a stored
  file stays, whole and unchanged, and both readers agree.

`PROJECT.json` lists the hazards one by one, at their lines, with the property
that covers each, or the reason why none does yet.

## 2. Modules

```
PageAllocator  <-- refined by --  Pmm  <-- PmmProofs (theorems)
                                   ^ initial states
                     PmmInit  <-- EXTENDS --  BootMgr
                                                 ^ BootMgrProofs
Heap    <-- HeapProofs   (page allocator below it = PageAllocator's contract)
Sched   <-- SchedProofs  (allocations below it succeed or fail;
                          "dead" = PageAllocator's dead state)
Acpi  <-- EXTENDS --  Apic  <-- EXTENDS --  SmpBoot  <-- SmpBootProofs
Console  <-- ConsoleProofs  (threads switched as Sched does)
FileStore  <-- refined by --  Echfs  <-- EXTENDS --  EchfsLoader
                                ^ EchfsProofs          ^
                                      ^--- EchfsStoreProofs
```

`<module>Proofs` extends a module with theorems about it and their proofs; it
adds nothing to the model.

`MC<module>` gives constants their values for TLC. Definitions whose comment
starts with "Mutant:" are faulty variants of the definition behind them: they
record, for every property, a plausible bug that it catches. No specification
uses them.

### PageAllocator, Pmm, PmmProofs: physical memory

`Pmm` is `pmm_alloc_page` and `pmm_free_page` run by any number of CPUs at the
granularity of instructions that matter: `Test` (`bt`), `Set` (`lock bts`, whose
carry decides), `Scan` (one turn of `pmm_find_page`), `Mark` and `Count` (bitmap
and counter, in two steps), `Clear`, `Uncount`, `Release`. The bitmap is the set
of pages whose bit is 1. `held` is a ghost: what each caller was given. Callers
free pages that are out, each once, on any CPU.

`pmm_alloc_page` returns NULL without releasing the lock; the model does the
same, and `PageAllocator`, the contract, says so: the first failed request is
the last one served (`dead`). `Pmm` maps `dead` to `Abandoned`: the lock is taken
and nobody is in a critical section.

### PmmInit, BootMgr: from the master boot record to the page allocator

`BootMgr` follows the boot manager through its stages, one action for each
question it asks of the firmware: `Mbr`, `Stage1` (which block sizes it takes, and
when it overwrites itself), `Detect` (drive, processor, geometry), `DetectMemory`
(one call of int 0x15, with both ways in which the list may end), `A20` (two
methods, four checks, a gate that opens late), `LoadKernel`, `ScanAcpi`,
`SetupPaging`, `Vbe` (with the arithmetic of `do_edid`) and `TryMode`, one turn of
the loop of `vbe_set_mode`, which overwrites the mode information each time.
"error" is a message and a halt; "crashed" is a processor that has left the
program.

`PmmInit` is the kernel's half: `e820_add_entry` is one action per entry of the
stored map (`AddEntry`, `SkipEntry`), followed by the reservation of the low
memory. The memory behind the bitmap holds arbitrary bits. `BootMgr` composes the
two, so the properties compare what `pmm_init` leaves with the map that the
firmware reported, not with the one that was stored. `HandoverKept` is what the
code keeps of the hand-over. `docs/bootmgr.md` asks for more in three places,
which the code does not do (EDD, the size of a last entry, SMBIOS; see Findings
and the comment of `HandoverKept`). `BootsIntoPmm` is what `Pmm` assumes
(`PmmAssumption`).

### Heap: virtual memory and the heap

`kmalloc`, `krealloc` and `kfree` of several contexts, every step that another
context can see being one action: the locks, the check against the estimate
(`Check`), each turn of `vmm_find` (`Find`), each page and each missing page table
(`Frame`, `MapTable`, `MapPage`), and in `vmm_free` the return of a page (`Put`)
before its entry is cleared (`Unmap`). Memory has contents: headers, zeros and
data are stored through the page tables, so a block can really be damaged.
`live` is a ghost: the blocks callers have and what they put in them. Other
users of the page allocator (`RawAlloc`, `RawFree`) stand for the CR3 pages of
`create_process`. A write to an unmapped page would be a page fault; `Copy` is not
enabled then.

### Sched: scheduler and timer

Only the boot processor schedules, so there is one running context, `reg`: a
stack, a program point and two local variables. `create_thread`,
`create_process` and `sched_init` are sequences of actions, one for each store or
allocation; the timer interrupt (`TickOnly`, `TickAlone`, `TickSwitch`) is one
action, since it runs with interrupts disabled, and may come between any two of
the others. `Turn` gives the order in which `find_idle` visits threads, with its
peculiarity that the first pass starts at the same thread number in every
process. Freed and null pointers are values; following one, or loading a
context without a stack, sets `fault`, because `handle_exception` stops the CPU.
`FaultsExplained` allows a fault after two failures only, those the code does
not clean up after: a thread without a stack (finding 3) and a `sched_init`
without its first process.

### Acpi, Apic, SmpBoot: firmware tables, interrupt lines, processors

`Acpi` is `acpi_init`: the choice of the root table, and one action for each table
that `show_tables` looks at; `acpi_find_table` is an operator. The list not used
(the RSDT beside an XSDT) has other, older tables, so that reading the wrong one
matters.

`Apic` goes from the MADT (phase "no_madt" is the message that there is none, and
"hung" every other stop) to redirection entries and IDT: one action for each
entry (`ParseEntry`), for each I/O APIC (`IoapicInit`) and for the stages of
`irq_configure` and `irq_unmask`, for the timer and for the SCI. `PinOf` is the
register index the code really uses, the number of the global line; `Wire` is
the pin that the hardware uses.

`SmpBoot` continues with `smp_boot`: two interprocessor messages for each
processor, `timer_sleep`, two wait loops with a limit, and on the other side the
trampoline, the stack, `gdt_init` (which may fail and stop the processor),
`load_idt` and `lapic_configure` (which clear and rewrite the IDT entry of
spurious interrupts), and the answer. `timer_sleep` ends only if the timer line
that `Apic` programmed reaches its handler.

### Console: messages and the screen

Everything that prints, on every CPU: `kmain`, then the threads that the timer
switches, on top of them handlers of spurious interrupts, on top of those
exceptions, which print several messages and never return. `debug_vprintf` is a
step for the lock, for each piece of a message and for the release; seconds and
milliseconds of the time stamp are two reads of the clock. `kmain` prints until
`SchedInit`: before it the timer ticks but switches nothing. `putc` and what it
calls (`DrawChar`, `Newline`, `scroll`, `redraw`, `clear_screen`) are functions of
the screen: a cursor, two colours, and a matrix of character cells for each of
the two buffers. `ltoa`, `itoa`, `pad` and `lowercase` convert numbers of a
bounded width; `Power` is used for `^`, of which the prover knows too little. The
properties compare with definitions of their own: `Rendered`
lays the whole log out as pages of text, `ValueOf` reads numbers back.

### FileStore, Echfs, EchfsLoader: the volume

`Echfs` is the image and the commands of the tool that change it. `import` is a
sequence of actions in the order of the writes: missing directories, then for
each block the link and the end of the chain with the data, at last the entry;
`Killed` may end it anywhere. `path_resolver`, `search` and `get_free_id` are
operators; a leading slash makes the automatic directories start with an empty
name, as in the code. `FileStore` is the abstract promise. `EchfsLoader` is the
other reader, `echfs_load` of the boot manager, as a function of the image; it
shares no operator with the tool's reader and computes the layout for itself, in
the registers it has: `Held` is what is left in the disk buffer of a block that is
read into it in several chunks, `SegmentWords` and `SegmentEntries` are what a
16-bit offset reaches, `echfs_entries_per_block` is a byte, and `AllocationWords`
is a product of 64 bits whose halves are joined by a shift of 28. `ChunkWords`,
`ChunkEntries` and `TableSpan` stand for 1024, 32 and 2^29, from which the other
limits follow.

## 3. Runs

Deadlock checking is on where the system should always be able to go on
(`sched_stack` and the two echfs runs). It is off where the system may stop: when
the page allocator has died, or a handler spins on top of the lock's owner, all
callers spin (`pmm`, `sched`, `console`); the calls of `heap` are bounded; `boot` and `smp_boot` end. In these runs liveness properties take its place: `LockReturned`,
`CallsReturn`, `EveryThreadRuns`, `LockComesBack`, `PrintReturns`, `CapableBoots`,
`BootEnds`.

| run | instance | what it shows |
|---|---|---|
| `pmm` | 3 CPUs, 3 pages to hand out | mutual exclusion, no page twice, exact bitmap and counter, refinement of `PageAllocator`, every critical section ends |
| `boot` | all sorted maps of up to 3 areas, 6 pages; machines that lack one thing; all lists of 3 out of 7 video modes | `HandoverKept` when the kernel starts; a capable machine boots, another one stops; exactly the RAM above the low memory is handed out; the estimate is sound |
| `heap` | 2 contexts, 6 pages, 4 calls | blocks intact, one use per page, no leak, every call returns while memory lasts |
| `heap_oom` | the same | *violation*: `CleanupReturns` |
| `heap_shrink` | 1 context, 8 pages, 5 calls | *violation*: `HeadersKept` |
| `sched` | 2 processes, 3 threads, every allocation may fail | only the two failures above fault, the right thread is current and resumed where it was, `sched_mutex` has one owner and comes back, the tables are exact, ready threads run |
| `sched_stack` | the same, only thread stacks fail | *violation*: `NoFault` |
| `echfs` | 9 blocks, 4 for data, 4 entries | sound, disjoint chains; no orphans; a tree; refinement of `FileStore`; the loader agrees with the tool |
| `echfs_export` | the same, files in the root | *violation*: `ExportFaithful` |
| `smp_boot` | 37 sets of ACPI tables, up to 4 CPUs | the right tables are used, lines routed, trampoline safe, exactly the usable processors run, `smp_boot` ends |
| `ioapic_second` | 2 machines with 2 I/O APICs | *violation*: `LinesRouted` |
| `console` | 6 x 6 cells, 2 threads, 2 CPUs, 4 messages | the monitor shows the log, stamps and numbers read back, printing returns |

### Bounds, and why they are enough

* `pmm`: with three CPUs one can own the lock, one can have seen it free and one
  can come later; three pages are fewer than the CPUs can ask for, so exhaustion
  happens; a hole, a reserved page and the never-scanned last page exist. The
  theorems remove these bounds.
* `boot`: pages of two bytes and bytes of two bits keep every rounding
  (entry to page, page to byte) with a remainder; three areas are what it takes
  for a reserved area to touch usable ones on both sides, in every alignment.
  The map matters to `pmm_init` and the rest of the machine to the boot manager,
  so maps vary on a plain machine and machines with one map. Three modes let the
  wanted one come first, last, twice, not at all, or behind one that fails.
* `heap`: two contexts are enough for `kfree` against `kmalloc`; three levels of
  tables over eight pages make neighbouring blocks need new tables; requests
  take one page or two (the header makes the difference); six pages run out.
  `MaxCalls` bounds the calls of all contexts together, `VMax` the heap.
* `sched`: three threads let one spin, one own the lock and one be created, fill
  the table, and exercise both wrap-arounds of `find_idle`; `TickPeriod` 3 keeps
  the tick that does not reschedule. No counter is cut off: the tables are finite.
* `smp_boot`: three processors to start, a disabled one among them; `Timeout` 3
  leaves room for on time, at the limit and too late.
* `console`: a line of six characters makes every message wrap; the third one
  makes the screen scroll; the clock starts a tick before a full second and passes
  it, so the two reads of a stamp can lie on both sides; an `int` of 4 and a `long`
  of 7 bits reach their ends. Of the four messages one comes before `clear_screen`,
  which leaves three: two contexts wait while a third prints, or an exception,
  which prints twice, meets another printer that has the lock, on another CPU or
  under the exception itself. The latter is the second half of `Wedged`.
  `MaxMessages` and `MaxTicks` bound the run; the timer goes on switching threads
  after that.
* `echfs`: two blocks of table, two blocks of directory, so that the loader's
  division and remainder both matter; chunks are as large as blocks (`Loadable`);
  files of one and two blocks; a file and a directory of the same name; a
  directory that fills up.

### Fairness

* `pmm`, `heap`: weak fairness of each context's steps inside a call. A CPU
  executes; a preempted thread gets the CPU back. Nothing makes a context call,
  and no lock is assumed to be fair: no property says that a particular waiter
  gets it. (`CallsReturn` holds under weak fairness because the number of calls is
  bounded, so others stop competing.)
* `sched`: weak fairness of the timer, strong fairness of each thread of process
  0 and of the boot context. A time slice is a millisecond, thousands of
  instructions: a thread that gets the CPU again and again takes its next step,
  if it can, in one of its slices. New calls are not fair.
* `smp_boot`: weak fairness of the boot processor only. The others may be slow
  or dead.
* `boot`: weak fairness of the next step. One processor executes, and the BIOS
  answers each call.
* `console`: weak fairness of the timer, strong fairness of each context's
  printing steps, for the reason given for `sched` (whose `EveryThreadRuns` is what
  justifies it). Interrupts, exceptions and new messages are not fair.

### Findings

Five runs show a disagreement of the code with what it says of itself.

1. `pmm_alloc_page` (`kernel/mm/pmm.c:213`) returns NULL with `pmm_mutex` taken.
   The clean-up of `create_process` after a failed allocation then never returns
   (`heap_oom`).
2. `krealloc` (`kernel/mm/mm.c:66`) copies as many bytes as the old block has,
   also into a smaller one, and overwrites the next block's header (`heap_shrink`).
3. `create_thread` (`kernel/sys/sched.c:241`) frees the thread when there is no
   stack, and leaves the pointer in the table; the next tick or call follows it
   (`sched_stack`).
4. `export_chain` (`echfs-utils.c:204`) writes `size % bytesperblock` bytes of the
   last block, which is none if the file fills it (`echfs_export`).
5. `irq_configure` and `irq_unmask` (`kernel/apic/ioapic.c:97`) take the global
   line number as the pin number, which is right only for an I/O APIC that starts
   at line 0 (`ioapic_second`).

The passing runs of the same modules leave out or excuse the situation that a
finding or a disagreement of the list below is about, and only that: `FaultsExplained` allows the fault of finding 3
once a stack has failed, `AllowShrink` is FALSE in `heap`, the devices of `smp_boot`
are on the first I/O APIC, `LoaderAgrees` is about `Loadable` volumes; `HandoverKept`
excepts the size of a last entry and does not mention EDD and SMBIOS, and
`Capable` leaves out machines without EDD; `CallsReturn` and `NoLeak` excuse a dead
page allocator.

Other disagreements met while reading, which no run is about; where a property
has to except one, its comment says so:

* The boot manager goes on when EDD fails (`bootmgr/stage2/bootmgr.asm:83`);
  `docs/bootmgr.md:29` says that it displays a message and aborts. `HandoverKept`
  says nothing of EDD, and a machine without it is not `Capable`.
* `detect_memory` (`bootmgr/stage2/system.asm:26`) does not store the size of a last
  entry that comes with ebx = 0, although `docs/bootmgr.md:21` says so of each entry
  (`StoredAt` in `HandoverKept`). So its "ignore me" attribute is not seen
  (`Misread` in `FreePagesAreRam`).
* The SMBIOS field (`bootmgr/stage2/bootmgr.asm:315`) is never written and keeps its
  initial value, where `docs/bootmgr.md:25` asks for zero without SMBIOS
  (`HandoverKept`).
* `echfs_load` and `echfs_next_block` (`bootmgr/stage2/echfs.asm:262`, `:161`) read
  blocks into the very buffer through which `hdd_read_sector` reads 16 sectors at a
  time: of a block of more than 8 KiB the last chunks remain, at the wrong place
  (`Held`; `Loadable`, `Capable`). Stage 1 accepts blocks of 16 KiB.
* `shr ecx, 28` (`bootmgr/stage2/echfs.asm:239`) should be 29: on volumes of 2^28
  blocks and more the directory is looked for in the wrong place
  (`AllocationWords`; `Loadable`).
* `do_vbe` (`bootmgr/stage2/vbe.asm`) has no `ret` after it has set the default
  mode: the processor runs into the text of a message (`HandoverKept`).
* `do_edid` mixes the high bits of the blanking interval into the size of the
  screen (`Capable`).
* Block sizes whose low 16 bits lie between 16384 and 32768 (17408, but also
  90112), which are no powers of two, let stage 2 overwrite the boot sector that
  is loading it (`HandoverKept`). That the high bits do not matter came out of
  the proof.
* A handler that prints on top of the owner of `e9_mutex` never returns
  (`PrintReturns`, `Wedged`).
* `%d` prints a negative `int` as an unsigned one (`NumbersReadBack`: modulo the
  width), and `pad` makes a negative number one longer than asked for.
* `pmm_init` reserves 8 MB for the kernel and a bitmap of any size
  (`pmm.c:78`), and `vmm_create_mmio` does not check `MAX_MMIO` (`vmm.c:286`).
* `laihost_panic` passes a `va_list` to `debug_printf`.

### Assumptions of the models

* `Pmm`: what `pmm_init` establishes (`PmmAssumption`). Pages are freed once and
  only when out. Loads and stores of one CPU are seen in program order (x86, and
  the lock's `bts` is a full barrier).
* `BootMgr`: the BIOS is external, and keeps its contract: it answers, and does not
  write where it was not told to. `echfs_load` finds the kernel or not (what it
  reads is `EchfsLoader`). The map has an entry (`BootMgrAssumption`); it is sorted
  and without overlap, and usable areas above the low memory begin and end on page
  boundaries (`MapAssumption`). The code relies on the order by sizing the bitmap
  from the last entry.
* `Heap`: callers name blocks they have. `total_pages - used_pages` exceeds the
  stock of pages by `Slack`, at most one (`EstimateSound` of `BootMgr`). The heap
  ends at `VMax`: `vmm_find` is not enabled behind it (the address space is
  larger than any machine's memory). TLBs are not modelled.
* `Sched`: the compiler keeps the order of the stores in `create_thread`, with
  `THREAD_IDLE` last (the fields are not volatile; `kernel/Makefile` builds with -O2). Kernel threads do nothing but
  create threads and processes, which is all that touches this state. Threads
  never end: the code has no exit.
* `Acpi`: the list in use has at most one MADT and one FADT, and the FADT names a
  DSDT (`AcpiAssumption`). `MAP_MEMORY` adds a constant and never gives NULL, so
  the error returns behind it are dead code.
* `Console`: conversions have arguments of their types and are padded with blanks
  or zeros, and the clock fits in a `long` (`MessageAssumption`). An escape sequence is one character, since nothing interrupts it
  but what waits for the lock. `acquire` is atomic (`Pmm` has its instructions). A
  write to the framebuffer is seen at once.
* `Apic`: pins are masked after reset; the arrays have room (`MAX_*` is not
  checked by the code); the boot processor is the first in the table; no line has
  two overrides.
* `EchfsLoader`: blocks of less than 512 KiB (`LoaderAssumption`), and fewer than
  2^32 of them (a partition has at most 2^32 sectors). Memory below the disk
  buffer, where offsets come round to, holds neither a table nor an entry of the
  name. The BIOS reads what it is asked for.
* `SmpBoot`: a processor without memory for its stack runs on an address in the
  low half, which works until it halts; no interrupt is routed to it later.
* `Echfs`: a path has a name (`EchfsAssumption`); the layout leaves the data area
  inside the volume. A file is imported only if it fits (`Room`), because
  `import_chain` searches past the end of a full table; `format` is one action.
  `LoaderAgrees`
  excepts a file behind a directory of the same name in the root: the tool tells
  them apart by type, the loader stops at the first.

## 4. Proofs

Every theorem has the form `Spec => []P` or states a refinement (`Spec =>
RefinesAllocator`, `Spec => KeepsFiles`), without fairness, and holds for every
value of the constants that satisfies the named `ASSUME`s. Those of `HeapProofs`,
`LinesAreRouted` and `LoaderIsRight` have a hypothesis besides, which leaves out what
findings 2 and 5 and the flaws of the loader are about. Each proof module has
the same shape: an inductive invariant `IInv`, which TLC has checked on the run's
instance first; `Init => IInv`; a lemma for each action, with a step for each
conjunct the action can disturb; `Inductive`; and what follows from `IInv`. The
theorems besides `Inductive`:

| module | theorem | proves |
|---|---|---|
| `PmmProofs` | `TypeCorrect` | `TypeOK`: the scan stays inside the bitmap |
| | `LockSafe` | `MutualExclusion` |
| | `NeverTwice` | `NoDoubleAllocation` |
| | `BitmapTrue` | `BitmapExact` |
| | `UsedPagesTrue` | `Accounting` |
| | `LostLockMeansExhausted` | `AbandonedOnlyWhenExhausted` |
| | `Implements` | `RefinesAllocator` |
| `HeapProofs` | `TypeCorrect` | `TypeOK` |
| | `NoPageUsedTwice` | `NoAlias` |
| | `NoPageLost` | `NoLeak` |
| | `BlocksStayIntact` | `BlocksIntact` |
| `SchedProofs` | `TypeCorrect` | `TypeOK` |
| | `FaultsAreExplained` | `FaultsExplained` |
| | `OneThreadRuns` | `OneRunning` |
| | `LockIsOwned` | `LockOwned` |
| | `TablesAreExact` | `TablesExact` |
| `SmpBootProofs` | `TablesAreFound` | `TablesFound` |
| | `TrampolineIsSafe` | `TrampolineSafe` |
| | `AllAreRunning` | `AllRunning` |
| | `LinesAreRouted` | `LinesRouted` |
| `BootMgrProofs` | `HandoverIsKept` | `HandoverKept` |
| | `FreeIsRam` | `FreePagesAreRam` |
| | `RamIsManaged` | `AllRamManaged` |
| | `PmmMayStart` | `BootsIntoPmm` |
| `ConsoleProofs` | `TypeCorrect` | `TypeOK`: the cursor stays on the screen |
| | `MessagesAreWhole` | one printer at a time, nothing between its pieces |
| | `StampsAreSound` | `StampSound` |
| | `NumbersAreRead` | `NumbersReadBack` |
| `EchfsProofs` | `TypeCorrect` | `TypeOK` |
| | `FilesAreWhole` | `ChainsSound` |
| | `NoBlockIsLost` | `NoOrphans` |
| | `TreeIsSound` | `TreeSound` |
| `EchfsStoreProofs` | `Implements` | `KeepsFiles` |
| | `LoaderIsRight` | `LoaderAgrees` |

### PmmProofs: any number of CPUs, any memory, any bitmap

From `PmmAssumption`. None of the properties is inductive alone. `IInv` adds:

* `CallState(p)`: what the program point of a CPU says of its locals. While it
  scans, every managed page below the current one is out; at `mark` the page is
  free and managed; at `clear` it is out. Without the first a failed scan would
  say nothing about exhaustion; without the second the page could be somebody's.
* `FreesDistinct`: no two calls free the same page, so that at `clear` the page is
  still out.
* `Counted`: `used_pages` is the boot value plus the pages that are out, corrected
  for the one CPU that has changed the bitmap and not yet the counter.

The mutual exclusion part makes the scan's knowledge stable: nobody else changes
the bitmap while a CPU is at `scan` or `mark`. Lemmas cover the arithmetic of page
addresses (`PageOrder`, `ScanInBounds`: the scan ends before it leaves the bitmap)
and how `Held` changes (`HeldAdd`, `HeldRemove`). `Implements` needs one step per
action: `Mark` is `Allocate`, `Clear` is `Return`, the `Scan` that gives up is
`Fail`, everything else is a stutter.

### HeapProofs: any number of contexts, any tree of page tables, any sizes

From `HeapAssumption`, and under the hypothesis `~AllowShrink` of each theorem: with
a `krealloc` to a smaller size the properties are false (finding 2, run
`heap_shrink`). A request with `AllowShrink` TRUE is the only step that needs it.
The conjuncts of `IInv`:

* `Locked`: which program points hold which mutex, and that one context at most is
  at any of them.
* `Frames`: `NoAlias` and, for the two windows in which a page has no use that the
  tables show, where it is: a context about to map a page has it for itself, and a
  page about to be unmapped is already with the page allocator or with whoever
  took it since. This is where the early return of `vmm_free` is shown harmless:
  the stale entry is one of a virtual page that still belongs to the call.
* `Space`: virtual memory is divided among live blocks and calls, and what
  `vmm_find` has seen free stays free. `vmm_find` runs without `vmm_mutex`, but
  under `heap_mutex`, and `kfree` only unmaps.
* `Claims`: a block is worked on by one call, and is live.
* `Contents`: headers, zeros and data are in memory. Every store is to a page of
  the context's own block, which by `Space` and `Frames` is nobody else's.

### SchedProofs: tables of any size, any tick period, any failures

From `SchedAssumption`. A tick exchanges `reg` with the saved context of a thread,
so an invariant about "the CPU" does not survive it. `IInv` is stated about the
set of contexts, which a switch leaves as it is:

* `Running`: at boot (`AtBoot`) and after the first switch (`AtThread`: the CPU is on
  the stack of the one BUSY thread); `Slots`: a thread that waits can be loaded.
* `Tables`: a valid process is complete, and only process 0 has several threads.
* `OneOwner`: one context at most is between `acquire` and `release`, and
  `sched_mutex` says whether one is.
* `Owned`: with c the owner, `Consistent(c)` (counters lag behind by what c is about
  to count), `MakingThread(c)` and `MakingProcess(c)` (what c has done so far, by its
  program point). When the lock is free nothing is half made, which is
  `TablesExact`.

### SmpBootProofs: any two lists of tables, any MADT, any number of processors

From `AcpiAssumption`, `ApicAssumption` and `SmpAssumption`. `Firmware` (what
`show_tables` has loaded is from the list the firmware means), `Processors` (the
loop of `apic_init` has stored the usable processors behind the first, up to an
entry that ends the table) and `Startup`: only the target of `smp_boot_ap` may be
starting, and then `cpu_booted` is clear and the low half mapped; all before it
have answered. A processor that is given up leaves the boot processor hung, so
it stays the target, and the trampoline stays its own.

`LinesAreRouted` is under the hypothesis `SimpleWiring`: every I/O APIC has lines of
its own, with vectors below the spurious one; the line of a device is on an I/O
APIC that begins at line 0, or on none (without this it is false, finding 5);
no two overrides contradict each other, and each names a line that fits the byte
it is kept in; and the timer and the SCI have different lines. The tables of `smp_boot` satisfy it. Its invariant is `Routing`:

* `Chips`, `StoredRecs`: what the loop of `apic_init` has stored of the entries so
  far. All lookups later are among these.
* `PinTables`, `Quiet`: a pin is masked unless it is the line of a device whose
  `irq_unmask` has been, and from `ioapic_init` on has the vector of its line. That no
  other step writes a pin needs the I/O APICs to have lines of their own.
* `Routed(d)`: line, handler, flags and mask of a device, after each of its steps.
  The second device must not undo what the first has done, hence the last part of
  the hypothesis.

### BootMgrProofs: any firmware of the assumed shape

`HandoverIsKept` is from `BootMgrAssumption`. It is about what the code keeps,
not about all that `docs/bootmgr.md` asks for (Findings). The invariant
says, for the stages from each step on, what the step found (`Found`), that the
stored map has an entry for each that the firmware reported, the same but for
the size of a last one (`MapRead`), and that the mode that is set is the one
whose information is kept. `OverwritingSizes` is the arithmetic of the boot
sector.

The other three are about `pmm_init` and need `MapAssumption`. `PInv` says what holds
after each entry:

* `Bits`: a page's bit is clear only because of a usable entry seen so far
  (`Cleared`), and above the low memory the bits of such an entry stay clear
  (`Kept`): entries do not overlap, so no later area sets them (`UsedApart`,
  `WholeApart`).
* `Highest_usable`: `highest_usable_address` lies in the map and is not below the
  last byte of any usable entry seen.
* `Counters`: where there is RAM above the low memory (`RamAbove`),
  `total_pages - used_pages` is the number of clear bits, or one less if a reserved
  area at the end of the map has set the bit behind the pages (`Top`).

`BelowTop` (all bits of an entry are at most `Top`, those of a usable one below it)
and `OneOutOfReach` (at most one clear page is out of the allocator's reach) are
the arithmetic of the two roundings, of areas and of the size of the bitmap. With
`RamAbove` this gives the three theorems; `PmmMayStart` connects the boot with `PmmProofs`,
since `BootsIntoPmm` is `PmmAssumption` of the state that `pmm_init` leaves.

### ConsoleProofs: any threads, CPUs, messages, screen and widths

From `ConsoleAssumption` and `MessageAssumption`. The conjuncts of `IInv`:

* `OneOwner`: one context at most is between `acquire` and `release`, and `e9_mutex`
  says whether one is.
* `Stages`: what a context has printed of its message, by its program point. A
  message is recorded in the log piece by piece as it was printed, so `Logged`
  (each message is whole) follows at `Release`.
* `Ordered`: the owner has read the clock later than all messages of the log.
  Without it nothing would order the seconds of two messages whose printers read
  the clock in one order and got the lock in another; they read it under the lock.

For the numbers: `DigitsRead` (the digits of n read back as n), `DigitsShort` (a
number below 10^k has at most k digits), `PadUnsigned`, `PadSigned`, `LowercaseSame`
(padding and small letters change nothing), `ExpandShows` (every conversion). A
stamp is (t div 1000) seconds and (u mod 1000) thousandths with t <= u; `StampShows`
has the fraction read back with exactly `StampDigits` digits, so that it is at most
u. For the cursor: `PutcOnScreen` for one character, `PutsOnScreen` for a text.

### EchfsProofs: any layout, any paths, any sizes

From `EchfsAssumption`. The conjuncts of `IInv`:

* `Files`: chains are whole and disjoint. `Import_chain`: the chain under
  construction is in the data area, ends at `job.block`, and is apart from all
  files; `job.block` is linked to before it is marked, so it is still FREE at
  `write`. There are free blocks for the rest, which keeps the search for a free
  word inside the volume. `Owners`: every taken block has an owner.
* `Tree`: directories are numbered in the order of their entries as `get_free_id`
  counts (`Numbered`), from which the uniqueness of the numbers follows; entries
  are in directories that exist, and are distinct.
* `Import_path`: how far the loop that makes missing directories has come, and,
  behind it, that the file's directory is there and the file is not. Without it
  the entry that `import` writes at last could be a second one of that name, or one
  too many.

`Follow`, `ParentId` and `get_free_id` are recursive functions. Of such a function the
provers know only that it is chosen to satisfy its equation, if anything does.
`LeastNat` and `SetInduction` get induction from the well-foundedness of < on the
naturals; `RecursionExists` and the lemmas `...Exist` and `...Agree` show with it
that the equations have one solution; `WalkStep`, `ReachStep` and `IdStep` then give
their values. `WalkFrame`: a change to a block that a chain does not come to leaves
the chain alone. `ReachLonger`: a new entry does not change where a path leads
that led somewhere.

### EchfsStoreProofs: the volume implements FileStore, and the boot manager reads it

`FileStore` knows paths and contents; the image has numbered entries and chains of
blocks. The mapping reads the image as a user would: a path is there if
`path_resolver` and `search` find an entry for it, and its contents are those of the
blocks its chain goes through. A step that appends a directory entry (`Mkdir`, or
`MakePrefix` in `import`) is `MakeDir`, `WriteEntry` is `Store`, `Format` is `Wipe`, and
all other steps, `Killed` among them, are stutters. `SInv` is `IInv` and:

* `Asked`: the path and the size a running import works on are ones that were given.
* `Named`: every entry is found under a path that was given or made on the way.
* `Written`: each written block of the chain under construction holds its part of
  the file.

Two facts carry the proof. A new entry adds exactly one path (`Grown`): it takes none
away because paths that led somewhere lead there still, and it adds no second one
because two paths to the same entry are equal (`OneWay` and `OnePath`, by induction
on their length, from the uniqueness of the directory numbers). And the blocks
that `import_chain` changes are of no file (`FilesInFrame`), so that a file keeps
its contents while another one is being written.

`LoaderIsRight` is about the second reader, `echfs_load`, and volumes that are
`Loadable`: blocks of one chunk at most, fewer than half of `TableSpan`, and a
directory of a block or more. There, what is read is what is in the block
(`HeldAll`), and the byte and the shift are exact; Findings says what
happens elsewhere. The theorem follows from `IInv`: both programs round the size
of the table alike (`SameDirectory`), so the scan comes to the entries in their
order (`TurnsAreEntries`, `ScannedIs`) and `echfs_next_block` to the word of the
block (`NextBlockIsWord`); a chain that ends comes to no block twice, so it is
no longer than the volume and the read loop sees its end (`ChainFits`). Which of
two root entries of a name is first decides between file and failure
(`LoadDecides`).

### Only model-checked, and why

* The liveness properties: fairness is out of the prover's reach.
* `ScreenShows` compares the screen with `Rendered`, which lays the whole log out
  again, by recursion over its messages and characters. A proof would carry the
  layout of every prefix through each character drawn. `MessagesAreWhole` and
  `TypeCorrect` prove two parts of it: what is drawn is the log, and all of it is
  drawn on the screen.

## 5. Not modelled

* `vmm_init`, `vmm_set_wc`, `vmm_create_mmio`: run on the boot processor alone, in
  order, on page tables that the heap does not share. Between the link and the
  clearing of a new page table (`vmm.c:134`) `vmm_find` may read it on another CPU;
  `Heap` takes the two as one step.
* TLBs: `vmm_free` flushes that of its own CPU only (`vmm.c:185`).
* `pmm_find_in_range`, `irq_mask`: no caller.
* The ACPI interpreter (lai): a submodule that is not in the tree; its host layer
  only forwards calls.
* PCI and port I/O, the copy of messages on port 0xE9, the contents of GDT and TSS,
  fonts and pixels: no state that a property is about.
* The memory and string functions of `misc/string.c` are those of C and appear as
  assignments.
* A spurious interrupt in the window in which a starting processor rewrites the
  IDT entry that all share (`lapic.c:32`): `SmpBoot` has the window, but no
  processor that takes the interrupt there.
* `format` killed half-way (`echfs-utils.c:580`): the volume has to be formatted
  again, and no file is on it.

## 6. Plan

The model is complete to the extent described above, and every safety property
but `ScreenShows` is proved. What is left: a proof of `ScreenShows`, by an invariant
that relates the screen to the layout of the log and of the message that its
owner is printing; and a property for `format` killed half-way, once the tool says
what it promises there.
