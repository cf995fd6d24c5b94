------------------------------ MODULE BootMgr ------------------------------
(***************************************************************************)
(* From the power button to the page allocator: the boot manager under     *)
(* src/bootmgr (mbr.asm and echfs.asm of stage 1; bootmgr.asm, system.asm, *)
(* paging.asm and vbe.asm of stage 2), composed with the kernel's pmm_init *)
(* (PmmInit), which reads the memory map that the boot manager stores.     *)
(*                                                                         *)
(* The firmware `fw` is external: what disk, processor, A20 gate, memory   *)
(* map, ACPI tables, monitor (EDID) and video modes it has. The            *)
(* boot manager asks it for one thing after the other and stops with a     *)
(* message ("error") where something is missing. `fw.kernel` says whether  *)
(* echfs_load finds the kernel on the disk; what decides that is the       *)
(* subject of EchfsLoader.                                                 *)
(***************************************************************************)
EXTENDS PmmInit

CONSTANTS
    Firmwares,      \* the machines
    RsdpSlots       \* paragraphs from 0xE0000 that are searched for the RSDP

ASSUME BootMgrAssumption ==
    /\ RsdpSlots \in Nat
    /\ \A f \in Firmwares :
          /\ Len(f.map) \in Nat \ {0} /\ f.a20 \in 0..4
          /\ f.bytes_per_block \in Nat /\ f.drive \in 0..255 /\ f.rsdp \subseteq Nat

\* An area of the memory map, and where it ends.
MapEntry == [base : Nat, length : Nat, type : Nat, size : Nat, enabled : BOOLEAN]
End(e) == e.base + e.length

OnPages(e) == e.base % PageSize = 0 /\ End(e) % PageSize = 0
InLow(e) == End(e) <= LowPages * PageSize

\* What pmm_init takes for granted of a map. Its areas come in the order of
\* their addresses and do not overlap, so that the last one ends last; usable
\* ones above the low memory consist of whole pages, and no two share a page.
\* Empty ones may come anywhere in between.
SoundMap(m) ==
    LET Areas == {i \in 1..Len(m) : m[i].length # 0} IN
    /\ \A i \in 1..Len(m) : m[i] \in MapEntry
    /\ \A i, j \in Areas : i < j => End(m[i]) <= m[j].base
    /\ \A i \in Areas : End(m[i]) <= End(m[Len(m)])
    /\ End(m[Len(m)]) <= MaxPage * PageSize
    /\ \A i \in Areas : Usable(m[i]) => OnPages(m[i]) \/ InLow(m[i])
    /\ \A i, j \in Areas :
          /\ Usable(m[i]) /\ ~Ignored(m[i]) /\ Usable(m[j]) /\ ~Ignored(m[j])
          /\ EntryBits(m[i]) \cap EntryBits(m[j]) # {}
          => i = j

ASSUME MapAssumption == \A f \in Firmwares : SoundMap(f.map)

VARIABLES
    fw,
    stage,          \* where the boot manager is; "kernel" when it is done
    boot_info,      \* edd, optical and rsdp of the boot information; see HandoverKept
    call,           \* entries, attempts or modes seen by the current loop
    a20,            \* the A20 gate is open
    low_half,       \* PML4[0] = PML4[256], 8 GB
    vbe_size,       \* vbe_width, vbe_height
    vbe_mode_info,
    mode            \* the video mode: 0 for text, else its place in the list

bootVars == <<fw, stage, boot_info, call, a20, low_half, vbe_size, vbe_mode_info, mode>>
vars == <<pmmVars, bootVars>>

\* The pointer to the RSDP before it is found: that of physical address 0 in the
\* higher half, which is no paragraph of the BIOS.
ADDRESS_0 == -1

NoInfo == [width |-> 0, height |-> 0, bpp |-> 0]
DEFAULT == <<800, 600>>

Init ==
    /\ fw \in Firmwares
    /\ stage = "mbr"
    /\ boot_info = [edd |-> "unset", optical |-> FALSE, rsdp |-> ADDRESS_0]
    /\ call = 0
    /\ a20 = (fw.a20 = 0)
    /\ low_half = FALSE
    /\ vbe_size = DEFAULT
    /\ vbe_mode_info = NoInfo
    /\ mode = 0
    /\ e820 = <<>>
    /\ PmmStatics

\* From one stage to another if a condition holds, else to the error message.
Proceed(here, condition, there) ==
    /\ stage = here
    /\ stage' = IF condition THEN there ELSE "error"

-----------------------------------------------------------------------------
(* Stage 1.                                                                *)

\* The master boot record loads the first sector of the active partition.
Mbr ==
    /\ Proceed("mbr", fw.disk_reads /\ fw.active, "stage1")
    /\ UNCHANGED <<pmmVars, fw, boot_info, call, a20, low_half, vbe_size, vbe_mode_info, mode>>

\* A word compared with jl: it is signed.
Signed16(n) == LET w == n % 65536 IN IF w >= 32768 THEN w - 65536 ELSE w

BlockSizeGood == Signed16(fw.bytes_per_block) >= 2048

\* The boot sector copies itself to 0x40000 and loads 15 blocks to 0x1000, the
\* low word of their size in sectors. Is it overwritten while it waits?
Overwritten == 4096 + 15 * 512 * ((fw.bytes_per_block % 65536) \div 512) > 16384 * 16

Stage1 ==
    /\ Proceed("stage1", BlockSizeGood /\ fw.disk_reads /\ (Overwritten \/ fw.magic),
               IF Overwritten THEN "crashed" ELSE "detect")
    /\ UNCHANGED <<pmmVars, fw, boot_info, call, a20, low_half, vbe_size, vbe_mode_info, mode>>

-----------------------------------------------------------------------------
(* Stage 2: processor, disk and memory.                                    *)

\* Drive numbers are compared as signed bytes: a floppy disk counts as a CD.
Optical(drive) == drive >= 224 \/ drive < 128

\* Text mode; the drive; a 64-bit processor; the geometry of the drive, from
\* EDD, from the old function, or none.
Detect ==
    /\ Proceed("detect", fw.long_mode, "e820")
    /\ boot_info' = [boot_info EXCEPT !.optical = Optical(fw.drive), !.edd = fw.edd]
    /\ UNCHANGED <<pmmVars, fw, call, a20, low_half, vbe_size, vbe_mode_info, mode>>

\* The answer to int 0x15 says that there are no more entries: ebx is zero
\* with the last one, or the carry flag is set after it.
LastCall == fw.map_ends = "zero" /\ call + 1 = Len(fw.map)
NoMore == fw.map_ends = "fails" \/ call = Len(fw.map)

\* The map with one more entry. The size of an entry is stored after the check
\* for the end, so that the word in front of the last entry stays zero.
Stored ==
    Append(e820, IF LastCall THEN [fw.map[call + 1] EXCEPT !.size = 0] ELSE fw.map[call + 1])

\* detect_memory: one call of int 0x15.
DetectMemory ==
    /\ IF NoMore
       THEN Proceed("e820", e820 # <<>>, "a20") /\ call' = 0 /\ UNCHANGED e820
       ELSE /\ Proceed("e820", TRUE, IF LastCall THEN "a20" ELSE "e820")
            /\ e820' = Stored
            /\ call' = IF LastCall THEN 0 ELSE call + 1
    /\ UNCHANGED <<next, phase, bitmap, pmm_bitmap_size, total_pages, used_pages,
                   highest_usable_address, fw, boot_info, a20, low_half, vbe_size,
                   vbe_mode_info, mode>>

\* Mutant: do_a20 gives up without waiting a second time.
A20Impatient ==
    /\ IF a20 \/ call = 2 THEN Proceed("a20", a20, "load") /\ call' = 0 /\ UNCHANGED a20
       ELSE /\ Proceed("a20", TRUE, "a20")
            /\ call' = call + 1
            /\ a20' = (call' >= fw.a20)
    /\ UNCHANGED <<pmmVars, fw, boot_info, low_half, vbe_size, vbe_mode_info, mode>>

\* do_a20: the gate is open, or opens with the call of the BIOS (attempt 1),
\* with the fast method (2), a little later (3), or not at all.
A20 ==
    /\ IF a20 \/ call = 3 THEN Proceed("a20", a20, "load") /\ call' = 0 /\ UNCHANGED a20
       ELSE /\ Proceed("a20", TRUE, "a20")
            /\ call' = call + 1
            /\ a20' = (call' >= fw.a20)
    /\ UNCHANGED <<pmmVars, fw, boot_info, low_half, vbe_size, vbe_mode_info, mode>>

\* The kernel comes from an echfs partition of a hard disk (echfs_load).
LoadKernel ==
    /\ Proceed("load", ~boot_info.optical /\ fw.partition = 243 /\ fw.kernel, "acpi")
    /\ UNCHANGED <<pmmVars, fw, boot_info, call, a20, low_half, vbe_size, vbe_mode_info, mode>>

\* The paragraphs that hold the signature of the RSDP and are looked at.
Visible == fw.rsdp \cap 0..(RsdpSlots - 1)
First(S) == CHOOSE n \in S : \A m \in S : n <= m

\* The loop over the memory of the BIOS.
ScanAcpi ==
    /\ Proceed("acpi", Visible # {}, "paging")
    /\ boot_info' = IF Visible = {} THEN boot_info
                    ELSE [boot_info EXCEPT !.rsdp = First(Visible)]
    /\ UNCHANGED <<pmmVars, fw, call, a20, low_half, vbe_size, vbe_mode_info, mode>>

\* setup_paging.
SetupPaging ==
    /\ Proceed("paging", TRUE, "vbe")
    /\ low_half' = TRUE
    /\ UNCHANGED <<pmmVars, fw, boot_info, call, a20, vbe_size, vbe_mode_info, mode>>

-----------------------------------------------------------------------------
(* Stage 2: the video mode.                                                *)

\* The bitwise or of two numbers of four bits.
Or4(a, b) ==
    LET bit(k) == IF (a \div k) % 2 = 1 \/ (b \div k) % 2 = 1 THEN k ELSE 0
    IN  bit(1) + bit(2) + bit(4) + bit(8)

\* A size as do_edid puts it together: the low eight bits in a byte of their
\* own, the high four shifted into place with the four bits of the blanking
\* interval that share their byte.
EdidSize(t) == t.high * 256 + Or4(t.low \div 16, t.blank) * 16 + (t.low % 16)

\* do_vbe: VBE 2.0, and do_edid. Without an EDID the default size is tried.
Vbe ==
    /\ Proceed("vbe", fw.vbe, "mode")
    /\ vbe_size' = IF fw.vbe /\ fw.edid # <<>> THEN <<EdidSize(fw.edid[1]), EdidSize(fw.edid[2])>>
                   ELSE vbe_size
    /\ UNCHANGED <<pmmVars, fw, boot_info, call, a20, low_half, vbe_mode_info, mode>>

\* The mode the loop of vbe_set_mode looks at, and whether it is the one.
Candidate == fw.modes[call + 1]
Matches(info) == <<info.width, info.height>> = vbe_size /\ info.bpp = 32

\* vbe_set_mode returns with the carry flag: for the monitor's size do_vbe goes
\* on with the default, for the default it stops with a message.
ModeFails ==
    /\ stage' = IF stage = "mode" THEN "default" ELSE "error"
    /\ vbe_size' = DEFAULT
    /\ call' = 0

\* Mutant: a mode that cannot be set leaves the machine as it is.
SetModeUnchecked ==
    /\ stage' = "long"
    /\ mode' = IF Candidate.sets THEN call + 1 ELSE mode
    /\ UNCHANGED <<vbe_size, call>>

\* do_vbe sets the mode that was found. After the default mode there is no
\* `ret`: the processor goes on into the text of the error message.
SetMode ==
    IF Candidate.sets
    THEN /\ mode' = call + 1
         /\ stage' = IF stage = "mode" THEN "long" ELSE "crashed"
         /\ UNCHANGED <<vbe_size, call>>
    ELSE ModeFails /\ UNCHANGED mode

\* vbe_set_mode: one turn of its loop. A mode whose information cannot be read
\* ends the search.
TryMode ==
    /\ stage \in {"mode", "default"}
    /\ IF call = Len(fw.modes) \/ ~Candidate.readable
       THEN ModeFails /\ UNCHANGED <<vbe_mode_info, mode>>
       ELSE /\ vbe_mode_info' = Candidate.info
            /\ IF Matches(Candidate.info) THEN SetMode
               ELSE call' = call + 1 /\ UNCHANGED <<stage, vbe_size, mode>>
    /\ UNCHANGED <<pmmVars, fw, boot_info, a20, low_half>>

\* The PICs are masked, interrupts are off, long mode is on: to the kernel.
EnterKernel ==
    /\ Proceed("long", TRUE, "kernel")
    /\ UNCHANGED <<pmmVars, fw, boot_info, call, a20, low_half, vbe_size, vbe_mode_info, mode>>

-----------------------------------------------------------------------------

BootManager ==
    \/ Mbr \/ Stage1 \/ Detect \/ DetectMemory \/ A20 \/ LoadKernel \/ ScanAcpi
    \/ SetupPaging \/ Vbe \/ TryMode \/ EnterKernel

Next ==
    \/ BootManager
    \/ stage = "kernel" /\ pmm_init /\ UNCHANGED bootVars

Spec == Init /\ [][Next]_vars

\* One processor executes all of it.
FairSpec == Spec /\ WF_vars(Next)

-----------------------------------------------------------------------------
(* Properties.                                                             *)

TypeOK ==
    /\ PmmTypeOK
    /\ stage \in {"mbr", "stage1", "detect", "e820", "a20", "load", "acpi", "paging",
                  "vbe", "mode", "default", "long", "kernel", "error", "crashed"}
    /\ call \in 0..(Len(fw.map) + Len(fw.modes) + 3)
    /\ mode \in 0..Len(fw.modes)

\* The low word of a block size lies between the largest power of two that
\* works and the first number whose sign is set.
Between(n) == n % 65536 > 16384 /\ n % 65536 < 32768

\* The map as detect_memory leaves it: the size of the last entry may be missing.
StoredAt(i) ==
    IF fw.map_ends = "zero" /\ i = Len(fw.map) THEN [fw.map[i] EXCEPT !.size = 0] ELSE fw.map[i]

\* HandoverKept: what holds when the kernel starts. The gate is open, both
\* halves are mapped, the processor has 64 bits, the drive is a hard disk; the
\* video mode has 32 bits, and the mode information passed on is that of the
\* current mode, although the search has overwritten it for every mode it
\* tried; the RSDP is the first there is; every entry of the memory map has
\* been stored, in order and unchanged but for the size of a last one. Nor does
\* the boot manager run away, but for two flaws: the `ret` that is missing
\* after the default mode, and a block size that is no power of two and lets
\* stage 2 overwrite the boot sector that loads it: by its low word, which is
\* all that stage 1 looks at (from 32768 on, the sign saves it).
\* This is less than docs/bootmgr.md asks for, in three places. A machine
\* whose int 0x13, ah = 0x48 fails is to stop with a message (line 29): the code
\* gets here with boot_info.edd "old" or "none" as well. "Its actual size is
\* stored in a WORD before it" (line 21): detect_memory leaves its loop before
\* that for a last entry that comes with ebx = 0 (StoredAt). The SMBIOS field
\* is to be zero without SMBIOS (line 25): it always keeps the pointer it is
\* initialised to, nothing writes it, and it is not in boot_info.
HandoverKept ==
    /\ stage = "crashed" => (mode # 0 /\ vbe_size = DEFAULT)
                             \/ Between(fw.bytes_per_block)
    /\ stage = "kernel" =>
          /\ a20 /\ low_half /\ fw.long_mode
          /\ fw.drive \in 128..223
          /\ mode # 0 /\ vbe_mode_info = fw.modes[mode].info /\ vbe_mode_info.bpp = 32
          /\ Len(e820) = Len(fw.map)
          /\ \A i \in 1..Len(fw.map) : e820[i] = StoredAt(i)
          /\ boot_info.rsdp \in fw.rsdp /\ \A r \in fw.rsdp : boot_info.rsdp <= r

\* What the monitor asks for, as its EDID means it.
Preferred ==
    IF fw.edid = <<>> THEN DEFAULT
    ELSE <<fw.edid[1].high * 256 + fw.edid[1].low, fw.edid[2].high * 256 + fw.edid[2].low>>

\* A machine that has all that docs/bootmgr.md asks for, EDD among it: a hard
\* disk with the kernel, a 64-bit processor, a memory map, ACPI, and the
\* preferred mode of its monitor, in a list that can be read. Its block size is
\* one that fits the disk buffer of echfs_load (EchfsLoader). Blanking intervals
\* of 256 pixels and more are left out: do_edid mixes them into the size.
Capable ==
    /\ fw.disk_reads /\ fw.active /\ fw.magic /\ fw.bytes_per_block \in {2048, 4096, 8192}
    /\ fw.edd = "edd"
    /\ fw.drive \in 128..223 /\ fw.partition = 243 /\ fw.kernel
    /\ fw.long_mode /\ fw.map_ends # "fails" /\ fw.a20 < 4 /\ Visible # {}
    /\ fw.vbe
    /\ \A i \in 1..Len(fw.edid) : fw.edid[i].blank = 0
    /\ \A i \in 1..Len(fw.modes) : fw.modes[i].readable /\ fw.modes[i].sets
    /\ \E i \in 1..Len(fw.modes) :
          <<fw.modes[i].info.width, fw.modes[i].info.height>> = Preferred
          /\ fw.modes[i].info.bpp = 32

\* CapableBoots: such a machine boots, up to the page allocator or to the
\* message that there is too little memory; any other gets that far, or stops
\* with an error message or in one of the two flaws above.
CapableBoots ==
    /\ Capable ~> (stage = "kernel" /\ phase \in {"done", "hung"})
    /\ <>(stage \in {"error", "crashed"} \/ phase \in {"done", "hung"})

\* The bytes of page n.
Bytes(n) == (n * PageSize)..((n + 1) * PageSize - 1)
BytesOf(e) == e.base..(e.base + e.length - 1)

\* Every byte of the page is memory that the firmware reports usable.
Ram(n) == \E i \in 1..Len(fw.map) :
    Usable(fw.map[i]) /\ ~Ignored(fw.map[i]) /\ Bytes(n) \subseteq BytesOf(fw.map[i])

\* Memory whose "ignore me" attribute the kernel cannot see, because the size
\* of the last entry is not stored.
Misread(n) ==
    /\ fw.map_ends = "zero"
    /\ Ignored(fw.map[Len(fw.map)])
    /\ Bytes(n) \subseteq BytesOf(fw.map[Len(fw.map)])

\* FreePagesAreRam: for a map that is sorted, does not overlap and keeps
\* usable memory page-aligned, every page the allocator can hand out after
\* pmm_init is RAM to its last byte, as the firmware reports it, and above the
\* reserved low memory; and its bit lies inside the bitmap, never in the
\* unknown memory behind it.
FreePagesAreRam ==
    phase = "done" => \A n \in Allocatable :
        n >= LowPages /\ (Ram(n) \/ Misread(n)) /\ n \in Covered(pmm_bitmap_size)

\* AllRamManaged: and no RAM is lost. Every page of RAM above the low memory
\* can be handed out, but for the very last one, before which pmm_find_page
\* stops.
AllRamManaged ==
    phase = "done" => \A n \in Bit :
        n >= LowPages /\ Ram(n) =>
            n \in Allocatable \/ \A m \in Bit : m > n => ~Ram(m)

\* total_pages - used_pages, which vmm_alloc compares with a request, exceeds
\* the pages that can really be handed out by at most the one page that
\* pmm_find_page never returns, and does not wrap below zero.
EstimateSound == total_pages - used_pages \in 0..(Cardinality(Allocatable) + 1)

\* BootsIntoPmm: what pmm_init leaves behind is a state the page allocator
\* may start from (Pmm's PmmAssumption): page 0, whose address is NULL, is
\* never free, the scan ends inside the bitmap, and the estimate of free pages
\* is good to one page. Without any usable memory, highest_usable_address -
\* 4096 wraps.
BootsIntoPmm ==
    phase = "done" /\ (\E n \in Bit : n >= LowPages /\ Ram(n)) =>
        /\ 0 \in bitmap
        /\ PageSize <= highest_usable_address
        /\ highest_usable_address <= pmm_bitmap_size * BitsPerByte * PageSize
        /\ EstimateSound

=============================================================================
