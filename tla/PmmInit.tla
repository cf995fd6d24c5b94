------------------------------ MODULE PmmInit ------------------------------
(***************************************************************************)
(* pmm_init and e820_add_entry (src/kernel/src/mm/pmm.c): how the memory   *)
(* map of the firmware becomes the bitmap and the counters that the page   *)
(* allocator (Pmm) starts from.                                            *)
(*                                                                         *)
(* The map is a sequence of entries in the order the firmware gave them,   *)
(* as the boot manager has stored them (BootMgr, which composes the two);  *)
(* every call of e820_add_entry is one action. Sizes are scaled down: the  *)
(* page, the bits of a bitmap byte, the 2048 low pages and the 16 MB limit *)
(* are constants.                                                          *)
(***************************************************************************)
EXTENDS Integers, Sequences, FiniteSets

CONSTANTS
    PageSize,       \* 4096 in the code
    BitsPerByte,    \* 8
    LowPages,       \* 2048: the lowest 8 MB, where kernel and bitmap live
    MinPages,       \* 4096: 16 MB in pages
    MaxPage         \* bound: the highest page number a map can name, plus one

ASSUME PmmInitAssumption ==
    /\ PageSize \in Nat \ {0, 1}
    /\ BitsPerByte \in Nat \ {0}
    /\ LowPages \in Nat \ {0}
    /\ MinPages \in Nat
    /\ MaxPage \in Nat

VARIABLES
    e820,                   \* the map being read
    next,                   \* index of the entry the loop is at
    phase,                  \* "start", "entries", "size", "done" or "hung"
    bitmap,                 \* the pages whose bit is set
    pmm_bitmap_size,        \* in bytes
    total_pages,
    used_pages,
    highest_usable_address

pmmVars == <<e820, next, phase, bitmap, pmm_bitmap_size, total_pages, used_pages,
             highest_usable_address>>

Bit == 0..MaxPage

Ceiling(a, b) == (a + b - 1) \div b

\* The statics of pmm.c before pmm_init.
PmmStatics ==
    /\ next = 1
    /\ phase = "start"
    /\ bitmap = {}
    /\ pmm_bitmap_size = 0
    /\ total_pages = 0
    /\ used_pages = 0
    /\ highest_usable_address = 0

-----------------------------------------------------------------------------

\* The bitmap is sized from the last entry of the map...
BitmapBytes ==
    LET last == e820[Len(e820)]
    IN  Ceiling(Ceiling(last.base + last.length, PageSize), BitsPerByte)

Covered(bytes) == {b \in Bit : b < bytes * BitsPerByte}

\* ...and filled with ones. The bits behind it keep what memory holds there.
SizeBitmap ==
    /\ phase = "start"
    /\ pmm_bitmap_size' = BitmapBytes
    /\ \E junk \in SUBSET (Bit \ Covered(BitmapBytes)) :
          bitmap' = Covered(BitmapBytes) \cup junk
    /\ phase' = "entries"
    /\ UNCHANGED <<e820, next, total_pages, used_pages, highest_usable_address>>

-----------------------------------------------------------------------------
(* e820_add_entry.                                                         *)

\* Entries of no length, and entries whose ACPI 3.0 attributes say "ignore
\* me", are skipped.
Ignored(e) == e.length = 0 \/ (e.size >= 24 /\ ~e.enabled)

\* Entries of type 1 to 5 are added, the others only printed.
Known(e) == e.type \in 1..5

Usable(e) == e.type = 1

\* Pages of an entry; one more for memory that is not usable, because such
\* an entry may start in the middle of its first page.
EntryPages(e) == Ceiling(e.length, PageSize) + (IF Usable(e) THEN 0 ELSE 1)

\* The bits the loop over the entry's pages visits.
EntryBits(e) ==
    LET first == e.base \div PageSize
    IN  first..(first + EntryPages(e) - 1)

\* Mutant: only the first usable entry sets the highest usable address.
HighestFirst(e) ==
    IF Usable(e) /\ highest_usable_address = 0
    THEN e.base + e.length - 1
    ELSE highest_usable_address

Highest(e) ==
    IF Usable(e) /\ e.base + e.length > highest_usable_address
    THEN e.base + e.length - 1
    ELSE highest_usable_address

\* Mutant: the pages of usable memory are counted as used when they are freed.
AddUsableCounted(e) ==
    /\ bitmap' = bitmap \ EntryBits(e)
    /\ used_pages' = used_pages - Cardinality(EntryBits(e) \cap bitmap)

\* Usable memory: pmm_mark_page_free for each page, with used_pages put back
\* to its value before the call.
AddUsable(e) ==
    /\ bitmap' = bitmap \ EntryBits(e)
    /\ UNCHANGED used_pages

\* Any other memory: the pages count as used, and pmm_mark_page_used counts
\* those whose bit was clear once more.
AddReserved(e) ==
    /\ bitmap' = bitmap \cup EntryBits(e)
    /\ used_pages' = used_pages + EntryPages(e)
                        + Cardinality(EntryBits(e) \ bitmap)

Advance ==
    /\ next' = next + 1
    /\ phase' = IF next = Len(e820) THEN "size" ELSE "entries"
    /\ UNCHANGED <<e820, pmm_bitmap_size>>

AddEntry ==
    LET e == e820[next] IN
    /\ phase = "entries"
    /\ Known(e) /\ ~Ignored(e)
    /\ total_pages' = total_pages + EntryPages(e)
    /\ highest_usable_address' = Highest(e)
    /\ IF Usable(e) THEN AddUsable(e) ELSE AddReserved(e)
    /\ Advance

SkipEntry ==
    LET e == e820[next] IN
    /\ phase = "entries"
    /\ ~Known(e) \/ Ignored(e)
    /\ Advance
    /\ UNCHANGED <<bitmap, total_pages, used_pages, highest_usable_address>>

-----------------------------------------------------------------------------

\* Too little memory: an error message and while(1).
TooSmall ==
    /\ phase = "size"
    /\ total_pages < MinPages
    /\ phase' = "hung"
    /\ UNCHANGED <<e820, next, bitmap, pmm_bitmap_size, total_pages, used_pages,
                   highest_usable_address>>

\* Mutant: the low memory of the kernel and the bitmap is not reserved.
ReserveLowMissing ==
    /\ phase = "size"
    /\ total_pages >= MinPages
    /\ phase' = "done"
    /\ UNCHANGED <<e820, next, bitmap, pmm_bitmap_size, total_pages, used_pages,
                   highest_usable_address>>

\* pmm_mark_page_used on each of the low pages.
ReserveLow ==
    /\ phase = "size"
    /\ total_pages >= MinPages
    /\ bitmap' = bitmap \cup 0..(LowPages - 1)
    /\ used_pages' = used_pages + Cardinality((0..(LowPages - 1)) \ bitmap)
    /\ phase' = "done"
    /\ UNCHANGED <<e820, next, pmm_bitmap_size, total_pages,
                   highest_usable_address>>

pmm_init == SizeBitmap \/ AddEntry \/ SkipEntry \/ TooSmall \/ ReserveLow

-----------------------------------------------------------------------------

\* The pages pmm_find_page can return: clear bits below the last page of
\* usable memory (Pmm's Managed, for this bitmap).
Allocatable ==
    {n \in Bit : /\ n \notin bitmap
                 /\ n * PageSize < highest_usable_address - PageSize}

PmmTypeOK ==
    /\ next \in 1..(Len(e820) + 1)
    /\ phase \in {"start", "entries", "size", "done", "hung"}
    /\ bitmap \subseteq Bit
    /\ total_pages \in Nat
    /\ used_pages \in Nat
    /\ highest_usable_address \in Nat

=============================================================================
