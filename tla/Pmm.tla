-------------------------------- MODULE Pmm --------------------------------
(***************************************************************************)
(* The physical memory manager once pmm_init has filled the bitmap:        *)
(* pmm_alloc_page and pmm_free_page of src/kernel/src/mm/pmm.c, called by  *)
(* any number of CPUs, with the spin lock of src/kernel/src/asm/cpu.asm    *)
(* at the granularity of its instructions.                                 *)
(*                                                                         *)
(* A process is a context that executes kernel code on a CPU of its own.   *)
(* Each step of a call is one action: the `bt` that reads the lock, the    *)
(* `lock bts` that takes it, one turn of pmm_find_page's loop, the bitmap  *)
(* update, the used_pages update, the store that releases the lock.        *)
(* Pages are numbered; page n has physical address n * PageSize, and the   *)
(* NULL that pmm_find_page returns is the address of page 0.               *)
(***************************************************************************)
EXTENDS Integers, FiniteSets

CONSTANTS
    Proc,           \* contexts that call the allocator
    PageSize,       \* 4096 in the code
    HighestUsable,  \* highest_usable_address after pmm_init
    LastPage,       \* the highest page the bitmap has a bit for
    BootFree,       \* the pages whose bit is clear after pmm_init
    BootUsed,       \* used_pages after pmm_init
    NoPage          \* not a page

Page == 0..LastPage

(***************************************************************************)
(* What pmm_init leaves behind: the lowest pages are marked used (page 0   *)
(* among them), memory reaches past the first page, and the bitmap covers  *)
(* every usable address.                                                   *)
(***************************************************************************)
ASSUME PmmAssumption ==
    /\ PageSize \in Nat \ {0}
    /\ LastPage \in Nat
    /\ HighestUsable \in Nat
    /\ PageSize <= HighestUsable
    /\ HighestUsable <= LastPage * PageSize
    /\ BootFree \subseteq Page \ {0}
    /\ BootUsed \in Nat
    /\ NoPage \notin Page

VARIABLES
    pmm_mutex,      \* bit 0 of the lock word
    pmm_bitmap,     \* the set of pages whose bit is 1 (used)
    used_pages,
    pc,             \* pc[p]: where p is in its call, "idle" outside one
    op,             \* op[p]: the call p is in, "alloc" or "free"
    page,           \* page[p]: the local variable or argument `page`
    held            \* ghost: held[p] is what p was given and not given back

vars == <<pmm_mutex, pmm_bitmap, used_pages, pc, op, page, held>>

\* The steps between acquire and release.
Critical == {"scan", "mark", "count", "clear", "uncount", "release"}

InCS(p) == pc[p] \in Critical

\* Every page some process holds.
Held == UNION {held[p] : p \in Proc}

\* The page is the argument of a pmm_free_page that has not cleared its bit.
BeingFreed(n) == \E p \in Proc :
    /\ op[p] = "free"
    /\ page[p] = n
    /\ pc[p] \in {"test", "set", "clear"}

\* Init: pmm_init has returned, nobody is in a call.
Init ==
    /\ pmm_mutex = 0
    /\ pmm_bitmap = Page \ BootFree
    /\ used_pages = BootUsed
    /\ pc = [p \in Proc |-> "idle"]
    /\ op = [p \in Proc |-> "alloc"]
    /\ page = [p \in Proc |-> NoPage]
    /\ held = [p \in Proc |-> {}]

-----------------------------------------------------------------------------
(* The lock: acquire and release of cpu.asm.                               *)

Goto(p, where) == pc' = [pc EXCEPT ![p] = where]

\* Where a call continues once it has the lock.
AfterAcquire(p) == IF op[p] = "alloc" THEN "scan" ELSE "clear"

\* bt qword[rdi], 0 / jc acquire
Test(p) ==
    /\ pc[p] = "test"
    /\ pmm_mutex = 0
    /\ Goto(p, "set")
    /\ UNCHANGED <<pmm_mutex, pmm_bitmap, used_pages, op, page, held>>

\* Mutant: the plain store of a lock without `lock bts`.
SetNotAtomic(p) ==
    /\ pc[p] = "set"
    /\ pmm_mutex' = 1
    /\ Goto(p, AfterAcquire(p))
    /\ page' = IF op[p] = "alloc" THEN [page EXCEPT ![p] = 0] ELSE page
    /\ UNCHANGED <<pmm_bitmap, used_pages, op, held>>

\* lock bts qword[rdi], 0 / jc acquire. The carry is the old value of the bit.
\* pmm_find_page then starts at page 0.
Set(p) ==
    /\ pc[p] = "set"
    /\ pmm_mutex' = 1
    /\ IF pmm_mutex = 0
       THEN /\ Goto(p, AfterAcquire(p))
            /\ page' = IF op[p] = "alloc" THEN [page EXCEPT ![p] = 0] ELSE page
       ELSE /\ Goto(p, "test")
            /\ UNCHANGED page
    /\ UNCHANGED <<pmm_bitmap, used_pages, op, held>>

\* Mutant: the lock is never given back.
ReleaseForgotten(p) ==
    /\ pc[p] = "release"
    /\ Goto(p, "idle")
    /\ page' = [page EXCEPT ![p] = NoPage]
    /\ UNCHANGED <<pmm_mutex, pmm_bitmap, used_pages, op, held>>

\* mov byte[rdi], 0, and the call returns.
Release(p) ==
    /\ pc[p] = "release"
    /\ pmm_mutex' = 0
    /\ Goto(p, "idle")
    /\ page' = [page EXCEPT ![p] = NoPage]
    /\ UNCHANGED <<pmm_bitmap, used_pages, op, held>>

-----------------------------------------------------------------------------
(* pmm_alloc_page.                                                         *)

\* pmm_get_page: an address past usable memory counts as used.
pmm_get_page(n) == n * PageSize >= HighestUsable \/ n \in pmm_bitmap

AllocCall(p) ==
    /\ pc[p] = "idle"
    /\ Goto(p, "test")
    /\ op' = [op EXCEPT ![p] = "alloc"]
    /\ UNCHANGED <<pmm_mutex, pmm_bitmap, used_pages, page, held>>

\* The loop of pmm_find_page ends with NULL once it has passed this page.
PastEnd(n) == n * PageSize >= HighestUsable - PageSize

\* Mutant: pmm_find_page without the check against the end of memory.
ScanNoEnd(p) ==
    /\ pc[p] = "scan"
    /\ IF pmm_get_page(page[p])
       THEN pc' = pc /\ page' = [page EXCEPT ![p] = @ + 1]
       ELSE Goto(p, "mark") /\ page' = page
    /\ UNCHANGED <<pmm_mutex, pmm_bitmap, used_pages, op, held>>

\* Mutant: pmm_find_page returns NULL at the second used page.
ScanGivesUp(p) ==
    /\ pc[p] = "scan"
    /\ IF pmm_get_page(page[p])
       THEN IF page[p] > 0
            THEN Goto(p, "idle") /\ page' = [page EXCEPT ![p] = NoPage]
            ELSE pc' = pc /\ page' = [page EXCEPT ![p] = @ + 1]
       ELSE Goto(p, "mark") /\ page' = page
    /\ UNCHANGED <<pmm_mutex, pmm_bitmap, used_pages, op, held>>

\* Mutant: pmm_find_page without its `page += 4096`.
ScanNoAdvance(p) ==
    /\ pc[p] = "scan"
    /\ ~pmm_get_page(page[p])
    /\ Goto(p, "mark")
    /\ UNCHANGED <<pmm_mutex, pmm_bitmap, used_pages, op, page, held>>

\* One turn of pmm_find_page: a free page ends it, a used one moves on, and
\* the end of memory makes pmm_alloc_page return NULL with the lock taken.
Scan(p) ==
    /\ pc[p] = "scan"
    /\ IF pmm_get_page(page[p])
       THEN IF PastEnd(page[p] + 1)
            THEN Goto(p, "idle") /\ page' = [page EXCEPT ![p] = NoPage]
            ELSE pc' = pc /\ page' = [page EXCEPT ![p] = @ + 1]
       ELSE Goto(p, "mark") /\ page' = page
    /\ UNCHANGED <<pmm_mutex, pmm_bitmap, used_pages, op, held>>

\* Mutant: pmm_alloc_page returns the page without marking it used.
MarkMissing(p) ==
    /\ pc[p] = "mark"
    /\ Goto(p, "count")
    /\ held' = [held EXCEPT ![p] = @ \cup {page[p]}]
    /\ UNCHANGED <<pmm_mutex, pmm_bitmap, used_pages, op, page>>

\* pmm_mark_page_used: nothing to do for a bit that is already set.
Mark(p) ==
    /\ pc[p] = "mark"
    /\ pmm_bitmap' = pmm_bitmap \cup {page[p]}
    /\ Goto(p, IF page[p] \in pmm_bitmap THEN "release" ELSE "count")
    /\ held' = [held EXCEPT ![p] = @ \cup {page[p]}]
    /\ UNCHANGED <<pmm_mutex, used_pages, op, page>>

Count(p) ==
    /\ pc[p] = "count"
    /\ used_pages' = used_pages + 1
    /\ Goto(p, "release")
    /\ UNCHANGED <<pmm_mutex, pmm_bitmap, op, page, held>>

-----------------------------------------------------------------------------
(* pmm_free_page. Callers free pages that are out, each of them once; the  *)
(* CPU that frees a page need not be the one that asked for it.            *)

FreeCall(p) ==
    /\ pc[p] = "idle"
    /\ \E n \in Held :
          /\ ~BeingFreed(n)
          /\ page' = [page EXCEPT ![p] = n]
    /\ op' = [op EXCEPT ![p] = "free"]
    /\ Goto(p, "test")
    /\ UNCHANGED <<pmm_mutex, pmm_bitmap, used_pages, held>>

\* Mutant: pmm_mark_page_free with `flag = 1 << bit`, the complement missing,
\* so that `&=` clears the other bits.
ClearOthers(p) ==
    /\ pc[p] = "clear"
    /\ pmm_bitmap' = pmm_bitmap \cap {page[p]}
    /\ Goto(p, "uncount")
    /\ held' = [q \in Proc |-> held[q] \ {page[p]}]
    /\ UNCHANGED <<pmm_mutex, used_pages, op, page>>

\* pmm_mark_page_free: nothing to do for a bit that is already clear.
Clear(p) ==
    /\ pc[p] = "clear"
    /\ pmm_bitmap' = pmm_bitmap \ {page[p]}
    /\ Goto(p, IF page[p] \notin pmm_bitmap THEN "release" ELSE "uncount")
    /\ held' = [q \in Proc |-> held[q] \ {page[p]}]
    /\ UNCHANGED <<pmm_mutex, used_pages, op, page>>

\* Mutant: pmm_mark_page_free without its `used_pages--`.
UncountMissing(p) ==
    /\ pc[p] = "uncount"
    /\ Goto(p, "release")
    /\ UNCHANGED <<pmm_mutex, pmm_bitmap, used_pages, op, page, held>>

Uncount(p) ==
    /\ pc[p] = "uncount"
    /\ used_pages' = used_pages - 1
    /\ Goto(p, "release")
    /\ UNCHANGED <<pmm_mutex, pmm_bitmap, op, page, held>>

-----------------------------------------------------------------------------

\* The steps a process takes once it is in a call.
Step(p) ==
    \/ Test(p) \/ Set(p) \/ Release(p)
    \/ Scan(p) \/ Mark(p) \/ Count(p)
    \/ Clear(p) \/ Uncount(p)

Next == \E p \in Proc : AllocCall(p) \/ FreeCall(p) \/ Step(p)

(***************************************************************************)
(* A CPU keeps executing: weak fairness of each process's steps inside a   *)
(* call. Nothing makes a process call, and nothing makes the lock fair to  *)
(* one particular spinning CPU.                                            *)
(***************************************************************************)
Fairness == \A p \in Proc : WF_vars(Step(p))

Spec == Init /\ [][Next]_vars

FairSpec == Spec /\ Fairness

-----------------------------------------------------------------------------
(* Properties.                                                             *)

\* The lock is taken and nobody is between acquire and release: the state
\* that pmm_alloc_page's early return leaves behind.
Abandoned == pmm_mutex = 1 /\ \A p \in Proc : ~InCS(p)

\* Pages pmm_find_page can ever return.
Managed == {n \in BootFree : ~PastEnd(n)}

TypeOK ==
    /\ pmm_mutex \in {0, 1}
    /\ pmm_bitmap \subseteq Page
    /\ used_pages \in Int
    /\ pc \in [Proc -> Critical \cup {"idle", "test", "set"}]
    /\ op \in [Proc -> {"alloc", "free"}]
    /\ page \in [Proc -> Page \cup {NoPage}]
    /\ held \in [Proc -> SUBSET Page]

\* MutualExclusion: two CPUs are never both between acquire and release, and
\* whoever is there owns the lock bit (cpu.asm, acquire). It rests on `bts`
\* being atomic: two CPUs may both have seen the bit clear in `bt`.
MutualExclusion ==
    \A p, q \in Proc : InCS(p) => pmm_mutex = 1 /\ (InCS(q) => p = q)

\* NoDoubleAllocation: no page is in the hands of two callers at once, and
\* what is handed out is memory that pmm_init left free, never the NULL page
\* (pmm_alloc_page).
NoDoubleAllocation ==
    /\ \A p, q \in Proc : p # q => held[p] \cap held[q] = {}
    /\ Held \subseteq Managed

\* BitmapExact: a bit is set exactly for the memory that was never free and
\* for the pages that are out, so no page leaks and none is offered twice
\* however allocations and frees of several CPUs interleave.
BitmapExact == pmm_bitmap = (Page \ BootFree) \cup Held

\* Accounting: whenever nobody is in the middle of an update, used_pages is
\* the boot value plus the pages that are out. It never drops below the boot
\* value, so the unsigned counter cannot wrap, and the free-page estimate of
\* vmm_alloc (total_pages - used_pages) moves with the bitmap.
Accounting ==
    /\ used_pages >= BootUsed
    /\ (\A p \in Proc : pc[p] \notin {"count", "uncount"})
          => used_pages = BootUsed + Cardinality(Held)

\* AbandonedOnlyWhenExhausted: the lock is lost only by a request made when
\* every page the scan can return was out, and from then on it stays so.
AbandonedOnlyWhenExhausted == Abandoned => Managed \subseteq Held

\* The abstract allocator; a lost lock is its dead state.
Alloc == INSTANCE PageAllocator WITH dead <- Abandoned

\* RefinesAllocator: every step of the code is a step of the abstract
\* allocator or invisible to its callers.
RefinesAllocator == Alloc!Spec

\* LockReturned: a critical section ends, with the lock free or lost.
LockReturned == (pmm_mutex = 1) ~> (pmm_mutex = 0 \/ Abandoned)

=============================================================================
