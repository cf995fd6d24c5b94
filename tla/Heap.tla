-------------------------------- MODULE Heap --------------------------------
(***************************************************************************)
(* The kernel heap: kmalloc, krealloc and kfree of src/kernel/src/mm/mm.c, *)
(* on top of vmm_alloc, vmm_find, vmm_map_page and vmm_free of             *)
(* src/kernel/src/mm/vmm.c, called by several contexts at once (threads    *)
(* that the timer preempts anywhere, and the application processors, whose *)
(* start-up code calls kmalloc for a stack).                               *)
(*                                                                         *)
(* heap_mutex serialises kmalloc but not kfree; vmm_mutex serialises the   *)
(* changes of the page tables but not vmm_find, which reads them. The page *)
(* allocator below is the abstract one (PageAllocator, which Pmm is shown  *)
(* to implement): `free` is its stock, `stuck` its dead state.             *)
(*                                                                         *)
(* Memory is modelled to the unit of 16 bytes: a block's header is one     *)
(* unit, a page holds PageUnits of them, request sizes are in units.       *)
(* Virtual pages are numbered from KERNEL_HEAP.                            *)
(***************************************************************************)
EXTENDS Integers, Sequences, FiniteSets, FiniteSetsExt

CONSTANTS
    Proc,           \* contexts that use the heap
    Phys,           \* the physical pages the page allocator manages
    VMax,           \* bound: the highest virtual page of the heap
    Spans,          \* virtual pages under one table, from the PDPT to the PT
    PageUnits,      \* units in a page, 256 in the code
    Sizes,          \* request sizes, in units
    Slack,          \* by how much total_pages - used_pages exceeds the stock
    AllowShrink,    \* whether callers use krealloc to make a block smaller
    MaxCalls        \* bound: calls of all contexts

ASSUME HeapAssumption ==
    /\ Phys \subseteq Nat \ {0}
    /\ VMax \in Nat /\ PageUnits \in Nat \ {0}
    /\ Spans \in Seq(Nat \ {0})
    /\ Sizes \subseteq Nat \ {0}
    /\ Slack \in {0, 1}     \* BootMgr's EstimateSound
    /\ AllowShrink \in BOOLEAN

VARIABLES
    heap_mutex, vmm_mutex,
    free,           \* pages the page allocator can hand out
    stuck,          \* a pmm_alloc_page has failed and kept pmm_mutex
    raw,            \* pages other code took from pmm_alloc_page (a CR3)
    table,          \* table[t]: the page that holds page table t, or 0
    pte,            \* pte[v]: the page that virtual page v is mapped to, or 0
    mem,            \* mem[f][o]: unit o of physical page f
    pc, loc,        \* where each context is, and its local variables
    calls,          \* bound: calls made so far
    live            \* ghost: the blocks callers hold, and what they hold in them

locks == <<heap_mutex, vmm_mutex>>
stock == <<free, stuck, raw>>
tables == <<table, pte>>
vars == <<heap_mutex, vmm_mutex, free, stuck, raw, table, pte, mem, pc, loc,
          calls, live>>

-----------------------------------------------------------------------------
(* Memory.                                                                 *)

VPage == 0..VMax
Unit == 0..(PageUnits - 1)
Table == UNION {{<<k, v \div Spans[k]>> : v \in VPage} : k \in 1..Len(Spans)}

\* Contents of a unit: nothing, a header, or a caller's data.
Zero == <<>>
Header(pages, n) == <<pages, n>>
Data(v) == <<"data", v, v>>

\* A block of n units has a header in front; a page is allocated whole.
PagesOf(n) == (n + 1 + PageUnits - 1) \div PageUnits

Mapped(v) == v \in VPage /\ pte[v] # 0

\* What the program reads at a virtual address.
Load(u) == mem[pte[u \div PageUnits]][u % PageUnits]

\* Memory after a sequence of values is stored at consecutive addresses.
Stored(u, vals) ==
    [f \in Phys |-> [o \in Unit |->
        LET hit == {k \in 1..Len(vals) :
                        /\ pte[(u + k - 1) \div PageUnits] = f
                        /\ (u + k - 1) % PageUnits = o}
        IN  IF hit = {} THEN mem[f][o] ELSE vals[Max(hit)]]]

NoBlock == [n |-> 0, data |-> <<>>]
Live == {v \in VPage : live[v] # NoBlock}

\* A call's local variables; `old` is krealloc's argument.
NoLocals == [n |-> 0, ptr |-> 0, i |-> 0, phys |-> 0, old |-> -1]

Init ==
    /\ heap_mutex = 0 /\ vmm_mutex = 0
    /\ free = Phys /\ stuck = FALSE /\ raw = {}
    /\ table = [t \in Table |-> 0]
    /\ pte = [v \in VPage |-> 0]
    /\ mem = [f \in Phys |-> [o \in Unit |-> Zero]]
    /\ pc = [p \in Proc |-> "idle"]
    /\ loc = [p \in Proc |-> NoLocals]
    /\ calls = 0
    /\ live = [v \in VPage |-> NoBlock]

\* p is at one step of its call and goes to another.
From(p, here, there) == pc[p] = here /\ pc' = [pc EXCEPT ![p] = there]

Set(p, var, val) == loc' = [loc EXCEPT ![p][var] = val]

\* The call returns; its locals are gone.
Return(p, here) == From(p, here, "idle") /\ loc' = [loc EXCEPT ![p] = NoLocals]

-----------------------------------------------------------------------------
(* pmm_alloc_page and pmm_free_page, as PageAllocator promises them.       *)

\* The scan returns the lowest free page; without one the allocator dies.
TakeFrame == ~stuck /\ free # {} /\ free' = free \ {Min(free)} /\ UNCHANGED stuck
NoFrame == ~stuck /\ free = {} /\ stuck' = TRUE /\ UNCHANGED free

\* Mutant: vmm_free forgets pmm_free_page.
KeepFrame(f) == UNCHANGED <<free, stuck>>

\* Mutant: pmm_free_page gets the address of the page behind.
GiveNextFrame(f) == ~stuck /\ free' = free \cup {f + 1} /\ UNCHANGED stuck

GiveFrame(f) == ~stuck /\ free' = free \cup {f} /\ UNCHANGED stuck

\* Other users of the page allocator: create_process takes a page for a CR3.
RawAlloc ==
    /\ calls < MaxCalls /\ calls' = calls + 1
    /\ TakeFrame
    /\ raw' = raw \cup {Min(free)}
    /\ UNCHANGED <<locks, tables, mem, pc, loc, live>>

RawFree ==
    /\ \E f \in raw : GiveFrame(f) /\ raw' = raw \ {f}
    /\ UNCHANGED <<locks, tables, mem, pc, loc, calls, live>>

-----------------------------------------------------------------------------
(* The calls. A caller only names blocks it has, and each to one call.     *)

Engaged(v) == \E q \in Proc :
    \/ pc[q] # "idle" /\ loc[q].old = v
    \/ pc[q] \in {"fill", "copy"} /\ loc[q].ptr = v

Call(p, there) ==
    /\ From(p, "idle", there)
    /\ calls < MaxCalls
    /\ calls' = calls + 1
    /\ UNCHANGED <<locks, stock, tables, mem, live>>

\* kmalloc, or kcalloc, which adds nothing to it.
Kmalloc(p) ==
    /\ Call(p, "heap")
    /\ \E n \in Sizes : loc' = [loc EXCEPT ![p].n = n, ![p].old = -1]

Krealloc(p) ==
    /\ Call(p, "heap")
    /\ \E v \in Live, n \in Sizes :
          /\ ~Engaged(v)
          /\ AllowShrink \/ n >= live[v].n
          /\ loc' = [loc EXCEPT ![p].n = n, ![p].old = v]

Kfree(p) ==
    /\ Call(p, "free")
    /\ \E v \in Live :
          /\ ~Engaged(v)
          /\ loc' = [loc EXCEPT ![p].ptr = v, ![p].old = v]

-----------------------------------------------------------------------------
(* kmalloc and vmm_alloc.                                                  *)

HeapAvailable == heap_mutex = 0

HeapAcquire(p) ==
    /\ From(p, "heap", "check")
    /\ HeapAvailable
    /\ heap_mutex' = 1
    /\ UNCHANGED <<vmm_mutex, stock, tables, mem, loc, calls, live>>

\* vmm_alloc refuses a request that would take the last counted page.
Refused(pages) == Cardinality(free) + Slack <= pages

Check(p) ==
    /\ From(p, "check", IF Refused(PagesOf(loc[p].n)) THEN "null" ELSE "find")
    /\ loc' = [loc EXCEPT ![p].ptr = 0, ![p].i = 0]
    /\ UNCHANGED <<locks, stock, tables, mem, calls, live>>

\* The page a loop over the pages of a range is at.
Target(p) == loc[p].ptr + loc[p].i

RangeFound(p) == ~Mapped(Target(p)) /\ loc[p].i + 1 >= PagesOf(loc[p].n)

\* One turn of vmm_find's loop, without vmm_mutex: an unmapped page extends
\* the range, a mapped one restarts it one page further. The search has no end:
\* KERNEL_HEAP is above MMIO_REGION, so the condition of the loop always holds;
\* here VMax bounds it.
Find(p) ==
    /\ From(p, "find", "find")
    /\ Target(p) \in VPage
    /\ ~RangeFound(p)
    /\ loc' = IF Mapped(Target(p))
              THEN [loc EXCEPT ![p].ptr = @ + 1, ![p].i = 0]
              ELSE [loc EXCEPT ![p].i = @ + 1]
    /\ UNCHANGED <<locks, stock, tables, mem, calls, live>>

Found(p) ==
    /\ From(p, "find", "vmm")
    /\ Target(p) \in VPage
    /\ RangeFound(p)
    /\ Set(p, "i", 0)
    /\ UNCHANGED <<locks, stock, tables, mem, calls, live>>

\* vmm_alloc and vmm_free take vmm_mutex.
VmmAcquire(p) ==
    /\ From(p, "vmm", "frame") \/ From(p, "free_vmm", "put")
    /\ vmm_mutex = 0
    /\ vmm_mutex' = 1
    /\ UNCHANGED <<heap_mutex, stock, tables, mem, loc, calls, live>>

\* vmm_alloc: a physical page for the next virtual one.
Frame(p) ==
    /\ From(p, "frame", "walk")
    /\ TakeFrame
    /\ Set(p, "phys", Min(free))
    /\ UNCHANGED <<locks, raw, tables, mem, calls, live>>

\* ... or none: vmm_alloc gives up, and what it has mapped stays mapped.
FrameFails(p) ==
    /\ From(p, "frame", "vmm_null")
    /\ NoFrame
    /\ UNCHANGED <<locks, raw, tables, mem, loc, calls, live>>

\* The levels of the walk to v whose table is not present.
Absent(v) == {k \in 1..Len(Spans) : table[<<k, v \div Spans[k]>>] = 0}

\* vmm_map_page: allocate, link and clear the next missing table.
MapTable(p) ==
    LET k == Min(Absent(Target(p))) IN
    /\ From(p, "walk", "walk")
    /\ Absent(Target(p)) # {}
    /\ TakeFrame
    /\ table' = [table EXCEPT ![<<k, Target(p) \div Spans[k]>>] = Min(free)]
    /\ mem' = [mem EXCEPT ![Min(free)] = [o \in Unit |-> Zero]]
    /\ UNCHANGED <<locks, raw, pte, loc, calls, live>>

\* ... or hang in while(1), with both locks taken.
MapTableFails(p) ==
    /\ From(p, "walk", "hung")
    /\ Absent(Target(p)) # {}
    /\ NoFrame
    /\ UNCHANGED <<locks, raw, tables, mem, loc, calls, live>>

\* The page table entry that vmm_map_page writes.
Entry(p) == Target(p)

\* vmm_map_page: all tables are there, the entry is written.
MapPage(p) ==
    /\ From(p, "walk", IF loc[p].i + 1 < PagesOf(loc[p].n) THEN "frame" ELSE "vmm_out")
    /\ Absent(Target(p)) = {}
    /\ pte' = [pte EXCEPT ![Entry(p)] = loc[p].phys]
    /\ Set(p, "i", loc[p].i + 1)
    /\ UNCHANGED <<locks, stock, table, mem, calls, live>>

\* Mutant: the lock word keeps its value on the way out of vmm_free.
ReleasedNot(p) == IF pc[p] = "free_out" THEN 1 ELSE 0

\* The lock word after release().
Released(p) == 0

\* vmm_alloc returns the range or NULL, vmm_free returns.
VmmRelease(p) ==
    /\ \/ From(p, "vmm_out", "clear") /\ UNCHANGED loc
       \/ From(p, "vmm_null", "null") /\ UNCHANGED loc
       \/ Return(p, "free_out")
    /\ vmm_mutex' = Released(p)
    /\ UNCHANGED <<heap_mutex, stock, tables, mem, calls, live>>

Zeros(n) == [k \in 1..n |-> Zero]

\* Mutant: kmalloc without its memset.
UnclearedBlock(n) == <<Header(PagesOf(n), n)>>

\* What kmalloc writes: the header, and zeros for the caller.
FreshBlock(n) == <<Header(PagesOf(n), n)>> \o Zeros(n)

Clear(p) ==
    /\ From(p, "clear", "heap_out")
    /\ mem' = Stored(loc[p].ptr * PageUnits, FreshBlock(loc[p].n))
    /\ UNCHANGED <<locks, stock, tables, loc, calls, live>>

\* kmalloc returns the block; krealloc goes on to copy.
HeapRelease(p) ==
    /\ From(p, "heap_out", IF loc[p].old = -1 THEN "fill" ELSE "copy")
    /\ heap_mutex' = Released(p)
    /\ live' = [live EXCEPT ![loc[p].ptr] =
                   [n |-> loc[p].n, data |-> Zeros(loc[p].n)]]
    /\ UNCHANGED <<vmm_mutex, stock, tables, mem, loc, calls>>

\* kmalloc and krealloc return NULL; krealloc leaves the old block alone.
ReturnNull(p) ==
    /\ Return(p, "null")
    /\ heap_mutex' = Released(p)
    /\ UNCHANGED <<vmm_mutex, stock, tables, mem, calls, live>>

\* The caller writes its data into the new block.
Fill(p) ==
    LET vals == [k \in 1..loc[p].n |-> Data(loc[p].ptr)] IN
    /\ Return(p, "fill")
    /\ mem' = Stored(loc[p].ptr * PageUnits + 1, vals)
    /\ live' = [live EXCEPT ![loc[p].ptr].data = vals]
    /\ UNCHANGED <<locks, stock, tables, calls>>

-----------------------------------------------------------------------------
(* krealloc: memcpy of as many bytes as the old header says, then kfree.   *)
(* A write to a page that is not mapped is a page fault and stops here.    *)

\* What memcpy reads, and the virtual pages it writes.
OldData(p) ==
    LET at == loc[p].old * PageUnits
    IN  [k \in 1..Load(at)[2] |-> Load(at + k)]
Written(p) == {(loc[p].ptr * PageUnits + k) \div PageUnits : k \in 1..Len(OldData(p))}

\* What krealloc owes its caller: the old data, cut or continued with zeros.
Resized(data, n) == [k \in 1..n |-> IF k <= Len(data) THEN data[k] ELSE Zero]

Copy(p) ==
    /\ From(p, "copy", "free")
    /\ \A v \in Written(p) : Mapped(v)
    /\ mem' = Stored(loc[p].ptr * PageUnits + 1, OldData(p))
    /\ live' = [live EXCEPT ![loc[p].ptr].data =
                   Resized(live[loc[p].old].data, loc[p].n)]
    /\ Set(p, "ptr", loc[p].old)
    /\ UNCHANGED <<locks, stock, tables, calls>>

-----------------------------------------------------------------------------
(* kfree and vmm_free.                                                     *)

\* kfree reads the number of pages in the header; the block is given up.
ReadHeader(p) ==
    /\ From(p, "free", "free_vmm")
    /\ loc' = [loc EXCEPT ![p].n = Load(loc[p].ptr * PageUnits)[1], ![p].i = 0]
    /\ live' = [live EXCEPT ![loc[p].ptr] = NoBlock]
    /\ UNCHANGED <<locks, stock, tables, mem, calls>>

\* Where vmm_free's loop goes after a page.
NextPut(p) == IF loc[p].i + 1 < loc[p].n THEN "put" ELSE "free_out"

\* vmm_free: a page that is mapped goes back first...
Put(p) ==
    /\ pc[p] = "put"
    /\ IF Mapped(Target(p))
       THEN From(p, "put", "unmap") /\ GiveFrame(pte[Target(p)]) /\ UNCHANGED loc
       ELSE /\ From(p, "put", NextPut(p))
            /\ Set(p, "i", loc[p].i + 1)
            /\ UNCHANGED <<free, stuck>>
    /\ UNCHANGED <<locks, raw, tables, mem, calls, live>>

\* Mutant: vmm_free without its vmm_map_page(virtual, 0, 0).
UnmapMissing(p) ==
    /\ From(p, "unmap", NextPut(p))
    /\ Set(p, "i", loc[p].i + 1)
    /\ UNCHANGED <<locks, stock, tables, mem, calls, live>>

\* ... and is unmapped next, by vmm_map_page(virtual, 0, 0).
Unmap(p) ==
    /\ From(p, "unmap", NextPut(p))
    /\ pte' = [pte EXCEPT ![Entry(p)] = 0]
    /\ Set(p, "i", loc[p].i + 1)
    /\ UNCHANGED <<locks, stock, table, mem, calls, live>>

-----------------------------------------------------------------------------

Step(p) ==
    \/ HeapAcquire(p) \/ Check(p) \/ Find(p) \/ Found(p) \/ VmmAcquire(p)
    \/ Frame(p) \/ FrameFails(p) \/ MapTable(p) \/ MapTableFails(p) \/ MapPage(p)
    \/ VmmRelease(p) \/ Clear(p) \/ HeapRelease(p) \/ ReturnNull(p) \/ Fill(p)
    \/ Copy(p) \/ ReadHeader(p) \/ Put(p) \/ Unmap(p)

Next ==
    \/ RawAlloc \/ RawFree
    \/ \E p \in Proc : Kmalloc(p) \/ Krealloc(p) \/ Kfree(p) \/ Step(p)

(***************************************************************************)
(* Every context keeps running: the timer gives each thread the CPU again  *)
(* (Sched), an application processor has a CPU to itself.                  *)
(***************************************************************************)
Fairness == \A p \in Proc : WF_vars(Step(p))

Spec == Init /\ [][Next]_vars

FairSpec == Spec /\ Fairness

-----------------------------------------------------------------------------
(* Properties.                                                             *)

TypeOK ==
    /\ heap_mutex \in {0, 1} /\ vmm_mutex \in {0, 1}
    /\ free \subseteq Phys /\ raw \subseteq Phys /\ stuck \in BOOLEAN
    /\ table \in [Table -> Phys \cup {0}]
    /\ pte \in [VPage -> Phys \cup {0}]
    /\ \A p \in Proc : loc[p].phys \in Phys \cup {0}

\* The header of every block says how many pages kfree has to release.
HeaderTrue(v) == Load(v * PageUnits) = Header(PagesOf(live[v].n), live[v].n)

\* BlocksIntact: as long as a caller has a block, it is mapped, its header
\* says what kfree and krealloc need, and its contents are what the caller
\* put there: zeros when kmalloc returns it (kcalloc relies on that), then
\* the caller's data, also across krealloc, whatever other contexts
\* allocate and free meanwhile.
BlocksIntact ==
    \A v \in Live :
        /\ \A w \in v..(v + PagesOf(live[v].n) - 1) : Mapped(w)
        /\ HeaderTrue(v)
        /\ (\A p \in Proc : ~(pc[p] = "copy" /\ loc[p].ptr = v)) =>
              \A k \in 1..live[v].n : Load(v * PageUnits + k) = live[v].data[k]

\* Entries that vmm_free has yet to clear; their page is already back.
Dangling == {Target(p) : p \in {p \in Proc : pc[p] = "unmap"}}

\* NoAlias: a physical page has one use at a time: one virtual page, one
\* page table, a page taken directly, or the stock of the page allocator.
NoAlias ==
    LET used == {v \in VPage : Mapped(v)} \ Dangling
        there == {t \in Table : table[t] # 0}
    IN  /\ \A v, w \in used : pte[v] = pte[w] => v = w
        /\ \A t, u \in there : table[t] = table[u] => t = u
        /\ \A v \in used : pte[v] \notin free \cup raw \cup {table[t] : t \in there}
        /\ \A t \in there : table[t] \notin free \cup raw

\* NoLeak: when every call has returned and the page allocator is alive, a
\* page that is not in its stock belongs to a live block, to a page table or
\* to whoever took it directly: failed and completed calls leak nothing.
NoLeak ==
    (~stuck /\ \A p \in Proc : pc[p] = "idle") =>
        LET blocks == UNION {v..(v + PagesOf(live[v].n) - 1) : v \in Live}
        IN  Phys \subseteq free \cup raw \cup {table[t] : t \in Table}
                           \cup {pte[w] : w \in blocks}

\* CallsReturn: every call returns, in every interleaving of the contexts
\* and whatever they hold, unless the page allocator has run dry.
CallsReturn ==
    \A p \in Proc : (pc[p] # "idle") ~> (pc[p] = "idle" \/ stuck)

\* CleanupReturns: when memory runs out and kmalloc reports it with NULL, the
\* pages that its caller and others hold can still be given back, as the
\* error paths of create_process do: kfree returns, unless vmm_map_page has
\* stopped the kernel on purpose.
CleanupReturns ==
    \A p \in Proc : (pc[p] = "free")
                        ~> (pc[p] = "idle" \/ \E q \in Proc : pc[q] = "hung")

\* HeadersKept: the header of a live block keeps its size in pages "so we
\* can free it" (mm.c), whatever is done to other blocks.
HeadersKept == \A v \in Live : HeaderTrue(v)

=============================================================================
