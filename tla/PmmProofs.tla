----------------------------- MODULE PmmProofs -----------------------------
(***************************************************************************)
(* Proofs about Pmm for every number of CPUs and every memory layout that  *)
(* PmmAssumption allows.                                                   *)
(***************************************************************************)
EXTENDS Pmm, FiniteSetTheorems, TLAPS

-----------------------------------------------------------------------------
(* The inductive invariant. Neither type correctness nor the bitmap's      *)
(* invariant is inductive alone: that the page about to be marked has a    *)
(* bit, is free and is not NULL is known from the scan, and what the scan  *)
(* has seen stays true because of mutual exclusion.                        *)

\* The pages a scan has passed are out, and it has not passed the end.
Scanned(p) ==
    /\ page[p] \in Nat
    /\ page[p] # 0 => ~PastEnd(page[p])
    /\ \A n \in Managed : n < page[p] => n \in Held

\* A pmm_free_page that has not cleared its page's bit.
Freeing(p) == op[p] = "free" /\ pc[p] \in {"test", "set", "clear"}

\* What the local variables of a call say at each of its steps.
CallState(p) ==
    /\ pc[p] \in {"scan", "mark", "count"} => op[p] = "alloc"
    /\ pc[p] \in {"clear", "uncount"} => op[p] = "free"
    /\ pc[p] = "scan" => Scanned(p)
    /\ pc[p] = "mark" => page[p] \in Managed \ Held
    /\ pc[p] = "count" => page[p] \in Held
    /\ Freeing(p) => page[p] \in Held

\* No page is being freed by two callers.
FreesDistinct ==
    \A p, q \in Proc : Freeing(p) /\ Freeing(q) /\ page[p] = page[q] => p = q

\* used_pages at every step, the two in the middle of an update included.
Counted ==
    /\ \A p \in Proc : pc[p] = "count" =>
          used_pages = BootUsed + Cardinality(Held) - 1
    /\ \A p \in Proc : pc[p] = "uncount" =>
          used_pages = BootUsed + Cardinality(Held) + 1
    /\ (\A p \in Proc : pc[p] \notin {"count", "uncount"}) =>
          used_pages = BootUsed + Cardinality(Held)

IInv ==
    /\ TypeOK
    /\ MutualExclusion
    /\ \A p \in Proc : CallState(p)
    /\ FreesDistinct
    /\ NoDoubleAllocation
    /\ BitmapExact
    /\ Counted
    /\ AbandonedOnlyWhenExhausted

-----------------------------------------------------------------------------
(* Arithmetic of page numbers, and how the set of held pages moves.        *)

\* What a page is worth in bytes grows with its number.
LEMMA PageOrder ==
    ASSUME NEW a \in Nat, NEW b \in Nat, a < b
    PROVE  a * PageSize + PageSize <= b * PageSize
<1>1. PageSize \in Nat
  BY PmmAssumption
<1>2. PICK d \in Nat : b = a + 1 + d
  <2>1. b - a - 1 \in Nat /\ b = a + 1 + (b - a - 1)
    OBVIOUS
  <2>. QED BY <2>1
<1>3. b * PageSize = a * PageSize + PageSize + d * PageSize
  BY <1>1, <1>2
<1>4. d * PageSize >= 0 /\ d * PageSize \in Nat /\ a * PageSize \in Nat
  BY <1>1, <1>2
<1>. QED BY <1>1, <1>3, <1>4

\* A page the loop of pmm_find_page has not passed has a bit in the bitmap
\* and lies below the highest usable address.
LEMMA ScanInBounds ==
    ASSUME NEW n \in Nat, ~PastEnd(n)
    PROVE  n \in Page /\ ~(n * PageSize >= HighestUsable)
<1>1. PageSize \in Nat \ {0} /\ HighestUsable \in Nat /\ LastPage \in Nat
  BY PmmAssumption
<1>2. n * PageSize \in Nat /\ LastPage * PageSize \in Nat
  BY <1>1
<1>3. n * PageSize < HighestUsable - PageSize
  BY <1>1, <1>2 DEF PastEnd
<1>4. n * PageSize < LastPage * PageSize
  BY <1>1, <1>2, <1>3, PmmAssumption
<1>5. ~(LastPage < n)
  <2>1. SUFFICES ASSUME LastPage < n PROVE FALSE
    OBVIOUS
  <2>2. LastPage * PageSize + PageSize <= n * PageSize
    BY <1>1, <2>1, PageOrder
  <2>. QED BY <1>1, <1>2, <1>4, <2>2
<1>6. n <= LastPage
  BY <1>1, <1>5
<1>7. n \in Page
  BY <1>1, <1>6 DEF Page
<1>. QED BY <1>1, <1>2, <1>3, <1>7

\* pmm_get_page tells the truth about every page the scan asks for.
LEMMA ScanReadsBitmap ==
    ASSUME IInv, NEW p \in Proc, pc[p] = "scan"
    PROVE  /\ page[p] \in Page
           /\ pmm_get_page(page[p]) <=> page[p] \in pmm_bitmap
<1>1. page[p] \in Nat /\ (page[p] # 0 => ~PastEnd(page[p]))
  BY DEF IInv, CallState, Scanned
<1>2. CASE page[p] = 0
  <2>1. 0 \in Page
    BY PmmAssumption DEF Page
  <2>2. ~(0 * PageSize >= HighestUsable)
    BY PmmAssumption
  <2>. QED BY <1>2, <2>1, <2>2 DEF pmm_get_page
<1>3. CASE page[p] # 0
  BY <1>1, <1>3, ScanInBounds DEF pmm_get_page
<1>. QED BY <1>2, <1>3

\* A page is managed memory that is out if and only if its bit says so.
LEMMA ManagedBit ==
    ASSUME IInv, NEW n \in Managed
    PROVE  n \in pmm_bitmap <=> n \in Held
BY PmmAssumption DEF IInv, BitmapExact, Managed

\* Only finitely many pages are out, so that they can be counted.
LEMMA HeldFinite ==
    ASSUME TypeOK
    PROVE  /\ Held \subseteq Page
           /\ IsFiniteSet(Held)
           /\ Cardinality(Held) \in Nat
<1>1. Held \subseteq Page
  BY DEF TypeOK, Held
<1>2. IsFiniteSet(Page)
  BY PmmAssumption, FS_Interval DEF Page
<1>3. IsFiniteSet(Held)
  BY <1>1, <1>2, FS_Subset
<1>. QED BY <1>1, <1>3, FS_CardinalityType

\* A page handed to p joins the pages that are out.
LEMMA HeldAdd ==
    ASSUME TypeOK, NEW p \in Proc, NEW n,
           held' = [held EXCEPT ![p] = @ \cup {n}]
    PROVE  Held' = Held \cup {n}
BY DEF TypeOK, Held

\* A page taken from every holder leaves the pages that are out.
LEMMA HeldRemove ==
    ASSUME TypeOK, NEW n, held' = [q \in Proc |-> held[q] \ {n}]
    PROVE  Held' = Held \ {n}
BY DEF TypeOK, Held

\* pmm_init leaves a state in which the inductive invariant holds.
LEMMA InitIInv == Init => IInv
<1>. SUFFICES ASSUME Init PROVE IInv
  OBVIOUS
<1>1. TypeOK
  BY PmmAssumption DEF Init, TypeOK, Page, Critical
<1>2. Held = {}
  BY DEF Init, Held
<1>3. BitmapExact
  BY <1>2 DEF Init, BitmapExact
<1>4. Counted
  BY <1>2, FS_EmptySet, PmmAssumption DEF Init, Counted
<1>5. MutualExclusion
  BY DEF Init, MutualExclusion, InCS, Critical
<1>6. \A p \in Proc : CallState(p)
  BY DEF Init, CallState, Freeing
<1>7. FreesDistinct
  BY DEF Init, FreesDistinct, Freeing
<1>8. NoDoubleAllocation
  BY <1>2 DEF Init, NoDoubleAllocation
<1>9. AbandonedOnlyWhenExhausted
  BY DEF Init, AbandonedOnlyWhenExhausted, Abandoned
<1>. QED BY <1>1, <1>3, <1>4, <1>5, <1>6, <1>7, <1>8, <1>9 DEF IInv

-----------------------------------------------------------------------------
(* Each action preserves the invariant. Five actions move only the calls'  *)
(* own state; for them what is held, marked and counted stays as it is.    *)

\* The conjuncts about memory follow when no memory state moves.
LEMMA MemoryUntouched ==
    ASSUME IInv, UNCHANGED <<pmm_bitmap, used_pages, held>>
    PROVE  /\ Held' = Held
           /\ NoDoubleAllocation'
           /\ BitmapExact'
BY DEF IInv, Held, NoDoubleAllocation, BitmapExact, Managed, PastEnd

\* Entering pmm_alloc_page preserves the inductive invariant.
LEMMA AllocCallIInv ==
    ASSUME IInv, NEW p \in Proc, AllocCall(p)
    PROVE  IInv'
<1>. USE DEF AllocCall, Goto
<1>1. TypeOK'
  BY DEF IInv, TypeOK, Critical
<1>2. Held' = Held /\ NoDoubleAllocation' /\ BitmapExact'
  BY MemoryUntouched
<1>3. MutualExclusion'
  BY DEF IInv, TypeOK, MutualExclusion, InCS, Critical
<1>4. (\A q \in Proc : CallState(q))'
  BY <1>2 DEF IInv, TypeOK, CallState, Freeing, Scanned, Managed, PastEnd
<1>5. FreesDistinct'
  BY DEF IInv, TypeOK, FreesDistinct, Freeing
<1>6. Counted'
  BY <1>2 DEF IInv, TypeOK, Counted
<1>7. AbandonedOnlyWhenExhausted'
  BY <1>2 DEF IInv, TypeOK, AbandonedOnlyWhenExhausted, Abandoned, InCS,
     Critical, Managed, PastEnd
<1>. QED BY <1>1, <1>2, <1>3, <1>4, <1>5, <1>6, <1>7 DEF IInv

\* Entering pmm_free_page preserves the inductive invariant: the page is
\* one that no other call is freeing.
LEMMA FreeCallIInv ==
    ASSUME IInv, NEW p \in Proc, FreeCall(p)
    PROVE  IInv'
<1>. USE DEF FreeCall, Goto
<1>0. PICK n \in Held : ~BeingFreed(n) /\ page' = [page EXCEPT ![p] = n]
  OBVIOUS
<1>1. TypeOK'
  <2>1. n \in Page
    BY <1>0, HeldFinite DEF IInv
  <2>. QED BY <1>0, <2>1 DEF IInv, TypeOK, Critical
<1>2. Held' = Held /\ NoDoubleAllocation' /\ BitmapExact'
  BY MemoryUntouched
<1>3. MutualExclusion'
  BY DEF IInv, TypeOK, MutualExclusion, InCS, Critical
<1>4. (\A q \in Proc : CallState(q))'
  BY <1>0, <1>2 DEF IInv, TypeOK, CallState, Freeing, Scanned, Managed, PastEnd
<1>5. FreesDistinct'
  BY <1>0 DEF IInv, TypeOK, FreesDistinct, Freeing, BeingFreed
<1>6. Counted'
  BY <1>2 DEF IInv, TypeOK, Counted
<1>7. AbandonedOnlyWhenExhausted'
  BY <1>2 DEF IInv, TypeOK, AbandonedOnlyWhenExhausted, Abandoned, InCS,
     Critical, Managed, PastEnd
<1>. QED BY <1>1, <1>2, <1>3, <1>4, <1>5, <1>6, <1>7 DEF IInv

\* acquire's `bt` preserves the inductive invariant.
LEMMA TestIInv ==
    ASSUME IInv, NEW p \in Proc, Test(p)
    PROVE  IInv'
<1>. USE DEF Test, Goto
<1>1. TypeOK'
  BY DEF IInv, TypeOK, Critical
<1>2. Held' = Held /\ NoDoubleAllocation' /\ BitmapExact'
  BY MemoryUntouched
<1>3. MutualExclusion'
  BY DEF IInv, TypeOK, MutualExclusion, InCS, Critical
<1>4. (\A q \in Proc : CallState(q))'
  BY <1>2 DEF IInv, TypeOK, CallState, Freeing, Scanned, Managed, PastEnd
<1>5. FreesDistinct'
  BY DEF IInv, TypeOK, FreesDistinct, Freeing
<1>6. Counted'
  BY <1>2 DEF IInv, TypeOK, Counted
<1>7. AbandonedOnlyWhenExhausted'
  BY <1>2 DEF IInv, TypeOK, AbandonedOnlyWhenExhausted, Abandoned, InCS,
     Critical, Managed, PastEnd
<1>. QED BY <1>1, <1>2, <1>3, <1>4, <1>5, <1>6, <1>7 DEF IInv

\* acquire's `lock bts` preserves the inductive invariant: the lock was free
\* when the bit was won, so nobody else is inside.
LEMMA SetIInv ==
    ASSUME IInv, NEW p \in Proc, Set(p)
    PROVE  IInv'
<1>. USE DEF Set, Goto, AfterAcquire
<1>0. 0 \in Page
  BY PmmAssumption DEF Page
<1>1. TypeOK'
  BY <1>0 DEF IInv, TypeOK, Critical
<1>2. Held' = Held /\ NoDoubleAllocation' /\ BitmapExact'
  BY MemoryUntouched
<1>3. MutualExclusion'
  BY DEF IInv, TypeOK, MutualExclusion, InCS, Critical
<1>4. (\A q \in Proc : CallState(q))'
  <2>1. \A m \in Managed : ~(m < 0)
    BY PmmAssumption DEF Managed, Page
  <2>2. ASSUME NEW q \in Proc, q # p PROVE CallState(q)'
    BY <1>2, <2>2
    DEF IInv, TypeOK, CallState, Freeing, Scanned, Managed, PastEnd
  <2>3. CallState(p)'
    BY <1>2, <2>1
    DEF IInv, TypeOK, CallState, Freeing, Scanned, Managed, PastEnd
  <2>. QED BY <2>2, <2>3
<1>5. FreesDistinct'
  BY DEF IInv, TypeOK, FreesDistinct, Freeing
<1>6. Counted'
  BY <1>2 DEF IInv, TypeOK, Counted
<1>7. AbandonedOnlyWhenExhausted'
  BY <1>2 DEF IInv, TypeOK, AbandonedOnlyWhenExhausted, Abandoned, InCS,
     Critical, Managed, PastEnd
<1>. QED BY <1>1, <1>2, <1>3, <1>4, <1>5, <1>6, <1>7 DEF IInv

\* release preserves the inductive invariant.
LEMMA ReleaseIInv ==
    ASSUME IInv, NEW p \in Proc, Release(p)
    PROVE  IInv'
<1>. USE DEF Release, Goto
<1>1. TypeOK'
  BY DEF IInv, TypeOK, Critical
<1>2. Held' = Held /\ NoDoubleAllocation' /\ BitmapExact'
  BY MemoryUntouched
<1>3. MutualExclusion'
  BY DEF IInv, TypeOK, MutualExclusion, InCS, Critical
<1>4. (\A q \in Proc : CallState(q))'
  BY <1>2 DEF IInv, TypeOK, CallState, Freeing, Scanned, Managed, PastEnd
<1>5. FreesDistinct'
  BY DEF IInv, TypeOK, FreesDistinct, Freeing
<1>6. Counted'
  BY <1>2 DEF IInv, TypeOK, Counted
<1>7. AbandonedOnlyWhenExhausted'
  BY DEF AbandonedOnlyWhenExhausted, Abandoned
<1>. QED BY <1>1, <1>2, <1>3, <1>4, <1>5, <1>6, <1>7 DEF IInv

\* A scan that meets a used page has seen one page more; one that gives up
\* has seen every managed page, which is why a lost lock means exhaustion.
LEMMA ScanIInv ==
    ASSUME IInv, NEW p \in Proc, Scan(p)
    PROVE  IInv'
<1>. USE DEF Goto
<1>0. /\ pc[p] = "scan" /\ pmm_mutex = 1 /\ op[p] = "alloc"
      /\ page[p] \in Nat
      /\ pmm_get_page(page[p]) <=> page[p] \in pmm_bitmap
      /\ page[p] \in Page
      /\ UNCHANGED <<pmm_mutex, pmm_bitmap, used_pages, op, held>>
  BY ScanReadsBitmap
  DEF Scan, IInv, MutualExclusion, InCS, Critical, CallState, Scanned
<1>1. Held' = Held /\ NoDoubleAllocation' /\ BitmapExact'
  BY <1>0, MemoryUntouched
<1>2. Managed' = Managed
  BY DEF Managed, PastEnd
<1>3. \A m \in Managed : m < page[p] => m \in Held
  BY <1>0 DEF IInv, CallState, Scanned
<1>4. \A m \in Managed : m \in Nat
  BY PmmAssumption DEF Managed, Page
<1>5. CASE pmm_get_page(page[p]) /\ PastEnd(page[p] + 1)
  <2>1. pc' = [pc EXCEPT ![p] = "idle"] /\ page' = [page EXCEPT ![p] = NoPage]
    BY <1>5 DEF Scan
  <2>2. ASSUME NEW m \in Managed PROVE m \in Held
    <3>1. m <= page[p]
      <4>1. SUFFICES ASSUME page[p] + 1 <= m PROVE FALSE
        BY <1>0, <1>4
      <4>2. /\ PageSize \in Nat /\ HighestUsable \in Nat
            /\ (page[p] + 1) * PageSize \in Nat /\ m * PageSize \in Nat
        BY <1>0, <1>4, PmmAssumption
      <4>3. (page[p] + 1) * PageSize <= m * PageSize
        <5>1. CASE page[p] + 1 = m
          BY <4>2, <5>1
        <5>2. CASE page[p] + 1 < m
          <6>1. (page[p] + 1) * PageSize + PageSize <= m * PageSize
            BY <1>0, <1>4, <5>2, PageOrder
          <6>. QED BY <4>2, <6>1
        <5>. QED BY <4>1, <5>1, <5>2, <1>0, <1>4
      <4>4. m * PageSize < HighestUsable - PageSize
        BY <4>2 DEF Managed, PastEnd
      <4>5. (page[p] + 1) * PageSize >= HighestUsable - PageSize
        BY <1>5 DEF PastEnd
      <4>. QED BY <4>2, <4>3, <4>4, <4>5
    <3>2. CASE m = page[p]
      BY <1>0, <1>5, <3>2, ManagedBit
    <3>. QED BY <1>0, <1>3, <1>4, <3>1, <3>2
  <2>3. TypeOK'
    BY <1>0, <2>1 DEF IInv, TypeOK, Critical
  <2>4. MutualExclusion'
    BY <1>0, <2>1 DEF IInv, TypeOK, MutualExclusion, InCS, Critical
  <2>5. (\A q \in Proc : CallState(q))'
    BY <1>0, <1>1, <1>2, <2>1
    DEF IInv, TypeOK, CallState, Freeing, Scanned, PastEnd
  <2>6. FreesDistinct'
    BY <1>0, <2>1 DEF IInv, TypeOK, FreesDistinct, Freeing
  <2>7. Counted'
    BY <1>0, <1>1, <2>1 DEF IInv, TypeOK, Counted
  <2>8. AbandonedOnlyWhenExhausted'
    BY <1>1, <1>2, <2>2 DEF AbandonedOnlyWhenExhausted
  <2>. QED BY <1>1, <2>3, <2>4, <2>5, <2>6, <2>7, <2>8 DEF IInv
<1>6. CASE pmm_get_page(page[p]) /\ ~PastEnd(page[p] + 1)
  <2>1. pc' = pc /\ page' = [page EXCEPT ![p] = page[p] + 1]
    BY <1>6 DEF Scan
  <2>2. page[p] + 1 \in Page
    BY <1>0, <1>6, ScanInBounds
  <2>3. TypeOK'
    BY <1>0, <2>1, <2>2 DEF IInv, TypeOK
  <2>4. MutualExclusion'
    BY <1>0, <2>1 DEF IInv, MutualExclusion, InCS
  <2>5. ASSUME NEW m \in Managed, m < page[p] + 1 PROVE m \in Held
    BY <1>0, <1>3, <1>4, <1>6, <2>5, ManagedBit
  <2>6. (\A q \in Proc : CallState(q))'
    <3>1. CallState(p)'
      BY <1>0, <1>1, <1>2, <1>6, <2>1, <2>5
      DEF IInv, TypeOK, CallState, Freeing, Scanned, PastEnd
    <3>2. ASSUME NEW q \in Proc, q # p PROVE CallState(q)'
      BY <1>0, <1>1, <1>2, <2>1, <3>2
      DEF IInv, TypeOK, CallState, Freeing, Scanned, PastEnd
    <3>. QED BY <3>1, <3>2
  <2>7. FreesDistinct'
    BY <1>0, <2>1 DEF IInv, TypeOK, FreesDistinct, Freeing
  <2>8. Counted'
    BY <1>0, <1>1, <2>1 DEF IInv, Counted
  <2>9. AbandonedOnlyWhenExhausted'
    BY <1>0, <1>1, <1>2, <2>1
    DEF IInv, AbandonedOnlyWhenExhausted, Abandoned, InCS
  <2>. QED BY <1>1, <2>3, <2>4, <2>6, <2>7, <2>8, <2>9 DEF IInv
<1>7. CASE ~pmm_get_page(page[p])
  <2>1. pc' = [pc EXCEPT ![p] = "mark"] /\ page' = page
    BY <1>7 DEF Scan
  <2>2. page[p] \in Managed \ Held
    <3>1. page[p] \in BootFree /\ page[p] \notin Held
      BY <1>0, <1>7 DEF IInv, BitmapExact
    <3>2. page[p] # 0
      BY <3>1, PmmAssumption
    <3>. QED BY <1>0, <3>1, <3>2 DEF IInv, CallState, Scanned, Managed
  <2>3. TypeOK'
    BY <1>0, <2>1 DEF IInv, TypeOK, Critical
  <2>4. MutualExclusion'
    BY <1>0, <2>1 DEF IInv, TypeOK, MutualExclusion, InCS, Critical
  <2>5. (\A q \in Proc : CallState(q))'
    BY <1>0, <1>1, <1>2, <2>1, <2>2
    DEF IInv, TypeOK, CallState, Freeing, Scanned, PastEnd
  <2>6. FreesDistinct'
    BY <1>0, <2>1 DEF IInv, TypeOK, FreesDistinct, Freeing
  <2>7. Counted'
    BY <1>0, <1>1, <2>1 DEF IInv, TypeOK, Counted
  <2>8. AbandonedOnlyWhenExhausted'
    BY <1>0, <2>1 DEF IInv, TypeOK, AbandonedOnlyWhenExhausted, Abandoned,
       InCS, Critical
  <2>. QED BY <1>1, <2>3, <2>4, <2>5, <2>6, <2>7, <2>8 DEF IInv
<1>. QED BY <1>5, <1>6, <1>7

\* pmm_mark_page_used, the bit: the page the scan found becomes used and
\* held in one step.
LEMMA MarkIInv ==
    ASSUME IInv, NEW p \in Proc, Mark(p)
    PROVE  IInv'
<1>0. /\ pc[p] = "mark" /\ pmm_mutex = 1 /\ op[p] = "alloc"
      /\ page[p] \in Managed /\ page[p] \notin Held
      /\ UNCHANGED <<pmm_mutex, used_pages, op, page>>
      /\ held' = [held EXCEPT ![p] = @ \cup {page[p]}]
      /\ pmm_bitmap' = pmm_bitmap \cup {page[p]}
      /\ TypeOK
  BY DEF Mark, IInv, MutualExclusion, InCS, Critical, CallState
<1>1. page[p] \in Page /\ page[p] \notin pmm_bitmap
  BY <1>0, ManagedBit, PmmAssumption DEF Managed
<1>2. pc' = [pc EXCEPT ![p] = "count"]
  BY <1>1 DEF Mark, Goto
<1>3. Held' = Held \cup {page[p]}
  BY <1>0, HeldAdd
<1>4. Managed' = Managed
  BY DEF Managed, PastEnd
<1>5. \A q \in Proc : q # p => ~InCS(q)
  BY <1>0 DEF IInv, MutualExclusion, InCS, Critical
<1>6. TypeOK'
  BY <1>0, <1>1, <1>2 DEF TypeOK, Critical
<1>7. MutualExclusion'
  BY <1>0, <1>2 DEF IInv, TypeOK, MutualExclusion, InCS, Critical
<1>8. (\A q \in Proc : CallState(q))'
  <2>1. CallState(p)'
    BY <1>0, <1>2, <1>3 DEF TypeOK, CallState, Freeing
  <2>2. ASSUME NEW q \in Proc, q # p PROVE CallState(q)'
    BY <1>0, <1>2, <1>3, <1>5, <2>2
    DEF IInv, TypeOK, CallState, Freeing, InCS, Critical
  <2>. QED BY <2>1, <2>2
<1>9. FreesDistinct'
  BY <1>0, <1>2 DEF IInv, TypeOK, FreesDistinct, Freeing
<1>10. NoDoubleAllocation'
  BY <1>0, <1>3, <1>4 DEF IInv, TypeOK, NoDoubleAllocation, Held
<1>11. BitmapExact'
  BY <1>0, <1>3 DEF IInv, BitmapExact
<1>12. Counted'
  <2>1. used_pages = BootUsed + Cardinality(Held)
    BY <1>0, <1>5 DEF IInv, Counted, InCS, Critical
  <2>2. Cardinality(Held') = Cardinality(Held) + 1
    BY <1>0, <1>3, HeldFinite, FS_AddElement
  <2>3. Cardinality(Held) \in Nat /\ BootUsed \in Nat
    BY <1>0, HeldFinite, PmmAssumption
  <2>4. \A q \in Proc : q # p => pc'[q] \notin {"count", "uncount"}
    BY <1>0, <1>2, <1>5 DEF TypeOK, InCS, Critical
  <2>. QED BY <1>0, <1>2, <2>1, <2>2, <2>3, <2>4 DEF TypeOK, Counted
<1>13. AbandonedOnlyWhenExhausted'
  BY <1>0, <1>2 DEF TypeOK, AbandonedOnlyWhenExhausted, Abandoned, InCS, Critical
<1>. QED
  BY <1>6, <1>7, <1>8, <1>9, <1>10, <1>11, <1>12, <1>13 DEF IInv

\* pmm_mark_page_used, the counter.
LEMMA CountIInv ==
    ASSUME IInv, NEW p \in Proc, Count(p)
    PROVE  IInv'
<1>0. /\ pc[p] = "count" /\ pmm_mutex = 1
      /\ UNCHANGED <<pmm_mutex, pmm_bitmap, op, page, held>>
      /\ pc' = [pc EXCEPT ![p] = "release"]
      /\ used_pages' = used_pages + 1
      /\ TypeOK
  BY DEF Count, Goto, IInv, MutualExclusion, InCS, Critical
<1>1. Held' = Held /\ Managed' = Managed
  BY <1>0 DEF Held, Managed, PastEnd
<1>2. \A q \in Proc : q # p => ~InCS(q)
  BY <1>0 DEF IInv, MutualExclusion, InCS, Critical
<1>3. TypeOK'
  BY <1>0 DEF TypeOK, Critical
<1>4. MutualExclusion'
  BY <1>0 DEF IInv, TypeOK, MutualExclusion, InCS, Critical
<1>5. (\A q \in Proc : CallState(q))'
  BY <1>0, <1>1 DEF IInv, TypeOK, CallState, Freeing, Scanned, PastEnd
<1>6. FreesDistinct'
  BY <1>0 DEF IInv, TypeOK, FreesDistinct, Freeing
<1>7. NoDoubleAllocation' /\ BitmapExact'
  BY <1>0, <1>1 DEF IInv, NoDoubleAllocation, BitmapExact
<1>8. Counted'
  <2>1. used_pages = BootUsed + Cardinality(Held) - 1
    BY <1>0 DEF IInv, Counted
  <2>2. Cardinality(Held) \in Nat /\ BootUsed \in Nat
    BY <1>0, HeldFinite, PmmAssumption
  <2>3. \A q \in Proc : pc'[q] \notin {"count", "uncount"}
    BY <1>0, <1>2 DEF TypeOK, InCS, Critical
  <2>. QED BY <1>0, <1>1, <2>1, <2>2, <2>3 DEF Counted
<1>9. AbandonedOnlyWhenExhausted'
  BY <1>0 DEF TypeOK, AbandonedOnlyWhenExhausted, Abandoned, InCS, Critical
<1>. QED BY <1>3, <1>4, <1>5, <1>6, <1>7, <1>8, <1>9 DEF IInv

\* The freed page was held, so its bit was set; no other call is freeing it,
\* and nobody is scanning while it comes back.
LEMMA ClearIInv ==
    ASSUME IInv, NEW p \in Proc, Clear(p)
    PROVE  IInv'
<1>0. /\ pc[p] = "clear" /\ pmm_mutex = 1 /\ op[p] = "free"
      /\ page[p] \in Held /\ Freeing(p)
      /\ UNCHANGED <<pmm_mutex, used_pages, op, page>>
      /\ held' = [q \in Proc |-> held[q] \ {page[p]}]
      /\ pmm_bitmap' = pmm_bitmap \ {page[p]}
      /\ TypeOK
  BY DEF Clear, IInv, MutualExclusion, InCS, Critical, CallState, Freeing
<1>1. page[p] \in pmm_bitmap /\ page[p] \in BootFree
  BY <1>0 DEF IInv, BitmapExact, NoDoubleAllocation, Managed
<1>2. pc' = [pc EXCEPT ![p] = "uncount"]
  BY <1>1 DEF Clear, Goto
<1>3. Held' = Held \ {page[p]}
  BY <1>0, HeldRemove
<1>4. Managed' = Managed
  BY DEF Managed, PastEnd
<1>5. \A q \in Proc : q # p => ~InCS(q)
  BY <1>0 DEF IInv, MutualExclusion, InCS, Critical
<1>6. TypeOK'
  BY <1>0, <1>2 DEF TypeOK, Critical
<1>7. MutualExclusion'
  BY <1>0, <1>2 DEF IInv, TypeOK, MutualExclusion, InCS, Critical
<1>8. (\A q \in Proc : CallState(q))'
  <2>1. CallState(p)'
    BY <1>0, <1>2 DEF TypeOK, CallState, Freeing
  <2>2. ASSUME NEW q \in Proc, q # p PROVE CallState(q)'
    <3>1. Freeing(q) => page[q] \in Held /\ page[q] # page[p]
      BY <1>0, <2>2 DEF IInv, CallState, FreesDistinct
    <3>. QED
      BY <1>0, <1>2, <1>3, <1>5, <2>2, <3>1
      DEF IInv, TypeOK, CallState, Freeing, InCS, Critical
  <2>. QED BY <2>1, <2>2
<1>9. FreesDistinct'
  BY <1>0, <1>2 DEF IInv, TypeOK, FreesDistinct, Freeing
<1>10. NoDoubleAllocation'
  BY <1>0, <1>3, <1>4 DEF IInv, TypeOK, NoDoubleAllocation
<1>11. BitmapExact'
  BY <1>0, <1>1, <1>3 DEF IInv, BitmapExact
<1>12. Counted'
  <2>1. used_pages = BootUsed + Cardinality(Held)
    BY <1>0, <1>5 DEF IInv, Counted, InCS, Critical
  <2>2. Cardinality(Held') = Cardinality(Held) - 1
    BY <1>0, <1>3, HeldFinite, FS_RemoveElement
  <2>3. Cardinality(Held) \in Nat /\ BootUsed \in Nat
    BY <1>0, HeldFinite, PmmAssumption
  <2>4. \A q \in Proc : q # p => pc'[q] \notin {"count", "uncount"}
    BY <1>0, <1>2, <1>5 DEF TypeOK, InCS, Critical
  <2>. QED BY <1>0, <1>2, <2>1, <2>2, <2>3, <2>4 DEF TypeOK, Counted
<1>13. AbandonedOnlyWhenExhausted'
  BY <1>0, <1>2 DEF TypeOK, AbandonedOnlyWhenExhausted, Abandoned, InCS, Critical
<1>. QED
  BY <1>6, <1>7, <1>8, <1>9, <1>10, <1>11, <1>12, <1>13 DEF IInv

\* pmm_mark_page_free, the counter.
LEMMA UncountIInv ==
    ASSUME IInv, NEW p \in Proc, Uncount(p)
    PROVE  IInv'
<1>0. /\ pc[p] = "uncount" /\ pmm_mutex = 1
      /\ UNCHANGED <<pmm_mutex, pmm_bitmap, op, page, held>>
      /\ pc' = [pc EXCEPT ![p] = "release"]
      /\ used_pages' = used_pages - 1
      /\ TypeOK
  BY DEF Uncount, Goto, IInv, MutualExclusion, InCS, Critical
<1>1. Held' = Held /\ Managed' = Managed
  BY <1>0 DEF Held, Managed, PastEnd
<1>2. \A q \in Proc : q # p => ~InCS(q)
  BY <1>0 DEF IInv, MutualExclusion, InCS, Critical
<1>3. TypeOK'
  BY <1>0 DEF TypeOK, Critical
<1>4. MutualExclusion'
  BY <1>0 DEF IInv, TypeOK, MutualExclusion, InCS, Critical
<1>5. (\A q \in Proc : CallState(q))'
  BY <1>0, <1>1 DEF IInv, TypeOK, CallState, Freeing, Scanned, PastEnd
<1>6. FreesDistinct'
  BY <1>0 DEF IInv, TypeOK, FreesDistinct, Freeing
<1>7. NoDoubleAllocation' /\ BitmapExact'
  BY <1>0, <1>1 DEF IInv, NoDoubleAllocation, BitmapExact
<1>8. Counted'
  <2>1. used_pages = BootUsed + Cardinality(Held) + 1
    BY <1>0 DEF IInv, Counted
  <2>2. Cardinality(Held) \in Nat /\ BootUsed \in Nat
    BY <1>0, HeldFinite, PmmAssumption
  <2>3. \A q \in Proc : pc'[q] \notin {"count", "uncount"}
    BY <1>0, <1>2 DEF TypeOK, InCS, Critical
  <2>. QED BY <1>0, <1>1, <2>1, <2>2, <2>3 DEF Counted
<1>9. AbandonedOnlyWhenExhausted'
  BY <1>0 DEF TypeOK, AbandonedOnlyWhenExhausted, Abandoned, InCS, Critical
<1>. QED BY <1>3, <1>4, <1>5, <1>6, <1>7, <1>8, <1>9 DEF IInv

-----------------------------------------------------------------------------
(* The invariant of the specification, and what follows from it.           *)

\* IInv holds in every reachable state of pmm.c's allocator.
THEOREM Inductive == Spec => []IInv
<1>1. IInv /\ [Next]_vars => IInv'
  <2>. SUFFICES ASSUME IInv, [Next]_vars PROVE IInv'
    OBVIOUS
  <2>1. ASSUME NEW p \in Proc, AllocCall(p) \/ FreeCall(p) \/ Step(p)
        PROVE  IInv'
    BY <2>1, AllocCallIInv, FreeCallIInv, TestIInv, SetIInv, ReleaseIInv,
       ScanIInv, MarkIInv, CountIInv, ClearIInv, UncountIInv DEF Step
  <2>2. CASE UNCHANGED vars
    <3>1. UNCHANGED <<pmm_bitmap, used_pages, held>>
      BY <2>2 DEF vars
    <3>2. Held' = Held /\ NoDoubleAllocation' /\ BitmapExact'
      BY <3>1, MemoryUntouched
    <3>. QED
      BY <2>2, <3>2 DEF vars, IInv, TypeOK, MutualExclusion, InCS, CallState,
         Scanned, Freeing, FreesDistinct, Counted, Managed, PastEnd,
         AbandonedOnlyWhenExhausted, Abandoned
  <2>. QED BY <2>1, <2>2 DEF Next
<1>. QED BY <1>1, InitIInv, PTL DEF Spec

\* TypeCorrect: the calls of pmm.c keep their variables in range; in
\* particular the scan never leaves the bitmap.
THEOREM TypeCorrect == Spec => []TypeOK
<1>1. IInv => TypeOK
  BY DEF IInv
<1>. QED BY <1>1, Inductive, PTL

\* LockSafe: acquire and release of cpu.asm admit one CPU at a time into the
\* critical sections of pmm.c, for any number of CPUs.
THEOREM LockSafe == Spec => []MutualExclusion
<1>1. IInv => MutualExclusion
  BY DEF IInv
<1>. QED BY <1>1, Inductive, PTL

\* NeverTwice: pmm_alloc_page never hands a page to two callers, nor memory
\* that pmm_init did not leave free.
THEOREM NeverTwice == Spec => []NoDoubleAllocation
<1>1. IInv => NoDoubleAllocation
  BY DEF IInv
<1>. QED BY <1>1, Inductive, PTL

\* BitmapTrue: the bitmap always says exactly which pages are out.
THEOREM BitmapTrue == Spec => []BitmapExact
<1>1. IInv => BitmapExact
  BY DEF IInv
<1>. QED BY <1>1, Inductive, PTL

\* UsedPagesTrue: used_pages agrees with the bitmap whenever no update is
\* under way, and never falls below its boot value.
THEOREM UsedPagesTrue == Spec => []Accounting
<1>1. IInv => Accounting
  <2>. SUFFICES ASSUME IInv PROVE Accounting
    OBVIOUS
  <2>1. Cardinality(Held) \in Nat /\ BootUsed \in Nat /\ IsFiniteSet(Held)
    BY HeldFinite, PmmAssumption DEF IInv
  <2>2. ASSUME NEW p \in Proc, pc[p] = "count" PROVE used_pages >= BootUsed
    <3>1. Cardinality(Held) # 0
      BY <2>1, <2>2, FS_EmptySet DEF IInv, CallState
    <3>. QED BY <2>1, <2>2, <3>1 DEF IInv, Counted
  <2>3. ASSUME NEW p \in Proc, pc[p] = "uncount" PROVE used_pages >= BootUsed
    BY <2>1, <2>3 DEF IInv, Counted
  <2>4. ASSUME \A p \in Proc : pc[p] \notin {"count", "uncount"}
        PROVE  used_pages = BootUsed + Cardinality(Held)
    BY <2>4 DEF IInv, Counted
  <2>. QED BY <2>1, <2>2, <2>3, <2>4 DEF Accounting
<1>. QED BY <1>1, Inductive, PTL

\* LostLockMeansExhausted: pmm_alloc_page returns NULL, and keeps the lock,
\* only when every page its scan can return is out.
THEOREM LostLockMeansExhausted == Spec => []AbandonedOnlyWhenExhausted
<1>1. IInv => AbandonedOnlyWhenExhausted
  BY DEF IInv
<1>. QED BY <1>1, Inductive, PTL

-----------------------------------------------------------------------------
(* Refinement.                                                             *)

\* The set of pages that are out is the same in both specifications.
LEMMA SameOut == Alloc!Out = Held
BY DEF Alloc!Out, Held

\* Implements: pmm_alloc_page and pmm_free_page implement the abstract page
\* allocator: a step of the lock, of the scan or of the counter is invisible
\* to it, the bitmap updates are its Allocate and Return, and a scan that
\* reaches the end is its Fail.
THEOREM Implements == Spec => RefinesAllocator
<1>1. Init => Alloc!Init
  BY DEF Init, Alloc!Init, Abandoned
<1>2. IInv /\ IInv' /\ [Next]_vars => [Alloc!Next]_(Alloc!vars)
  <2>. SUFFICES ASSUME IInv, IInv', [Next]_vars
                PROVE  Alloc!Next \/ (held' = held /\ Abandoned' = Abandoned)
    BY DEF Alloc!vars
  <2>0. TypeOK /\ MutualExclusion
    BY DEF IInv
  <2>1. ASSUME NEW p \in Proc, AllocCall(p) \/ FreeCall(p) \/ Test(p)
        PROVE  held' = held /\ Abandoned' = Abandoned
    BY <2>0, <2>1 DEF AllocCall, FreeCall, Test, Goto, TypeOK, Abandoned, InCS,
       Critical
  <2>2. ASSUME NEW p \in Proc, Set(p)
        PROVE  held' = held /\ Abandoned' = Abandoned
    BY <2>0, <2>2 DEF Set, Goto, AfterAcquire, TypeOK, Abandoned, InCS, Critical
  <2>3. ASSUME NEW p \in Proc, Release(p)
        PROVE  held' = held /\ Abandoned' = Abandoned
    BY <2>0, <2>3 DEF Release, Goto, TypeOK, Abandoned, InCS, Critical
  <2>4. ASSUME NEW p \in Proc, Count(p) \/ Uncount(p)
        PROVE  held' = held /\ Abandoned' = Abandoned
    BY <2>0, <2>4 DEF Count, Uncount, Goto, TypeOK, Abandoned, InCS, Critical
  <2>5. ASSUME NEW p \in Proc, Mark(p) PROVE Alloc!Allocate(p)
    <3>1. ~Abandoned /\ ~Abandoned'
      BY <2>0, <2>5 DEF Mark, Goto, TypeOK, Abandoned, InCS, Critical
    <3>2. page[p] \in Managed \ Held
      BY <2>5 DEF Mark, IInv, CallState
    <3>3. Abandoned' = Abandoned
      BY <3>1 DEF Abandoned
    <3>4. held' = [held EXCEPT ![p] = @ \cup {page[p]}]
      BY <2>5 DEF Mark
    <3>5. page[p] \in Managed \ Alloc!Out
      BY <3>2, SameOut
    <3>. QED BY <3>1, <3>3, <3>4, <3>5, Zenon DEF Alloc!Allocate
  <2>6. ASSUME NEW p \in Proc, Clear(p) PROVE Alloc!Return
    <3>1. ~Abandoned /\ ~Abandoned'
      BY <2>0, <2>6 DEF Clear, Goto, TypeOK, Abandoned, InCS, Critical
    <3>2. page[p] \in Held
      BY <2>6 DEF Clear, IInv, CallState, Freeing
    <3>3. Abandoned' = Abandoned
      BY <3>1 DEF Abandoned
    <3>4. held' = [q \in Proc |-> held[q] \ {page[p]}]
      BY <2>6 DEF Clear
    <3>5. page[p] \in Alloc!Out
      BY <3>2, SameOut
    <3>. QED BY <3>1, <3>3, <3>4, <3>5, Zenon DEF Alloc!Return
  <2>7. ASSUME NEW p \in Proc, Scan(p)
        PROVE  Alloc!Next \/ (held' = held /\ Abandoned' = Abandoned)
    <3>1. ~Abandoned /\ held' = held
      BY <2>0, <2>7 DEF Scan, Abandoned, InCS, Critical
    <3>2. CASE Abandoned'
      <4>1. Managed \subseteq Held
        BY <3>1, <3>2 DEF IInv, AbandonedOnlyWhenExhausted, Managed, Held,
           PastEnd
      <4>2. Alloc!Fail
        <5>1. Managed \subseteq Alloc!Out
          BY <4>1, SameOut
        <5>2. Abandoned' = TRUE
          BY <3>2, Zenon
        <5>. QED BY <3>1, <5>1, <5>2, Zenon DEF Alloc!Fail
      <4>. QED BY <4>2 DEF Alloc!Next
    <3>3. CASE ~Abandoned'
      <4>1. Abandoned' = Abandoned
        BY <3>1, <3>3 DEF Abandoned
      <4>. QED BY <3>1, <4>1
    <3>. QED BY <3>2, <3>3
  <2>8. CASE UNCHANGED vars
    BY <2>8 DEF vars, Abandoned, InCS
  <2>. QED
    BY <2>1, <2>2, <2>3, <2>4, <2>5, <2>6, <2>7, <2>8
    DEF Next, Step, Alloc!Next
<1>. QED BY <1>1, <1>2, Inductive, PTL DEF Spec, RefinesAllocator, Alloc!Spec

=============================================================================
