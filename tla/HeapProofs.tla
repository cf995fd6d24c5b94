----------------------------- MODULE HeapProofs -----------------------------
(***************************************************************************)
(* Proofs about Heap for any number of contexts, any memory, any page size *)
(* and any sizes of requests, with callers that never make a block smaller *)
(* (the heap_shrink run shows what happens to those that do).              *)
(***************************************************************************)
EXTENDS Heap, SequenceTheorems, WellFoundedInduction, TLAPS

-----------------------------------------------------------------------------
(* The inductive invariant.                                                *)

\* Steps of kmalloc and krealloc that hold heap_mutex, and steps that hold
\* vmm_mutex. A context that hangs in vmm_map_page keeps both.
HeapHeld == {"check", "find", "vmm", "frame", "walk", "vmm_out", "vmm_null", "clear",
             "heap_out", "null", "hung"}
VmmHeld == {"frame", "walk", "vmm_out", "vmm_null", "put", "unmap", "free_out", "hung"}

\* Steps at which `n` is a request; the others of kfree, where it counts pages.
Request == HeapHeld \cup {"heap", "fill", "copy"}
Releasing == {"free_vmm", "put", "unmap"}
Pc == Request \cup Releasing \cup {"idle", "free", "free_out"}

Values == {Zero} \cup {Data(v) : v \in VPage}

Local == [n : Nat, ptr : Nat, i : Nat, phys : Phys \cup {0}, old : VPage \cup {-1}]
Block == [n : Nat, data : Seq(Values)]

Types ==
    /\ TypeOK
    /\ pc \in [Proc -> Pc]
    /\ loc \in [Proc -> Local]
    /\ live \in [VPage -> Block]
    /\ mem = [f \in Phys |-> mem[f]]
    /\ \A p \in Proc : pc[p] \in Request => loc[p].n \in Sizes
    /\ \A v \in Live : live[v].n \in Sizes /\ Len(live[v].data) = live[v].n

Locked ==
    /\ \A p \in Proc : pc[p] \in HeapHeld => heap_mutex = 1
    /\ \A p \in Proc : pc[p] \in VmmHeld => vmm_mutex = 1
    /\ \A p, q \in Proc : pc[p] \in HeapHeld /\ pc[q] \in HeapHeld => p = q
    /\ \A p, q \in Proc : pc[p] \in VmmHeld /\ pc[q] \in VmmHeld => p = q

\* The page that a context is about to map has no other use; one that it is
\* about to unmap is with the page allocator, or with who took it since. No
\* page is lost.
Frames ==
    /\ NoAlias
    /\ free \cap raw = {}
    /\ \A p \in Proc : pc[p] = "walk" =>
          /\ loc[p].phys \in Phys \ (free \cup raw)
          /\ \A t \in Table : table[t] # loc[p].phys
          /\ \A v \in VPage : pte[v] # loc[p].phys
    /\ \A p \in Proc : pc[p] = "unmap" =>
          Mapped(Target(p)) /\ pte[Target(p)] \in free \cup raw
    /\ \A f \in Phys :
          \/ f \in free \cup raw
          \/ \E t \in Table : table[t] = f
          \/ \E v \in VPage : pte[v] = f
          \/ \E p \in Proc : pc[p] \in {"walk", "hung"} /\ loc[p].phys = f

\* The virtual pages of a block; those that belong to a call, because it has
\* mapped them and has yet to return them, or has yet to unmap them; and those
\* that vmm_find has found free for it.
Pages(v) == v..(v + PagesOf(live[v].n) - 1)
Has(p) ==
    IF pc[p] \in {"frame", "walk", "vmm_out", "clear", "heap_out"}
    THEN loc[p].ptr..(loc[p].ptr + loc[p].i - 1)
    ELSE IF pc[p] \in Releasing THEN Target(p)..(loc[p].ptr + loc[p].n - 1)
    ELSE {}
Seen(p) ==
    IF pc[p] = "find" THEN loc[p].ptr..(loc[p].ptr + loc[p].i - 1)
    ELSE IF pc[p] \in {"vmm", "frame", "walk"}
    THEN Target(p)..(loc[p].ptr + PagesOf(loc[p].n) - 1)
    ELSE {}

\* Virtual memory is divided among blocks and calls.
Space ==
    /\ \A v \in Live : \A w \in Pages(v) : Mapped(w)
    /\ \A p \in Proc : \A w \in Has(p) : Mapped(w)
    /\ \A p \in Proc : \A w \in Seen(p) : w \in VPage /\ ~Mapped(w)
    /\ \A u, v \in Live : u # v => Pages(u) \cap Pages(v) = {}
    /\ \A v \in Live, p \in Proc : Pages(v) \cap Has(p) = {}
    /\ \A p, q \in Proc : p # q => Has(p) \cap Has(q) = {}
    /\ ~stuck => \A w \in VPage : Mapped(w) =>
          (\E v \in Live : w \in Pages(v)) \/ (\E p \in Proc : w \in Has(p))
    /\ \A p \in Proc :
          /\ pc[p] = "find" => loc[p].i < PagesOf(loc[p].n)
          /\ pc[p] = "vmm" => loc[p].i = 0
          /\ pc[p] \in {"frame", "walk"} => loc[p].i < PagesOf(loc[p].n)
          /\ pc[p] \in {"vmm_out", "clear", "heap_out"} => loc[p].i = PagesOf(loc[p].n)
          /\ pc[p] \in Releasing => loc[p].i < loc[p].n

\* The blocks that a call works on: it is the only one, and they are alive.
Claim(p) ==
    {v \in VPage : \/ pc[p] \in Request \cup {"free"} /\ loc[p].old = v
                   \/ pc[p] \in {"fill", "copy"} /\ loc[p].ptr = v}

Claims ==
    /\ \A p \in Proc : Claim(p) \subseteq Live
    /\ \A p, q \in Proc : p # q => Claim(p) \cap Claim(q) = {}
    /\ \A p \in Proc :
          /\ pc[p] \in Request /\ loc[p].old # -1 => live[loc[p].old].n <= loc[p].n
          /\ pc[p] \in {"fill", "copy"} =>
                loc[p].ptr \in VPage /\ live[loc[p].ptr].n = loc[p].n
          /\ pc[p] = "fill" => loc[p].old = -1
          /\ pc[p] = "copy" => loc[p].old \in VPage \ {loc[p].ptr}
          /\ pc[p] = "free" => loc[p].ptr = loc[p].old /\ loc[p].old \in VPage

\* Memory holds what the callers put there, and zeros in a new block.
Contents ==
    /\ \A v \in Live : HeaderTrue(v)
    /\ \A v \in Live : \A k \in 1..live[v].n : Load(v * PageUnits + k) = live[v].data[k]
    /\ \A p \in Proc : pc[p] = "heap_out" =>
          /\ Load(loc[p].ptr * PageUnits) = Header(PagesOf(loc[p].n), loc[p].n)
          /\ \A k \in 1..loc[p].n : Load(loc[p].ptr * PageUnits + k) = Zero
    /\ \A p \in Proc : pc[p] = "copy" => live[loc[p].ptr].data = Zeros(loc[p].n)

IInv == Types /\ Locked /\ Frames /\ Space /\ Claims /\ Contents

-----------------------------------------------------------------------------
(* Numbers and sequences.                                                  *)

\* The page allocator's scan and the walk through the page tables find something: a set of
\* numbers that is not empty has a least one.
LEMMA LeastIsMember ==
    ASSUME NEW S \in SUBSET Nat, S # {}
    PROVE  Min(S) \in S
<1>. DEFINE R == {s \in Nat \X Nat : s[1] < s[2]}
<1>1. IsWellFoundedOn(R, Nat)
  BY NatLessThanWellFounded, Zenon DEF OpToRel
<1>. HIDE DEF R
<1>2. PICK x \in S : \A y \in S : ~(<<y, x>> \in R)
  BY <1>1, WFMin
<1>3. ASSUME NEW y \in S PROVE x <= y
  <2>1. ~(<<y, x>> \in R)
    BY <1>2
  <2>. QED BY <2>1 DEF R
<1>. QED BY <1>3 DEF Min

\* A function on 1..n is a sequence of length n.
LEMMA FunctionIsSeq ==
    ASSUME NEW n \in Nat, NEW S, NEW s \in [1..n -> S]
    PROVE  s \in Seq(S) /\ Len(s) = n
<1>1. s \in Seq(S)
  BY SeqDef
<1>. QED BY <1>1, LenProperties

\* The quotient and the remainder of an address: its page and its unit.
LEMMA Division ==
    ASSUME NEW a \in Nat
    PROVE  /\ a \div PageUnits \in Nat /\ a % PageUnits \in Unit
           /\ a = PageUnits * (a \div PageUnits) + (a % PageUnits)
<1>1. PageUnits \in Nat \ {0}
  BY HeapAssumption
<1>. QED BY <1>1 DEF Unit

\* A quotient and a remainder determine a number, and are determined by it.
LEMMA DivisionUnique ==
    ASSUME NEW a \in Nat, NEW q \in Nat, NEW r \in Unit, a = PageUnits * q + r
    PROVE  a \div PageUnits = q /\ a % PageUnits = r
<1>1. PageUnits \in Nat \ {0} /\ r \in 0..(PageUnits - 1)
  BY HeapAssumption DEF Unit
<1>. DEFINE x == a \div PageUnits
           y == a % PageUnits
<1>2. x \in Nat /\ y \in 0..(PageUnits - 1) /\ a = PageUnits * x + y
  BY Division DEF Unit
<1>. HIDE DEF x, y
<1>3. x = q
  <2>1. CASE x < q
    <3>1. PageUnits * q >= PageUnits * (x + 1)
      BY <1>1, <1>2, <2>1
    <3>. QED BY <1>1, <1>2, <3>1
  <2>2. CASE x > q
    <3>1. PageUnits * x >= PageUnits * (q + 1)
      BY <1>1, <1>2, <2>2
    <3>. QED BY <1>1, <1>2, <3>1
  <2>. QED BY <1>2, <2>1, <2>2
<1>. QED BY <1>1, <1>2, <1>3 DEF x, y

\* Where unit k of a block at virtual page v is.
LEMMA UnitOfBlock ==
    ASSUME NEW v \in Nat, NEW k \in Nat
    PROVE  /\ v * PageUnits + k \in Nat
           /\ (v * PageUnits + k) \div PageUnits = v + (k \div PageUnits)
           /\ (v * PageUnits + k) % PageUnits = k % PageUnits
<1>1. PageUnits \in Nat \ {0}
  BY HeapAssumption
<1>2. PICK q, r : q = k \div PageUnits /\ r = k % PageUnits
  OBVIOUS
<1>3. q \in Nat /\ r \in Unit /\ k = PageUnits * q + r
  BY <1>2, Division
<1>4. v * PageUnits + k \in Nat /\ v + q \in Nat
  BY <1>1, <1>3
<1>5. v * PageUnits + k = PageUnits * (v + q) + r
  BY <1>1, <1>3 DEF Unit
<1>. QED BY <1>2, <1>3, <1>4, <1>5, DivisionUnique

\* The pages of a block of n units are just enough for its header and its data.
LEMMA PagesEnough ==
    ASSUME NEW n \in Nat
    PROVE  /\ PagesOf(n) \in Nat \ {0}
           /\ \A k \in 0..n : k \div PageUnits \in 0..(PagesOf(n) - 1)
<1>1. PageUnits \in Nat \ {0}
  BY HeapAssumption
<1>2. PICK q, r : q = n \div PageUnits /\ r = n % PageUnits
  OBVIOUS
<1>3. q \in Nat /\ r \in Unit /\ n = PageUnits * q + r
  BY <1>2, Division
<1>4. n + 1 + PageUnits - 1 \in Nat /\ n + 1 + PageUnits - 1 = PageUnits * (q + 1) + r
  BY <1>1, <1>3 DEF Unit
<1>5. PagesOf(n) = q + 1
  BY <1>3, <1>4, DivisionUnique DEF PagesOf
<1>6. ASSUME NEW k \in 0..n PROVE k \div PageUnits \in 0..q
  <2>1. PICK a, b : a = k \div PageUnits /\ b = k % PageUnits
    OBVIOUS
  <2>2. a \in Nat /\ b \in Unit /\ k = PageUnits * a + b
    BY <2>1, Division
  <2>3. CASE a > q
    <3>1. PageUnits * a >= PageUnits * (q + 1)
      BY <1>1, <1>3, <2>2, <2>3
    <3>. QED BY <1>1, <1>3, <2>2, <3>1 DEF Unit
  <2>. QED BY <1>3, <2>1, <2>2, <2>3
<1>. QED BY <1>3, <1>5, <1>6

\* What a store through the page tables leaves at an address, if no two of the pages G
\* share memory.
LEMMA StoredLoad ==
    ASSUME TypeOK, NEW G \in SUBSET VPage,
           \A v \in G : pte[v] # 0,
           \A v, w \in G : pte[v] = pte[w] => v = w,
           NEW X, NEW vals \in Seq(X), NEW u \in Nat,
           \A k \in 1..Len(vals) : (u + k - 1) \div PageUnits \in G,
           NEW a \in Nat, a \div PageUnits \in G
    PROVE  Stored(u, vals)[pte[a \div PageUnits]][a % PageUnits] =
              IF a \in u..(u + Len(vals) - 1) THEN vals[a - u + 1] ELSE Load(a)
<1>1. PICK f, o : f = pte[a \div PageUnits] /\ o = a % PageUnits
  OBVIOUS
<1>2. f \in Phys /\ o \in Unit /\ Len(vals) \in Nat
  BY <1>1, Division DEF TypeOK
<1>3. PICK hit : hit = {k \in 1..Len(vals) : /\ pte[(u + k - 1) \div PageUnits] = f
                                            /\ (u + k - 1) % PageUnits = o}
  OBVIOUS
<1>4. Stored(u, vals)[f][o] = IF hit = {} THEN mem[f][o] ELSE vals[Max(hit)]
  BY <1>2, <1>3 DEF Stored
<1>5. ASSUME NEW k \in hit PROVE k = a - u + 1
  <2>1. k \in 1..Len(vals) /\ u + k - 1 \in Nat
    BY <1>2, <1>3, <1>5
  <2>2. (u + k - 1) \div PageUnits = a \div PageUnits /\ (u + k - 1) % PageUnits = a % PageUnits
    BY <1>1, <1>3, <1>5, <2>1
  <2>3. u + k - 1 = a
    <3>1. PICK b \in Nat : b = u + k - 1
      BY <2>1
    <3>2. b = PageUnits * (a \div PageUnits) + (a % PageUnits)
      BY <2>2, <3>1, Division
    <3>. QED BY <3>1, <3>2, Division
  <2>. QED BY <1>2, <2>1, <2>3
<1>6. CASE a \in u..(u + Len(vals) - 1)
  <2>1. PICK k : k = a - u + 1
    OBVIOUS
  <2>2. k \in 1..Len(vals) /\ u + k - 1 = a
    BY <1>2, <1>6, <2>1
  <2>3. k \in hit
    BY <1>1, <1>3, <2>2
  <2>4. hit = {k}
    BY <1>5, <2>1, <2>3
  <2>5. Max(hit) = k
    BY <2>2, <2>4 DEF Max
  <2>. QED BY <1>1, <1>4, <1>6, <2>1, <2>4, <2>5
<1>7. CASE a \notin u..(u + Len(vals) - 1)
  <2>1. hit = {}
    <3>1. ASSUME NEW k \in hit PROVE FALSE
      <4>1. k \in 1..Len(vals) /\ k = a - u + 1
        BY <1>3, <1>5, <3>1
      <4>. QED BY <1>2, <1>7, <4>1
    <3>. QED BY <3>1
  <2>. QED BY <1>1, <1>4, <1>7, <2>1 DEF Load
<1>. QED BY <1>6, <1>7

-----------------------------------------------------------------------------
(* The initial state.                                                      *)

\* An empty heap satisfies the inductive invariant.
LEMMA InitIInv == Init => IInv
<1>. SUFFICES ASSUME Init PROVE IInv
  OBVIOUS
<1>1. Live = {} /\ \A v \in VPage : ~Mapped(v)
  BY DEF Init, Live, Mapped
<1>2. \A p \in Proc : pc[p] = "idle"
  BY DEF Init
<1>3. Types
  <2>1. NoBlock \in Block
    BY DEF NoBlock, Block
  <2>2. NoLocals \in Local
    BY DEF NoLocals, Local
  <2>3. TypeOK
    BY DEF Init, TypeOK, NoLocals
  <2>. QED
    BY <1>1, <1>2, <2>1, <2>2, <2>3 DEF Init, Types, Pc, Request, HeapHeld
<1>4. Locked
  BY <1>2 DEF Locked, HeapHeld, VmmHeld
<1>5. Frames
  BY <1>1, <1>2 DEF Init, Frames, NoAlias
<1>6. Space
  BY <1>1, <1>2 DEF Space, Has, Seen, Releasing
<1>7. Claims
  BY <1>2 DEF Claims, Claim, Request, HeapHeld
<1>8. Contents
  BY <1>1, <1>2 DEF Contents
<1>. QED BY <1>3, <1>4, <1>5, <1>6, <1>7, <1>8 DEF IInv

-----------------------------------------------------------------------------
(* What a step leaves alone.                                               *)

\* Only p moves.
OthersSame(p) == \A q \in Proc : q # p => pc'[q] = pc[q] /\ loc'[q] = loc[q]

\* Every step of a context is its own.
LEMMA StepIsOwn ==
    ASSUME IInv, NEW p \in Proc, Kmalloc(p) \/ Krealloc(p) \/ Kfree(p) \/ Step(p)
    PROVE  OthersSame(p)
<1>1. pc \in [Proc -> Pc] /\ DOMAIN loc = Proc
  BY DEF IInv, Types
<1>2. ASSUME NEW q \in Proc, q # p PROVE pc'[q] = pc[q]
  BY <1>1, <1>2
  DEF Kmalloc, Krealloc, Kfree, Call, Step, HeapAcquire, Check, Find, Found, VmmAcquire, Frame,
      FrameFails, MapTable, MapTableFails, MapPage, VmmRelease, Clear, HeapRelease, ReturnNull,
      Fill, Copy, ReadHeader, Put, Unmap, From, Return
<1>3. ASSUME NEW q \in Proc, q # p PROVE loc'[q] = loc[q]
  BY <1>1, <1>3
  DEF Kmalloc, Krealloc, Kfree, Call, Step, HeapAcquire, Check, Find, Found, VmmAcquire, Frame,
      FrameFails, MapTable, MapTableFails, MapPage, VmmRelease, Clear, HeapRelease, ReturnNull,
      Fill, Copy, ReadHeader, Put, Unmap, From, Return, Set
<1>. QED BY <1>2, <1>3 DEF OthersSame

\* A context that neither maps nor unmaps a page leaves the use of the pages as it is.
LEMMA FramesSame ==
    ASSUME IInv, UNCHANGED <<free, raw, table, pte>>, NEW p \in Proc, OthersSame(p),
           pc[p] \notin {"walk", "unmap", "hung"}, pc'[p] \notin {"walk", "unmap"}
    PROVE  Frames'
<1>1. Dangling' = Dangling
  BY DEF Dangling, Target, OthersSame
<1>2. NoAlias'
  <2>1. \A v : Mapped(v)' = Mapped(v)
    BY DEF Mapped
  <2>. QED BY <1>1, <2>1 DEF IInv, Frames, NoAlias
<1>3. \A q \in Proc : pc'[q] \in {"walk", "unmap"} => pc'[q] = pc[q] /\ loc'[q] = loc[q]
  BY DEF OthersSame
<1>4. \A q \in Proc : pc[q] \in {"walk", "hung"} => pc'[q] = pc[q] /\ loc'[q] = loc[q]
  BY DEF OthersSame
<1>. QED BY <1>2, <1>3, <1>4 DEF IInv, Frames, Mapped, Target

\* Blocks and the pages of calls stay apart when p keeps its pages and finds only free ones.
LEMMA SpaceSame ==
    ASSUME IInv, UNCHANGED pte, Live' = Live, \A v \in VPage : live'[v].n = live[v].n,
           NEW p \in Proc, OthersSame(p), stuck => stuck',
           Has(p)' = Has(p) \/ (stuck' /\ Has(p)' = {}),
           \A w \in Seen(p)' : w \in VPage /\ ~Mapped(w),
           pc'[p] = "find" => loc'[p].i < PagesOf(loc'[p].n),
           pc'[p] = "vmm" => loc'[p].i = 0,
           pc'[p] \in {"frame", "walk"} => loc'[p].i < PagesOf(loc'[p].n),
           pc'[p] \in {"vmm_out", "clear", "heap_out"} => loc'[p].i = PagesOf(loc'[p].n),
           pc'[p] \in Releasing => loc'[p].i < loc'[p].n
    PROVE  Space'
<1>1. Live' = Live /\ (\A v \in Live : Pages(v)' = Pages(v)) /\ \A v : Mapped(v)' = Mapped(v)
  BY DEF Live, Pages, Mapped
<1>2. \A q \in Proc : q # p => Has(q)' = Has(q) /\ Seen(q)' = Seen(q)
  BY DEF OthersSame, Has, Seen, Target
<1>3. \A q \in Proc : q # p =>
         /\ pc'[q] = "find" => loc'[q].i < PagesOf(loc'[q].n)
         /\ pc'[q] = "vmm" => loc'[q].i = 0
         /\ pc'[q] \in {"frame", "walk"} => loc'[q].i < PagesOf(loc'[q].n)
         /\ pc'[q] \in {"vmm_out", "clear", "heap_out"} => loc'[q].i = PagesOf(loc'[q].n)
         /\ pc'[q] \in Releasing => loc'[q].i < loc'[q].n
  BY DEF OthersSame, IInv, Space
<1>4. Releasing' = Releasing
  BY DEF Releasing
<1>5. /\ \A v \in Live' : \A w \in Pages(v)' : Mapped(w)'
      /\ \A u, v \in Live' : u # v => Pages(u)' \cap Pages(v)' = {}
  BY <1>1 DEF IInv, Space
<1>6. /\ \A q \in Proc : \A w \in Has(q)' : Mapped(w)'
      /\ \A v \in Live', q \in Proc : Pages(v)' \cap Has(q)' = {}
      /\ \A q, r \in Proc : q # r => Has(q)' \cap Has(r)' = {}
  <2>1. \A q \in Proc : Has(q)' = Has(q) \/ Has(q)' = {}
    BY <1>2
  <2>. QED BY <1>1, <2>1 DEF IInv, Space
<1>7. \A q \in Proc : \A w \in Seen(q)' : w \in VPage /\ ~Mapped(w)'
  BY <1>1, <1>2 DEF IInv, Space
<1>8. ~stuck' => \A w \in VPage : Mapped(w)' =>
         (\E v \in Live' : w \in Pages(v)') \/ (\E q \in Proc : w \in Has(q)')
  <2>1. ~stuck' => ~stuck /\ \A q \in Proc : Has(q)' = Has(q)
    BY <1>2
  <2>. QED BY <1>1, <2>1 DEF IInv, Space
<1>. QED BY <1>3, <1>4, <1>5, <1>6, <1>7, <1>8 DEF Space, VPage

\* Blocks that nobody gives up stay claimed by the same calls.
LEMMA ClaimsSame ==
    ASSUME IInv, Live' = Live, \A v \in VPage : live'[v].n = live[v].n,
           NEW p \in Proc, OthersSame(p), Claim(p)' \subseteq Claim(p),
           pc'[p] \in Request /\ loc'[p].old # -1 => live[loc'[p].old].n <= loc'[p].n,
           pc'[p] \in {"fill", "copy"} =>
               loc'[p].ptr \in VPage /\ live[loc'[p].ptr].n = loc'[p].n,
           pc'[p] = "fill" => loc'[p].old = -1,
           pc'[p] = "copy" => loc'[p].old \in VPage \ {loc'[p].ptr},
           pc'[p] = "free" => loc'[p].ptr = loc'[p].old /\ loc'[p].old \in VPage,
           loc'[p].old \in VPage \cup {-1}
    PROVE  Claims'
<1>1. \A q \in Proc : Claim(q)' \subseteq Claim(q)
  BY DEF OthersSame, Claim
<1>2. Request' = Request /\ VPage' = VPage
  BY DEF Request, HeapHeld, VPage
<1>3. /\ \A q \in Proc : Claim(q)' \subseteq Live'
      /\ \A q, r \in Proc : q # r => Claim(q)' \cap Claim(r)' = {}
  BY <1>1 DEF IInv, Claims
<1>4. ASSUME NEW q \in Proc
      PROVE  /\ pc'[q] \in Request /\ loc'[q].old # -1 => live'[loc'[q].old].n <= loc'[q].n
             /\ pc'[q] \in {"fill", "copy"} =>
                   loc'[q].ptr \in VPage /\ live'[loc'[q].ptr].n = loc'[q].n
             /\ pc'[q] = "fill" => loc'[q].old = -1
             /\ pc'[q] = "copy" => loc'[q].old \in VPage \ {loc'[q].ptr}
             /\ pc'[q] = "free" => loc'[q].ptr = loc'[q].old /\ loc'[q].old \in VPage
  <2>1. CASE q = p
    BY <2>1
  <2>2. CASE q # p
    <3>1. pc'[q] = pc[q] /\ loc'[q] = loc[q] /\ loc[q].old \in VPage \cup {-1}
      BY <2>2 DEF OthersSame, IInv, Types, Local
    <3>. QED BY <3>1 DEF IInv, Claims
  <2>. QED BY <2>1, <2>2
<1>. QED BY <1>2, <1>3, <1>4 DEF Claims

-----------------------------------------------------------------------------
(* Types and locks.                                                        *)

\* The page allocator hands out one of its pages.
LEMMA FrameTaken ==
    ASSUME IInv, TakeFrame
    PROVE  /\ Min(free) \in free /\ Min(free) \in Phys \ {0} /\ free' = free \ {Min(free)}
           /\ ~stuck /\ stuck' = stuck
<1>1. free \in SUBSET Nat /\ free # {} /\ free \subseteq Phys /\ 0 \notin Phys
  BY HeapAssumption DEF IInv, Types, TypeOK, TakeFrame
<1>. QED BY <1>1, LeastIsMember DEF TakeFrame

\* The header of a block that is about to be freed.
LEMMA HeaderRead ==
    ASSUME IInv, NEW p \in Proc, pc[p] = "free"
    PROVE  /\ loc[p].ptr \in Live /\ live[loc[p].ptr].n \in Sizes
           /\ live[loc[p].ptr].n \in Nat
           /\ Load(loc[p].ptr * PageUnits)[1] = PagesOf(live[loc[p].ptr].n)
           /\ Load(loc[p].ptr * PageUnits)[1] \in Nat \ {0}
<1>1. loc[p].ptr \in Claim(p) /\ loc[p].ptr \in Live
  BY DEF IInv, Claims, Claim
<1>2. live[loc[p].ptr].n \in Sizes /\ live[loc[p].ptr].n \in Nat
  BY <1>1, HeapAssumption DEF IInv, Types
<1>3. Load(loc[p].ptr * PageUnits)[1] = PagesOf(live[loc[p].ptr].n)
  BY <1>1 DEF IInv, Contents, HeaderTrue, Header
<1>. QED BY <1>1, <1>2, <1>3, PagesEnough

\* A step of a call keeps its local variables in their types.
LEMMA LocalTypes ==
    ASSUME IInv, NEW p \in Proc, Kmalloc(p) \/ Krealloc(p) \/ Kfree(p) \/ Step(p)
    PROVE  /\ pc' \in [Proc -> Pc] /\ loc' \in [Proc -> Local]
           /\ \A q \in Proc : pc'[q] \in Request => loc'[q].n \in Sizes
<1>. USE DEF IInv, Types
<1>1. pc' \in [Proc -> Pc]
  BY DEF Kmalloc, Krealloc, Kfree, Call, Step, HeapAcquire, Check, Find, Found, VmmAcquire, Frame,
      FrameFails, MapTable, MapTableFails, MapPage, VmmRelease, Clear, HeapRelease, ReturnNull,
      Fill, Copy, ReadHeader, Put, Unmap, From, Return, NextPut, Pc, Request, Releasing, HeapHeld
<1>2. loc \in [Proc -> Local]
  OBVIOUS
<1>3. loc' \in [Proc -> Local]
  <2>1. CASE Kmalloc(p) \/ Krealloc(p) \/ Kfree(p)
    <3>1. Sizes \subseteq Nat /\ Live \subseteq VPage /\ VPage \subseteq Nat
      BY HeapAssumption DEF Live, VPage
    <3>2. CASE Kmalloc(p)
      <4>1. PICK n \in Sizes : loc' = [loc EXCEPT ![p].n = n, ![p].old = -1]
        BY <3>2 DEF Kmalloc
      <4>. QED BY <1>2, <3>1, <4>1 DEF Local
    <3>3. CASE Krealloc(p)
      <4>1. PICK v \in Live, n \in Sizes : loc' = [loc EXCEPT ![p].n = n, ![p].old = v]
        BY <3>3 DEF Krealloc
      <4>. QED BY <1>2, <3>1, <4>1 DEF Local
    <3>4. CASE Kfree(p)
      <4>1. PICK v \in Live : loc' = [loc EXCEPT ![p].ptr = v, ![p].old = v]
        BY <3>4 DEF Kfree
      <4>. QED BY <1>2, <3>1, <4>1 DEF Local
    <3>. QED BY <2>1, <3>2, <3>3, <3>4
  <2>2. CASE HeapAcquire(p) \/ VmmAcquire(p) \/ FrameFails(p) \/ MapTable(p) \/ MapTableFails(p)
               \/ Clear(p) \/ HeapRelease(p)
    BY <1>2, <2>2 DEF HeapAcquire, VmmAcquire, FrameFails, MapTable, MapTableFails, Clear,
       HeapRelease
  <2>3. CASE Check(p) \/ Find(p) \/ Found(p) \/ MapPage(p) \/ Put(p) \/ Unmap(p)
    <3>1. loc[p].ptr \in Nat /\ loc[p].i \in Nat
      BY <1>2 DEF Local
    <3>2. CASE Check(p)
      BY <1>2, <3>2 DEF Check, Local
    <3>3. CASE Find(p)
      <4>1. PICK x \in Nat, y \in Nat : x = loc[p].ptr + 1 /\ y = loc[p].i + 1
        BY <3>1
      <4>2. \/ loc' = [loc EXCEPT ![p].ptr = x, ![p].i = 0]
            \/ loc' = [loc EXCEPT ![p].i = y]
        BY <3>3, <4>1 DEF Find
      <4>3. CASE loc' = [loc EXCEPT ![p].ptr = x, ![p].i = 0]
        BY <1>2, <4>3 DEF Local
      <4>4. CASE loc' = [loc EXCEPT ![p].i = y]
        BY <1>2, <4>4 DEF Local
      <4>. QED BY <4>2, <4>3, <4>4
    <3>4. CASE loc' = loc \/ Set(p, "i", 0) \/ Set(p, "i", loc[p].i + 1)
      <4>1. ASSUME NEW x \in Nat, Set(p, "i", x) PROVE loc' \in [Proc -> Local]
        BY <1>2, <4>1 DEF Set, Local
      <4>. QED BY <1>2, <3>1, <3>4, <4>1
    <3>. QED BY <2>3, <3>2, <3>3, <3>4 DEF Found, MapPage, Put, Unmap
  <2>4. CASE VmmRelease(p) \/ ReturnNull(p) \/ Fill(p)
    <3>1. NoLocals \in Local
      BY DEF NoLocals, Local
    <3>. QED BY <1>2, <2>4, <3>1 DEF VmmRelease, ReturnNull, Fill, Return
  <2>5. CASE Frame(p)
    BY <1>2, <2>5, FrameTaken DEF Frame, Set, Local
  <2>6. CASE Copy(p)
    <3>1. loc[p].old \in VPage /\ loc[p].old \in Nat
      BY <2>6 DEF Copy, From, Claims, VPage
    <3>. QED BY <1>2, <2>6, <3>1 DEF Copy, Set, Local
  <2>7. CASE ReadHeader(p)
    BY <1>2, <2>7, HeaderRead DEF ReadHeader, From, Local
  <2>. QED BY <2>1, <2>2, <2>3, <2>4, <2>5, <2>6, <2>7 DEF Step
<1>4. ASSUME NEW q \in Proc, pc'[q] \in Request PROVE loc'[q].n \in Sizes
  <2>1. CASE q # p
    BY <1>4, <2>1, StepIsOwn DEF OthersSame
  <2>2. CASE q = p
    <3>1. loc[p] \in Local /\ loc'[p] \in Local
      BY <1>2, <1>3
    <3>2. CASE Kmalloc(p) \/ Krealloc(p)
      BY <1>2, <2>2, <3>2 DEF Kmalloc, Krealloc, Local
    <3>3. pc[p] # "idle" /\ pc[p] \in Request => loc'[p].n = loc[p].n \/ pc'[p] = "idle"
      BY <1>2, <3>1
      DEF Kmalloc, Krealloc, Kfree, Call, Step, HeapAcquire, Check, Find, Found, VmmAcquire, Frame,
          FrameFails, MapTable, MapTableFails, MapPage, VmmRelease, Clear, HeapRelease, ReturnNull,
          Fill, Copy, ReadHeader, Put, Unmap, From, Return, Set, Local, Request, HeapHeld
    <3>4. ~Kmalloc(p) /\ ~Krealloc(p) => pc[p] \in Request
      BY <1>4, <2>2, <1>2
      DEF Kfree, Call, Step, HeapAcquire, Check, Find, Found, VmmAcquire, Frame,
          FrameFails, MapTable, MapTableFails, MapPage, VmmRelease, Clear, HeapRelease, ReturnNull,
          Fill, Copy, ReadHeader, Put, Unmap, From, Return, NextPut, Request, HeapHeld
    <3>5. Step(p) => pc[p] # "idle"
      BY DEF Step, HeapAcquire, Check, Find, Found, VmmAcquire, Frame,
          FrameFails, MapTable, MapTableFails, MapPage, VmmRelease, Clear, HeapRelease, ReturnNull,
          Fill, Copy, ReadHeader, Put, Unmap, From, Return, Pc, Request, HeapHeld
    <3>6. Kfree(p) => pc'[p] = "free"
      BY DEF Kfree, Call, From
    <3>. QED BY <1>4, <2>2, <3>2, <3>3, <3>4, <3>5, <3>6 DEF Request, HeapHeld
  <2>. QED BY <2>1, <2>2
<1>. QED BY <1>1, <1>3, <1>4

\* The blocks and the memory keep their types.
LEMMA BlockTypes ==
    ASSUME IInv, NEW p \in Proc, Kmalloc(p) \/ Krealloc(p) \/ Kfree(p) \/ Step(p)
    PROVE  /\ live' \in [VPage -> Block]
           /\ \A v \in Live' : live'[v].n \in Sizes /\ Len(live'[v].data) = live'[v].n
<1>1. /\ live \in [VPage -> Block] /\ loc[p] \in Local /\ loc[p].n \in Nat /\ Sizes \subseteq Nat
      /\ \A v \in Live : live[v].n \in Sizes /\ Len(live[v].data) = live[v].n
      /\ pc[p] \in Request => loc[p].n \in Sizes
  BY HeapAssumption DEF IInv, Types, Local
<1>2. CASE live' = live
  BY <1>1, <1>2 DEF Live
<1>3. CASE HeapRelease(p)
  <2>1. PICK s : s = Zeros(loc[p].n)
    OBVIOUS
  <2>2. s \in [1..loc[p].n -> Values]
    BY <2>1 DEF Zeros, Values
  <2>3. s \in Seq(Values) /\ Len(s) = loc[p].n /\ loc[p].n \in Sizes
    BY <1>1, <1>3, <2>2, FunctionIsSeq DEF HeapRelease, From, Request, HeapHeld
  <2>4. live' = [live EXCEPT ![loc[p].ptr] = [n |-> loc[p].n, data |-> s]]
    BY <1>3, <2>1 DEF HeapRelease
  <2>. QED BY <1>1, <2>3, <2>4 DEF Live, Block
<1>4. ASSUME NEW u \in VPage, NEW s \in [1..loc[p].n -> Values],
             live[u].n = loc[p].n, live' = [live EXCEPT ![u].data = s],
             u \in Live
      PROVE  /\ live' \in [VPage -> Block]
             /\ \A v \in Live' : live'[v].n \in Sizes /\ Len(live'[v].data) = live'[v].n
  <2>1. s \in Seq(Values) /\ Len(s) = loc[p].n
    BY <1>1, FunctionIsSeq
  <2>2. live'[u] = [live[u] EXCEPT !.data = s] /\ \A v \in VPage \ {u} : live'[v] = live[v]
    BY <1>1, <1>4
  <2>3. live'[u].n = loc[p].n /\ live'[u].data = s /\ live'[u] \in Block
    BY <1>1, <1>4, <2>1, <2>2 DEF Block
  <2>4. live' \in [VPage -> Block]
    BY <1>1, <1>4, <2>1 DEF Block
  <2>5. ASSUME NEW v \in Live' PROVE live'[v].n \in Sizes /\ Len(live'[v].data) = live'[v].n
    <3>1. CASE v = u
      BY <1>1, <1>4, <2>1, <2>3, <3>1
    <3>2. CASE v # u
      BY <1>1, <2>2, <2>5, <3>2 DEF Live
    <3>. QED BY <3>1, <3>2
  <2>. QED BY <2>4, <2>5
<1>5. CASE Fill(p)
  <2>1. /\ loc[p].ptr \in VPage /\ loc[p].ptr \in Live /\ live[loc[p].ptr].n = loc[p].n
    BY <1>5 DEF Fill, Return, From, IInv, Claims, Claim
  <2>2. PICK s : s = [k \in 1..loc[p].n |-> Data(loc[p].ptr)]
    OBVIOUS
  <2>3. s \in [1..loc[p].n -> Values]
    BY <2>1, <2>2 DEF Values
  <2>4. live' = [live EXCEPT ![loc[p].ptr].data = s]
    BY <1>5, <2>2 DEF Fill
  <2>. QED BY <1>4, <2>1, <2>3, <2>4
<1>6. CASE Copy(p)
  <2>1. /\ loc[p].ptr \in VPage /\ loc[p].ptr \in Live /\ live[loc[p].ptr].n = loc[p].n
        /\ loc[p].old \in Live /\ loc[p].old \in VPage
    BY <1>6 DEF Copy, From, IInv, Claims, Claim, Request
  <2>2. PICK s : s = Resized(live[loc[p].old].data, loc[p].n)
    OBVIOUS
  <2>3. live[loc[p].old].data \in Seq(Values)
    BY <1>1, <2>1 DEF Block
  <2>4. s \in [1..loc[p].n -> Values]
    <3>1. PICK d \in Seq(Values) : d = live[loc[p].old].data
      BY <2>3
    <3>2. \A k \in 1..loc[p].n : k <= Len(d) => d[k] \in Values
      BY <1>1, <3>1, ElementOfSeq
    <3>. QED BY <2>2, <3>1, <3>2 DEF Resized, Values
  <2>5. live' = [live EXCEPT ![loc[p].ptr].data = s]
    BY <1>6, <2>2 DEF Copy
  <2>. QED BY <1>4, <2>1, <2>4, <2>5
<1>7. CASE ReadHeader(p)
  <2>1. NoBlock \in Block
    BY DEF NoBlock, Block
  <2>2. live' = [live EXCEPT ![loc[p].ptr] = NoBlock]
    BY <1>7 DEF ReadHeader
  <2>. QED BY <1>1, <2>1, <2>2 DEF Live
<1>. QED
  BY <1>2, <1>3, <1>5, <1>6, <1>7
  DEF Kmalloc, Krealloc, Kfree, Call, Step, HeapAcquire, Check, Find, Found, VmmAcquire, Frame,
      FrameFails, MapTable, MapTableFails, MapPage, VmmRelease, Clear, ReturnNull, Put, Unmap

\* Every step of a context keeps the types.
LEMMA TypesStep ==
    ASSUME IInv, NEW p \in Proc, Kmalloc(p) \/ Krealloc(p) \/ Kfree(p) \/ Step(p)
    PROVE  Types'
<1>1. TypeOK /\ pc \in [Proc -> Pc] /\ loc[p].phys \in Phys \cup {0}
  BY DEF IInv, Types, Local
<1>2. TypeOK'
  <2>1. heap_mutex' \in {0, 1} /\ vmm_mutex' \in {0, 1}
    BY <1>1
    DEF TypeOK, locks, Kmalloc, Krealloc, Kfree, Call, Step, HeapAcquire, Check, Find, Found,
        VmmAcquire, Frame, FrameFails, MapTable, MapTableFails, MapPage, VmmRelease, Clear,
        HeapRelease, ReturnNull, Fill, Copy, ReadHeader, Put, Unmap, Released
  <2>2. \A q \in Proc : loc'[q].phys \in Phys \cup {0}
    BY LocalTypes DEF Local
  <2>3. CASE Frame(p)
    BY <1>1, <2>1, <2>2, <2>3, FrameTaken DEF TypeOK, Frame, tables
  <2>4. CASE MapTable(p)
    BY <1>1, <2>1, <2>2, <2>4, FrameTaken DEF TypeOK, MapTable
  <2>5. CASE FrameFails(p) \/ MapTableFails(p)
    BY <1>1, <2>1, <2>2, <2>5 DEF TypeOK, FrameFails, MapTableFails, NoFrame, tables
  <2>6. CASE MapPage(p) \/ Unmap(p)
    BY <1>1, <2>1, <2>2, <2>6 DEF TypeOK, MapPage, Unmap, stock
  <2>7. CASE Put(p)
    <3>1. Mapped(Target(p)) => pte[Target(p)] \in Phys
      BY <1>1 DEF TypeOK, Mapped
    <3>. QED BY <1>1, <2>1, <2>2, <2>7, <3>1 DEF TypeOK, Put, GiveFrame, tables
  <2>8. CASE UNCHANGED <<stock, tables>>
    BY <1>1, <2>1, <2>2, <2>8 DEF TypeOK, stock, tables
  <2>. QED
    BY <2>3, <2>4, <2>5, <2>6, <2>7, <2>8
    DEF Kmalloc, Krealloc, Kfree, Call, Step, HeapAcquire, Check, Find, Found, VmmAcquire,
        VmmRelease, Clear, HeapRelease, ReturnNull, Fill, Copy, ReadHeader
<1>3. mem' = [f \in Phys |-> mem'[f]]
  <2>1. mem = [f \in Phys |-> mem[f]]
    BY DEF IInv, Types
  <2>2. CASE MapTable(p)
    BY <2>1, <2>2 DEF MapTable
  <2>3. ASSUME NEW u, NEW vals, mem' = Stored(u, vals) PROVE mem' = [f \in Phys |-> mem'[f]]
    BY <2>3 DEF Stored
  <2>. QED
    BY <2>1, <2>2, <2>3
    DEF Kmalloc, Krealloc, Kfree, Call, Step, HeapAcquire, Check, Find, Found, VmmAcquire,
        Frame, FrameFails, MapTableFails, MapPage, VmmRelease, Clear,
        HeapRelease, ReturnNull, Fill, Copy, ReadHeader, Put, Unmap
<1>4. Pc' = Pc /\ Local' = Local /\ Block' = Block /\ Request' = Request
  BY DEF Pc, Local, Block, Request, Releasing, HeapHeld
<1>. QED BY <1>2, <1>3, <1>4, LocalTypes, BlockTypes DEF Types

\* The two spin locks exclude.
LEMMA LockedStep ==
    ASSUME IInv, NEW p \in Proc, Kmalloc(p) \/ Krealloc(p) \/ Kfree(p) \/ Step(p)
    PROVE  Locked'
<1>1. OthersSame(p) /\ pc \in [Proc -> Pc] /\ TypeOK
  BY StepIsOwn DEF IInv, Types
<1>2. CASE pc'[p] \in HeapHeld /\ pc[p] \notin HeapHeld
  <2>1. HeapAcquire(p)
    BY <1>1, <1>2
    DEF Kmalloc, Krealloc, Kfree, Call, Step, Check, Find, Found, VmmAcquire, Frame,
        FrameFails, MapTable, MapTableFails, MapPage, VmmRelease, Clear, HeapRelease, ReturnNull,
        Fill, Copy, ReadHeader, Put, Unmap, From, Return, NextPut, HeapHeld
  <2>2. heap_mutex = 0 /\ heap_mutex' = 1 /\ vmm_mutex' = vmm_mutex /\ pc[p] = "heap"
        /\ pc'[p] = "check"
    BY <1>1, <2>1 DEF HeapAcquire, HeapAvailable, From
  <2>. QED BY <1>1, <2>2 DEF IInv, Locked, OthersSame, HeapHeld, VmmHeld
<1>3. CASE pc'[p] \in VmmHeld /\ pc[p] \notin VmmHeld
  <2>1. VmmAcquire(p)
    BY <1>1, <1>3
    DEF Kmalloc, Krealloc, Kfree, Call, Step, HeapAcquire, Check, Find, Found, Frame,
        FrameFails, MapTable, MapTableFails, MapPage, VmmRelease, Clear, HeapRelease, ReturnNull,
        Fill, Copy, ReadHeader, Put, Unmap, From, Return, NextPut, VmmHeld
  <2>2. vmm_mutex = 0 /\ vmm_mutex' = 1 /\ heap_mutex' = heap_mutex
        /\ (pc'[p] \in HeapHeld => pc[p] \in HeapHeld)
    BY <1>1, <2>1 DEF VmmAcquire, From, HeapHeld
  <2>3. \A q \in Proc : pc[q] \notin VmmHeld
    BY <2>2 DEF IInv, Locked
  <2>. QED BY <1>1, <2>2, <2>3 DEF IInv, Locked, OthersSame
<1>4. CASE /\ pc'[p] \in HeapHeld => pc[p] \in HeapHeld
           /\ pc'[p] \in VmmHeld => pc[p] \in VmmHeld
  <2>1. heap_mutex' = heap_mutex \/ (pc[p] \in HeapHeld /\ pc'[p] \notin HeapHeld)
    BY <1>1, <1>4
    DEF locks, Kmalloc, Krealloc, Kfree, Call, Step, HeapAcquire, Check, Find, Found, VmmAcquire,
        Frame, FrameFails, MapTable, MapTableFails, MapPage, VmmRelease, Clear, HeapRelease,
        ReturnNull, Fill, Copy, ReadHeader, Put, Unmap, From, Return, HeapHeld
  <2>2. vmm_mutex' = vmm_mutex \/ (pc[p] \in VmmHeld /\ pc'[p] \notin VmmHeld)
    BY <1>1, <1>4
    DEF locks, Kmalloc, Krealloc, Kfree, Call, Step, HeapAcquire, Check, Find, Found, VmmAcquire,
        Frame, FrameFails, MapTable, MapTableFails, MapPage, VmmRelease, Clear, HeapRelease,
        ReturnNull, Fill, Copy, ReadHeader, Put, Unmap, From, Return, VmmHeld
  <2>3. \A q \in Proc : /\ pc'[q] \in HeapHeld => pc[q] \in HeapHeld
                        /\ pc'[q] \in VmmHeld => pc[q] \in VmmHeld
    BY <1>1, <1>4 DEF OthersSame
  <2>4. \A q \in Proc : pc'[q] \in HeapHeld => heap_mutex' = 1
    BY <2>1, <2>3 DEF IInv, Locked
  <2>5. \A q \in Proc : pc'[q] \in VmmHeld => vmm_mutex' = 1
    BY <2>2, <2>3 DEF IInv, Locked
  <2>6. HeapHeld' = HeapHeld /\ VmmHeld' = VmmHeld
    BY DEF HeapHeld, VmmHeld
  <2>. QED BY <2>3, <2>4, <2>5, <2>6 DEF IInv, Locked
<1>. QED BY <1>2, <1>3, <1>4

-----------------------------------------------------------------------------
(* The physical pages.                                                     *)

\* Only one context at a time is between a page and its entry.
LEMMA OneWalker ==
    ASSUME IInv, NEW p \in Proc, pc[p] \in VmmHeld, NEW q \in Proc, q # p
    PROVE  pc[q] \notin {"frame", "walk", "unmap", "hung", "put"}
BY DEF IInv, Locked, VmmHeld

\* The page that vmm_map_page maps is a page of the heap that has no entry yet.
LEMMA WalkTarget ==
    ASSUME IInv, NEW p \in Proc, pc[p] = "walk"
    PROVE  /\ Target(p) \in VPage /\ Target(p) \in Nat /\ pte[Target(p)] = 0
           /\ Target(p) \in Seen(p) /\ loc[p].ptr \in Nat /\ loc[p].i \in Nat /\ loc[p].n \in Nat
           /\ PagesOf(loc[p].n) \in Nat /\ loc[p].i < PagesOf(loc[p].n)
<1>1. loc[p].ptr \in Nat /\ loc[p].i \in Nat /\ loc[p].n \in Nat
  BY DEF IInv, Types, Local
<1>2. PagesOf(loc[p].n) \in Nat /\ loc[p].i < PagesOf(loc[p].n)
  BY <1>1, PagesEnough DEF IInv, Space
<1>3. Target(p) \in Seen(p)
  BY <1>1, <1>2 DEF Seen, Target
<1>4. Target(p) \in VPage /\ ~Mapped(Target(p))
  BY <1>3 DEF IInv, Space
<1>. QED BY <1>1, <1>2, <1>3, <1>4 DEF Mapped, VPage

\* The table that vmm_map_page adds is one that is missing.
LEMMA MissingTable ==
    ASSUME IInv, NEW p \in Proc, MapTable(p)
    PROVE  \E t \in Table : table[t] = 0 /\ table' = [table EXCEPT ![t] = Min(free)]
<1>. DEFINE A == Absent(Target(p))
<1>1. A \in SUBSET Nat /\ A # {} /\ A \subseteq 1..Len(Spans)
  BY DEF MapTable, Absent
<1>2. Min(A) \in A
  BY <1>1, LeastIsMember
<1>3. PICK k : k = Min(A)
  OBVIOUS
<1>4. k \in 1..Len(Spans) /\ table[<<k, Target(p) \div Spans[k]>>] = 0
  BY <1>2, <1>3 DEF Absent
<1>5. Target(p) \in VPage
  BY WalkTarget DEF MapTable, From
<1>6. <<k, Target(p) \div Spans[k]>> \in Table
  BY <1>4, <1>5 DEF Table
<1>. QED BY <1>3, <1>4, <1>6 DEF MapTable

\* The page allocator and its other users exchange pages, or nothing happens.
LEMMA RawStep ==
    ASSUME IInv, RawAlloc \/ RawFree \/ UNCHANGED vars
    PROVE  IInv'
<1>1. UNCHANGED <<heap_mutex, vmm_mutex, table, pte, mem, pc, loc, live>>
  BY DEF RawAlloc, RawFree, locks, tables, vars
<1>2. /\ stuck' = stuck /\ free' \cup raw' = free \cup raw /\ free' \cap raw' = {}
      /\ free' \subseteq Phys /\ raw' \subseteq Phys
  <2>1. TypeOK /\ free \cap raw = {}
    BY DEF IInv, Types, Frames
  <2>2. CASE RawAlloc
    BY <2>1, <2>2, FrameTaken DEF RawAlloc, TypeOK
  <2>3. CASE RawFree
    BY <2>1, <2>3 DEF RawFree, GiveFrame, TypeOK
  <2>4. CASE UNCHANGED vars
    BY <2>1, <2>4 DEF vars, TypeOK
  <2>. QED BY <2>2, <2>3, <2>4
<1>3. /\ Live' = Live /\ (\A v : Pages(v)' = Pages(v)) /\ (\A v : Mapped(v)' = Mapped(v))
      /\ (\A u : Load(u)' = Load(u)) /\ (\A v : HeaderTrue(v)' = HeaderTrue(v))
      /\ Dangling' = Dangling /\ (\A q : Target(q)' = Target(q))
      /\ (\A q : Has(q)' = Has(q) /\ Seen(q)' = Seen(q) /\ Claim(q)' = Claim(q))
      /\ Pc' = Pc /\ Local' = Local /\ Block' = Block /\ Request' = Request /\ VPage' = VPage
      /\ HeapHeld' = HeapHeld /\ VmmHeld' = VmmHeld /\ Releasing' = Releasing
  BY <1>1
  DEF Live, Pages, Mapped, Load, HeaderTrue, Dangling, Target, Has, Seen, Claim, Pc, Local, Block,
      Request, VPage, HeapHeld, VmmHeld, Releasing
<1>4. Types'
  BY <1>1, <1>2, <1>3 DEF IInv, Types, TypeOK
<1>5. Locked'
  BY <1>1, <1>3 DEF IInv, Locked
<1>6. Frames'
  <2>1. NoAlias'
    BY <1>1, <1>2, <1>3 DEF IInv, Frames, NoAlias
  <2>. QED BY <1>1, <1>2, <1>3, <2>1 DEF IInv, Frames
<1>7. Space'
  BY <1>1, <1>2, <1>3 DEF IInv, Space
<1>8. Claims'
  BY <1>1, <1>3 DEF IInv, Claims
<1>9. Contents'
  BY <1>1, <1>3 DEF IInv, Contents
<1>. QED BY <1>4, <1>5, <1>6, <1>7, <1>8, <1>9 DEF IInv

\* No page is used twice or lost, whatever step a context takes.
LEMMA FramesStep ==
    ASSUME IInv, NEW p \in Proc, Kmalloc(p) \/ Krealloc(p) \/ Kfree(p) \/ Step(p)
    PROVE  Frames'
<1>1. OthersSame(p) /\ pc \in [Proc -> Pc] /\ TypeOK /\ loc \in [Proc -> Local] /\ 0 \notin Phys
  BY StepIsOwn, HeapAssumption DEF IInv, Types
<1>2. CASE Frame(p)
  <2>1. PICK m : m = Min(free)
    OBVIOUS
  <2>2. /\ m \in free /\ m \in Phys /\ m # 0 /\ free' = free \ {m}
        /\ pc[p] = "frame" /\ pc'[p] = "walk" /\ loc'[p].phys = m
        /\ UNCHANGED <<raw, table, pte>>
    BY <1>1, <1>2, <2>1, FrameTaken DEF Frame, From, Set, tables, Local
  <2>3. \A q \in Proc : pc[q] \notin {"unmap", "walk", "hung"}
    BY <2>2, OneWalker DEF VmmHeld
  <2>4. \A q \in Proc : q # p => pc'[q] \notin {"unmap", "walk", "hung"}
    BY <1>1, <2>3 DEF OthersSame
  <2>5. Dangling = {} /\ Dangling' = {} /\ \A v : Mapped(v)' = Mapped(v)
    BY <2>2, <2>3, <2>4 DEF Dangling, Mapped
  <2>6. NoAlias'
    BY <2>2, <2>5 DEF IInv, Frames, NoAlias
  <2>7. \A v \in VPage : pte[v] # m
    BY <2>2, <2>5 DEF IInv, Frames, NoAlias, Mapped
  <2>8. \A t \in Table : table[t] # m
    BY <2>2, <2>5 DEF IInv, Frames, NoAlias
  <2>9. \A f \in Phys : f \in free' \cup raw' \/ (\E t \in Table : table'[t] = f)
                        \/ (\E v \in VPage : pte'[v] = f) \/ loc'[p].phys = f
    BY <2>2, <2>3 DEF IInv, Frames
  <2>10. m \notin raw
    BY <2>2 DEF IInv, Frames
  <2>. QED BY <2>2, <2>4, <2>6, <2>7, <2>8, <2>9, <2>10 DEF IInv, Frames
<1>3. CASE MapTable(p)
  <2>1. PICK m : m = Min(free)
    OBVIOUS
  <2>2. PICK t0 \in Table : table[t0] = 0 /\ table' = [table EXCEPT ![t0] = m]
    BY <1>3, <2>1, MissingTable
  <2>3. /\ m \in free /\ m \in Phys /\ m # 0 /\ free' = free \ {m}
        /\ pc[p] = "walk" /\ pc'[p] = "walk" /\ UNCHANGED <<raw, pte, loc>>
    BY <1>1, <1>3, <2>1, FrameTaken DEF MapTable, From
  <2>4. table'[t0] = m /\ \A t \in Table : t # t0 => table'[t] = table[t]
    BY <1>1, <2>2 DEF TypeOK
  <2>5. \A q \in Proc : q # p => pc[q] \notin {"unmap", "walk", "hung"}
    BY <2>3, OneWalker DEF VmmHeld
  <2>6. \A q \in Proc : q # p => pc'[q] \notin {"unmap", "walk", "hung"}
    BY <1>1, <2>5 DEF OthersSame
  <2>7. Dangling = {} /\ Dangling' = {} /\ \A v : Mapped(v)' = Mapped(v)
    BY <2>3, <2>5, <2>6 DEF Dangling, Mapped
  <2>8. \A v \in VPage : pte[v] # m
    BY <2>3, <2>7 DEF IInv, Frames, NoAlias, Mapped
  <2>9. \A t \in Table : table[t] # m
    BY <2>3 DEF IInv, Frames, NoAlias
  <2>10. m \notin raw
    BY <2>3 DEF IInv, Frames
  <2>11. NoAlias'
    <3>1. \A v, w \in VPage : Mapped(v) /\ Mapped(w) /\ pte[v] = pte[w] => v = w
      BY <2>7 DEF IInv, Frames, NoAlias
    <3>2. \A t, u \in Table : table'[t] # 0 /\ table'[t] = table'[u] => t = u
      BY <2>4, <2>9 DEF IInv, Frames, NoAlias
    <3>3. \A v \in VPage : Mapped(v) => pte[v] \notin free' \cup raw
                                       /\ \A t \in Table : table'[t] # pte[v]
      BY <2>3, <2>4, <2>7, <2>8 DEF IInv, Frames, NoAlias, Mapped
    <3>4. \A t \in Table : table'[t] # 0 => table'[t] \notin free' \cup raw
      BY <2>3, <2>4, <2>10 DEF IInv, Frames, NoAlias
    <3>. QED BY <2>3, <2>7, <3>1, <3>2, <3>3, <3>4 DEF NoAlias
  <2>12. /\ loc[p].phys \in Phys \ (free' \cup raw)
         /\ \A t \in Table : table'[t] # loc[p].phys
         /\ \A v \in VPage : pte[v] # loc[p].phys
    BY <2>3, <2>4 DEF IInv, Frames
  <2>13. \A f \in Phys : f \in free' \cup raw' \/ (\E t \in Table : table'[t] = f)
                        \/ (\E v \in VPage : pte'[v] = f) \/ loc'[p].phys = f
    BY <1>1, <2>2, <2>3, <2>4, <2>5 DEF IInv, Frames
  <2>. QED BY <2>3, <2>6, <2>10, <2>11, <2>12, <2>13 DEF IInv, Frames
<1>4. CASE MapTableFails(p)
  <2>1. pc[p] = "walk" /\ pc'[p] = "hung" /\ UNCHANGED <<free, raw, table, pte, loc>>
    BY <1>1, <1>4 DEF MapTableFails, From, NoFrame, tables
  <2>2. \A q \in Proc : q # p => pc[q] \notin {"unmap", "walk", "hung"}
    BY <2>1, OneWalker DEF VmmHeld
  <2>3. \A q \in Proc : pc'[q] \notin {"unmap", "walk"}
    BY <1>1, <2>1, <2>2 DEF OthersSame
  <2>4. Dangling = {} /\ Dangling' = {} /\ \A v : Mapped(v)' = Mapped(v)
    BY <2>1, <2>2, <2>3 DEF Dangling, Mapped
  <2>5. NoAlias'
    BY <2>1, <2>4 DEF IInv, Frames, NoAlias
  <2>6. \A f \in Phys : f \in free' \cup raw' \/ (\E t \in Table : table'[t] = f)
                        \/ (\E v \in VPage : pte'[v] = f) \/ loc'[p].phys = f
    BY <2>1, <2>2 DEF IInv, Frames
  <2>. QED BY <2>1, <2>3, <2>5, <2>6 DEF IInv, Frames
<1>5. CASE MapPage(p)
  <2>1. pc[p] = "walk" /\ pc'[p] \in {"frame", "vmm_out"} /\ UNCHANGED <<free, raw, table>>
    BY <1>1, <1>5 DEF MapPage, From, stock
  <2>2. PICK w, f0 : w = Target(p) /\ f0 = loc[p].phys
    OBVIOUS
  <2>3. w \in VPage /\ pte[w] = 0 /\ pte' = [pte EXCEPT ![w] = f0]
    BY <1>5, <2>1, <2>2, WalkTarget DEF MapPage, Entry
  <2>4. pte'[w] = f0 /\ \A v \in VPage : v # w => pte'[v] = pte[v]
    BY <1>1, <2>3 DEF TypeOK
  <2>5. /\ f0 \in Phys \ (free \cup raw) /\ \A t \in Table : table[t] # f0
        /\ \A v \in VPage : pte[v] # f0
    BY <2>1, <2>2 DEF IInv, Frames
  <2>6. \A q \in Proc : q # p => pc[q] \notin {"unmap", "walk", "hung"}
    BY <2>1, OneWalker DEF VmmHeld
  <2>7. \A q \in Proc : pc'[q] \notin {"unmap", "walk"}
    BY <1>1, <2>1, <2>6 DEF OthersSame
  <2>8. Dangling = {} /\ Dangling' = {}
    BY <2>1, <2>6, <2>7 DEF Dangling
  <2>9. NoAlias'
    <3>1. \A v \in VPage : Mapped(v)' => pte'[v] # 0 /\ (v = w \/ Mapped(v))
      BY <2>4 DEF Mapped
    <3>2. \A v, u \in VPage : Mapped(v)' /\ Mapped(u)' /\ pte'[v] = pte'[u] => v = u
      BY <2>4, <2>5, <2>8, <3>1 DEF IInv, Frames, NoAlias
    <3>3. \A v \in VPage : Mapped(v)' => pte'[v] \notin free \cup raw
                                       /\ \A t \in Table : table[t] # pte'[v]
      BY <2>4, <2>5, <2>8, <3>1 DEF IInv, Frames, NoAlias, Mapped
    <3>4. \A t, u \in Table : table[t] # 0 /\ table[t] = table[u] => t = u
      BY DEF IInv, Frames, NoAlias
    <3>5. \A t \in Table : table[t] # 0 => table[t] \notin free \cup raw
      BY DEF IInv, Frames, NoAlias
    <3>. QED BY <2>1, <2>8, <3>2, <3>3, <3>4, <3>5 DEF NoAlias
  <2>10. \A f \in Phys : f \in free \cup raw \/ (\E t \in Table : table[t] = f)
                        \/ (\E v \in VPage : pte'[v] = f)
    <3>1. \A f \in Phys : f \in free \cup raw \/ (\E t \in Table : table[t] = f)
                        \/ (\E v \in VPage : pte[v] = f) \/ f = f0
      BY <2>1, <2>2, <2>6 DEF IInv, Frames
    <3>. QED BY <1>1, <2>3, <2>4, <3>1
  <2>11. free \cap raw = {}
    BY DEF IInv, Frames
  <2>. QED BY <2>1, <2>7, <2>9, <2>10, <2>11 DEF Frames
<1>6. CASE Put(p) /\ Mapped(Target(p))
  <2>1. PICK w, f0 : w = Target(p) /\ f0 = pte[w]
    OBVIOUS
  <2>2. /\ pc[p] = "put" /\ pc'[p] = "unmap" /\ UNCHANGED <<raw, table, pte, loc>>
        /\ free' = free \cup {f0}
    BY <1>1, <1>6, <2>1 DEF Put, From, GiveFrame, tables
  <2>3. w \in VPage /\ f0 \in Phys /\ f0 # 0
    BY <1>1, <1>6, <2>1 DEF Mapped, TypeOK
  <2>4. \A q \in Proc : pc[q] \notin {"unmap", "walk", "hung"}
    BY <2>2, OneWalker DEF VmmHeld
  <2>5. \A q \in Proc : q # p => pc'[q] \notin {"unmap", "walk", "hung"}
    BY <1>1, <2>4 DEF OthersSame
  <2>6. Target(p)' = w /\ \A v : Mapped(v)' = Mapped(v)
    BY <2>1, <2>2 DEF Target, Mapped
  <2>7. Dangling = {} /\ Dangling' = {w}
    BY <2>2, <2>4, <2>5, <2>6 DEF Dangling
  <2>8. Mapped(w)
    BY <1>6, <2>1
  <2>9. f0 \notin raw /\ \A t \in Table : table[t] # f0
    BY <2>1, <2>3, <2>7, <2>8 DEF IInv, Frames, NoAlias
  <2>10. \A v \in VPage : Mapped(v) /\ v # w => pte[v] # f0
    BY <2>1, <2>3, <2>7, <2>8 DEF IInv, Frames, NoAlias
  <2>11. NoAlias'
    <3>1. \A v \in VPage : Mapped(v) /\ v # w =>
             pte[v] \notin free' \cup raw /\ \A t \in Table : table[t] # 0 => table[t] # pte[v]
      BY <2>2, <2>7, <2>10 DEF IInv, Frames, NoAlias
    <3>2. \A t \in Table : table[t] # 0 => table[t] \notin free' \cup raw
      BY <2>2, <2>9 DEF IInv, Frames, NoAlias
    <3>. QED BY <2>2, <2>6, <2>7, <3>1, <3>2 DEF IInv, Frames, NoAlias
  <2>12. \A f \in Phys : f \in free' \cup raw' \/ (\E t \in Table : table'[t] = f)
                        \/ (\E v \in VPage : pte'[v] = f)
    BY <2>2, <2>4 DEF IInv, Frames
  <2>13. Mapped(Target(p))' /\ pte'[Target(p)'] \in free' \cup raw'
    BY <2>1, <2>2, <2>6, <2>8
  <2>14. free' \cap raw' = {}
    BY <2>2, <2>9 DEF IInv, Frames
  <2>. QED BY <2>2, <2>5, <2>11, <2>12, <2>13, <2>14 DEF Frames
<1>7. CASE Unmap(p)
  <2>1. pc[p] = "unmap" /\ pc'[p] \in {"put", "free_out"} /\ UNCHANGED <<free, raw, table>>
    BY <1>1, <1>7 DEF Unmap, From, stock, NextPut
  <2>2. PICK w : w = Target(p)
    OBVIOUS
  <2>3. w \in VPage /\ pte[w] \in free \cup raw /\ pte' = [pte EXCEPT ![w] = 0]
    BY <1>7, <2>1, <2>2 DEF Unmap, Entry, IInv, Frames, Mapped
  <2>4. pte'[w] = 0 /\ \A v \in VPage : v # w => pte'[v] = pte[v]
    BY <1>1, <2>3 DEF TypeOK
  <2>5. \A q \in Proc : q # p => pc[q] \notin {"unmap", "walk", "hung"}
    BY <2>1, OneWalker DEF VmmHeld
  <2>6. \A q \in Proc : pc'[q] \notin {"unmap", "walk", "hung"}
    BY <1>1, <2>1, <2>5 DEF OthersSame
  <2>7. Dangling = {w} /\ Dangling' = {}
    BY <2>1, <2>2, <2>5, <2>6 DEF Dangling
  <2>8. \A v \in VPage : Mapped(v)' = (Mapped(v) /\ v # w)
    BY <2>3, <2>4 DEF Mapped
  <2>9. NoAlias'
    <3>1. {v \in VPage : Mapped(v)'} \ Dangling' = {v \in VPage : Mapped(v)} \ Dangling
      BY <2>7, <2>8
    <3>2. PICK U : U = {v \in VPage : Mapped(v)} \ Dangling
      OBVIOUS
    <3>3. \A v \in U : pte'[v] = pte[v]
      BY <2>4, <2>7, <3>2
    <3>4. /\ \A v, u \in U : pte'[v] = pte'[u] => v = u
          /\ \A v \in U : pte'[v] \notin free \cup raw
                                          \cup {table[t] : t \in {t \in Table : table[t] # 0}}
      BY <3>2, <3>3 DEF IInv, Frames, NoAlias
    <3>5. \A t, u \in Table : table[t] # 0 /\ table[t] = table[u] => t = u
      BY DEF IInv, Frames, NoAlias
    <3>6. \A t \in Table : table[t] # 0 => table[t] \notin free \cup raw
      BY DEF IInv, Frames, NoAlias
    <3>. QED BY <2>1, <3>1, <3>2, <3>4, <3>5, <3>6 DEF NoAlias
  <2>10. \A f \in Phys : f \in free \cup raw \/ (\E t \in Table : table[t] = f)
                        \/ (\E v \in VPage : pte'[v] = f)
    BY <2>1, <2>3, <2>4, <2>5 DEF IInv, Frames
  <2>11. free \cap raw = {}
    BY DEF IInv, Frames
  <2>. QED BY <2>1, <2>6, <2>9, <2>10, <2>11 DEF Frames
<1>8. CASE ~Frame(p) /\ ~MapTable(p) /\ ~MapTableFails(p) /\ ~MapPage(p) /\ ~Unmap(p)
           /\ ~(Put(p) /\ Mapped(Target(p)))
  <2>1. UNCHANGED <<free, raw, table, pte>>
    BY <1>8
    DEF stock, tables, NoFrame, Kmalloc, Krealloc, Kfree, Call, Step, HeapAcquire, Check, Find,
        Found, VmmAcquire, FrameFails, VmmRelease, Clear, HeapRelease, ReturnNull, Fill, Copy,
        ReadHeader, Put
  <2>2. pc[p] \notin {"walk", "unmap", "hung"} /\ pc'[p] \notin {"walk", "unmap"}
    BY <1>1, <1>8
    DEF Kmalloc, Krealloc, Kfree, Call, Step, HeapAcquire, Check, Find, Found, VmmAcquire,
        FrameFails, VmmRelease, Clear, HeapRelease, ReturnNull, Fill, Copy, ReadHeader, Put,
        From, Return, NextPut
  <2>. QED BY <1>1, <2>1, <2>2, FramesSame
<1>. QED BY <1>2, <1>3, <1>4, <1>5, <1>6, <1>7, <1>8

-----------------------------------------------------------------------------
(* Virtual memory.                                                         *)

\* vmm_map_page gives the next page to the call.
LEMMA SpaceMapPage ==
    ASSUME IInv, NEW p \in Proc, MapPage(p)
    PROVE  Space'
<1>1. OthersSame(p) /\ pc \in [Proc -> Pc] /\ TypeOK /\ loc \in [Proc -> Local] /\ 0 \notin Phys
  BY StepIsOwn, HeapAssumption DEF IInv, Types, Step
<1>2. pc[p] = "walk" /\ UNCHANGED <<live, stuck>>
  BY DEF MapPage, From, stock
<1>3. PICK a, i, n, w : a = loc[p].ptr /\ i = loc[p].i /\ n = PagesOf(loc[p].n) /\ w = a + i
  OBVIOUS
<1>4. a \in Nat /\ i \in Nat /\ n \in Nat /\ w \in Nat /\ i < n /\ w \in VPage /\ pte[w] = 0
      /\ w = Target(p)
  BY <1>2, <1>3, WalkTarget DEF Target
<1>5. loc'[p] = [loc[p] EXCEPT !.i = i + 1]
  BY <1>1, <1>3 DEF MapPage, Set
<1>6. loc'[p].ptr = a /\ loc'[p].i = i + 1 /\ loc'[p].n = loc[p].n
  BY <1>1, <1>3, <1>5 DEF Local
<1>7. \/ pc'[p] = "frame" /\ i + 1 < n
      \/ pc'[p] = "vmm_out" /\ i + 1 = n
  BY <1>1, <1>3, <1>4 DEF MapPage, From
<1>8. pte' = [pte EXCEPT ![w] = loc[p].phys] /\ loc[p].phys \in Phys
  BY <1>2, <1>4 DEF MapPage, Entry, IInv, Frames
<1>9. \A v : Mapped(v)' <=> (Mapped(v) \/ v = w)
  BY <1>1, <1>4, <1>8 DEF Mapped, TypeOK
<1>10. ~Mapped(w) /\ Live' = Live /\ (\A v \in Live : Pages(v)' = Pages(v))
  BY <1>2, <1>4 DEF Mapped, Live, Pages
<1>11. Has(p) = a..(w - 1) /\ Has(p)' = a..w
  BY <1>2, <1>3, <1>4, <1>6, <1>7 DEF Has
<1>12. Seen(p)' \subseteq Seen(p) \ {w}
  <2>1. Seen(p) = w..(a + n - 1)
    BY <1>2, <1>3, <1>4 DEF Seen, Target
  <2>2. CASE pc'[p] = "frame"
    <3>1. Seen(p)' = (a + (i + 1))..(a + n - 1)
      BY <1>3, <1>6, <2>2 DEF Seen, Target
    <3>. QED BY <1>3, <1>4, <2>1, <3>1
  <2>3. CASE pc'[p] = "vmm_out"
    BY <2>3 DEF Seen
  <2>. QED BY <1>7, <2>2, <2>3
<1>13. \A q \in Proc : q # p => Has(q)' = Has(q) /\ Seen(q)' = Seen(q)
  BY <1>1 DEF OthersSame, Has, Seen, Target
<1>14. \A q \in Proc : q # p => Seen(q) = {}
  BY <1>2 DEF IInv, Locked, HeapHeld, Seen
<1>15. /\ \A v \in Live : w \notin Pages(v)
       /\ \A q \in Proc : w \notin Has(q)
  BY <1>10 DEF IInv, Space
<1>16. Has(p)' = Has(p) \cup {w}
  BY <1>3, <1>4, <1>11
<1>17. /\ \A v \in Live' : \A x \in Pages(v)' : Mapped(x)'
       /\ \A u, v \in Live' : u # v => Pages(u)' \cap Pages(v)' = {}
       /\ \A q \in Proc : \A x \in Has(q)' : Mapped(x)'
       /\ \A q \in Proc : \A x \in Seen(q)' : x \in VPage /\ ~Mapped(x)'
  BY <1>9, <1>10, <1>12, <1>13, <1>14, <1>16 DEF IInv, Space
<1>18. /\ \A v \in Live', q \in Proc : Pages(v)' \cap Has(q)' = {}
       /\ \A q, r \in Proc : q # r => Has(q)' \cap Has(r)' = {}
  BY <1>10, <1>13, <1>15, <1>16 DEF IInv, Space
<1>19. ~stuck' => \A x \in VPage : Mapped(x)' =>
          (\E v \in Live' : x \in Pages(v)') \/ (\E q \in Proc : x \in Has(q)')
  BY <1>2, <1>9, <1>10, <1>13, <1>16 DEF IInv, Space
<1>20. \A q \in Proc :
          /\ pc'[q] = "find" => loc'[q].i < PagesOf(loc'[q].n)
          /\ pc'[q] = "vmm" => loc'[q].i = 0
          /\ pc'[q] \in {"frame", "walk"} => loc'[q].i < PagesOf(loc'[q].n)
          /\ pc'[q] \in {"vmm_out", "clear", "heap_out"} => loc'[q].i = PagesOf(loc'[q].n)
          /\ pc'[q] \in Releasing => loc'[q].i < loc'[q].n
  BY <1>1, <1>3, <1>6, <1>7 DEF OthersSame, IInv, Space, Releasing
<1>21. Releasing' = Releasing /\ VPage' = VPage
  BY DEF Releasing, VPage
<1>. QED BY <1>17, <1>18, <1>19, <1>20, <1>21 DEF Space

\* vmm_free takes a page from the call.
LEMMA SpaceUnmap ==
    ASSUME IInv, NEW p \in Proc, Unmap(p)
    PROVE  Space'
<1>1. OthersSame(p) /\ pc \in [Proc -> Pc] /\ TypeOK /\ loc \in [Proc -> Local]
  BY StepIsOwn DEF IInv, Types, Step
<1>2. pc[p] = "unmap" /\ UNCHANGED <<live, stuck>>
  BY DEF Unmap, From, stock
<1>3. PICK a, i, n, w : a = loc[p].ptr /\ i = loc[p].i /\ n = loc[p].n /\ w = a + i
  OBVIOUS
<1>4. a \in Nat /\ i \in Nat /\ n \in Nat /\ w \in Nat /\ i < n /\ w = Target(p)
  BY <1>1, <1>2, <1>3 DEF Target, IInv, Space, Releasing, Local
<1>5. loc'[p] = [loc[p] EXCEPT !.i = i + 1]
  BY <1>1, <1>3 DEF Unmap, Set
<1>6. loc'[p].ptr = a /\ loc'[p].i = i + 1 /\ loc'[p].n = n
  BY <1>1, <1>3, <1>5 DEF Local
<1>7. \/ pc'[p] = "put" /\ i + 1 < n
      \/ pc'[p] = "free_out" /\ i + 1 = n
  BY <1>1, <1>3, <1>4 DEF Unmap, From, NextPut
<1>8. w \in VPage /\ pte' = [pte EXCEPT ![w] = 0]
  BY <1>2, <1>4 DEF Unmap, Entry, IInv, Frames, Mapped
<1>9. \A v : Mapped(v)' <=> (Mapped(v) /\ v # w)
  BY <1>1, <1>8 DEF Mapped, TypeOK
<1>10. Live' = Live /\ (\A v \in Live : Pages(v)' = Pages(v))
  BY <1>2 DEF Live, Pages
<1>11. Has(p) = w..(a + n - 1)
  BY <1>2, <1>3, <1>4 DEF Has, Releasing
<1>12. Has(p)' = Has(p) \ {w}
  <2>1. CASE pc'[p] = "put"
    <3>1. Has(p)' = (w + 1)..(a + n - 1)
      <4>1. Has(p)' = (a + (i + 1))..(a + n - 1)
        BY <1>3, <1>6, <2>1 DEF Has, Target, Releasing
      <4>2. a + (i + 1) = w + 1
        BY <1>3, <1>4
      <4>. QED BY <4>1, <4>2
    <3>. QED BY <1>3, <1>4, <1>11, <3>1
  <2>2. CASE pc'[p] = "free_out"
    <3>1. Has(p)' = {}
      BY <2>2 DEF Has, Releasing
    <3>. QED BY <1>3, <1>4, <1>7, <1>11, <2>2, <3>1
  <2>. QED BY <1>7, <2>1, <2>2
<1>13. \A q \in Proc : q # p => Has(q)' = Has(q) /\ Seen(q)' = Seen(q)
  BY <1>1 DEF OthersSame, Has, Seen, Target
<1>14. Seen(p)' = {}
  BY <1>7 DEF Seen
<1>15. w \in Has(p)
  BY <1>3, <1>4, <1>11
<1>16. /\ \A v \in Live : w \notin Pages(v)
       /\ \A q \in Proc : q # p => w \notin Has(q)
  BY <1>15 DEF IInv, Space
<1>17. /\ \A v \in Live' : \A x \in Pages(v)' : Mapped(x)'
       /\ \A u, v \in Live' : u # v => Pages(u)' \cap Pages(v)' = {}
       /\ \A q \in Proc : \A x \in Has(q)' : Mapped(x)'
       /\ \A q \in Proc : \A x \in Seen(q)' : x \in VPage /\ ~Mapped(x)'
  BY <1>9, <1>10, <1>12, <1>13, <1>14, <1>16 DEF IInv, Space
<1>18. /\ \A v \in Live', q \in Proc : Pages(v)' \cap Has(q)' = {}
       /\ \A q, r \in Proc : q # r => Has(q)' \cap Has(r)' = {}
  BY <1>10, <1>12, <1>13 DEF IInv, Space
<1>19. ~stuck' => \A x \in VPage : Mapped(x)' =>
          (\E v \in Live' : x \in Pages(v)') \/ (\E q \in Proc : x \in Has(q)')
  BY <1>2, <1>9, <1>10, <1>12, <1>13 DEF IInv, Space
<1>20. \A q \in Proc :
          /\ pc'[q] = "find" => loc'[q].i < PagesOf(loc'[q].n)
          /\ pc'[q] = "vmm" => loc'[q].i = 0
          /\ pc'[q] \in {"frame", "walk"} => loc'[q].i < PagesOf(loc'[q].n)
          /\ pc'[q] \in {"vmm_out", "clear", "heap_out"} => loc'[q].i = PagesOf(loc'[q].n)
          /\ pc'[q] \in Releasing => loc'[q].i < loc'[q].n
  BY <1>1, <1>6, <1>7 DEF OthersSame, IInv, Space, Releasing
<1>21. Releasing' = Releasing /\ VPage' = VPage
  BY DEF Releasing, VPage
<1>. QED BY <1>17, <1>18, <1>19, <1>20, <1>21 DEF Space

\* The pages of a finished block go from the call to the block.
LEMMA NewBlock ==
    ASSUME IInv, NEW p \in Proc, HeapRelease(p)
    PROVE  /\ loc[p].ptr \in VPage \ Live /\ Live' = Live \cup {loc[p].ptr}
           /\ live'[loc[p].ptr].n = loc[p].n /\ live'[loc[p].ptr].data = Zeros(loc[p].n)
           /\ \A v \in VPage : v # loc[p].ptr => live'[v] = live[v]
           /\ Has(p) = loc[p].ptr..(loc[p].ptr + PagesOf(loc[p].n) - 1)
           /\ loc[p].n \in Sizes /\ loc[p].n \in Nat /\ pc[p] = "heap_out"
<1>1. pc[p] = "heap_out" /\ live \in [VPage -> Block] /\ loc[p] \in Local
  BY DEF HeapRelease, From, IInv, Types
<1>2. PICK a, n : a = loc[p].ptr /\ n = loc[p].n
  OBVIOUS
<1>3. a \in Nat /\ n \in Sizes /\ n \in Nat /\ n # 0
  BY <1>1, <1>2, HeapAssumption DEF IInv, Types, Local, Request, HeapHeld
<1>4. PagesOf(n) \in Nat \ {0}
  BY <1>3, PagesEnough
<1>5. Has(p) = a..(a + PagesOf(n) - 1)
  BY <1>1, <1>2 DEF IInv, Space, Has
<1>6. a \in Has(p)
  BY <1>3, <1>4, <1>5
<1>7. a \in VPage
  BY <1>6 DEF IInv, Space, Mapped
<1>8. a \notin Live
  <2>. SUFFICES ASSUME a \in Live PROVE FALSE
    OBVIOUS
  <2>1. live[a].n \in Nat
    BY <1>1, <1>7 DEF Block
  <2>2. a \in Pages(a)
    BY <1>3, <2>1, PagesEnough DEF Pages
  <2>. QED BY <1>6, <2>2 DEF IInv, Space
<1>9. live' = [live EXCEPT ![a] = [n |-> n, data |-> Zeros(n)]]
  BY <1>2 DEF HeapRelease
<1>10. live'[a] = [n |-> n, data |-> Zeros(n)] /\ \A v \in VPage : v # a => live'[v] = live[v]
  BY <1>1, <1>7, <1>9
<1>11. live'[a].n = n /\ live'[a].data = Zeros(n) /\ live'[a] # NoBlock
  BY <1>3, <1>10 DEF NoBlock
<1>. QED BY <1>1, <1>2, <1>3, <1>5, <1>7, <1>8, <1>10, <1>11 DEF Live

\* HeapRelease divides the space as before, with one more block.
LEMMA SpaceHeapRelease ==
    ASSUME IInv, NEW p \in Proc, HeapRelease(p)
    PROVE  Space'
<1>1. OthersSame(p) /\ pc \in [Proc -> Pc]
  BY StepIsOwn DEF IInv, Types, Step
<1>2. pc'[p] \in {"fill", "copy"} /\ UNCHANGED <<pte, stuck>>
  BY <1>1 DEF HeapRelease, From, stock, tables
<1>3. PICK a : a = loc[p].ptr
  OBVIOUS
<1>4. a \notin Live /\ Live' = Live \cup {a}
  BY <1>3, NewBlock
<1>5. Pages(a)' = Has(p)
  <2>1. live'[a].n = loc[p].n
    BY <1>3, NewBlock
  <2>2. Pages(a)' = a..(a + PagesOf(live'[a].n) - 1)
    BY DEF Pages
  <2>. QED BY <1>3, <2>1, <2>2, NewBlock
<1>6. \A v \in Live : Pages(v)' = Pages(v)
  BY <1>3, <1>4, NewBlock DEF Pages, Live
<1>7. Has(p)' = {} /\ Seen(p)' = {}
  BY <1>2 DEF Has, Seen, Releasing
<1>8. \A q \in Proc : q # p => Has(q)' = Has(q) /\ Seen(q)' = Seen(q)
  BY <1>1 DEF OthersSame, Has, Seen, Target
<1>9. \A v : Mapped(v)' <=> Mapped(v)
  BY <1>2 DEF Mapped
<1>10. /\ \A v \in Live' : \A x \in Pages(v)' : Mapped(x)'
       /\ \A u, v \in Live' : u # v => Pages(u)' \cap Pages(v)' = {}
       /\ \A q \in Proc : \A x \in Has(q)' : Mapped(x)'
       /\ \A q \in Proc : \A x \in Seen(q)' : x \in VPage /\ ~Mapped(x)'
  BY <1>4, <1>5, <1>6, <1>7, <1>8, <1>9 DEF IInv, Space
<1>11. /\ \A v \in Live', q \in Proc : Pages(v)' \cap Has(q)' = {}
       /\ \A q, r \in Proc : q # r => Has(q)' \cap Has(r)' = {}
  BY <1>4, <1>5, <1>6, <1>7, <1>8 DEF IInv, Space
<1>12. ~stuck' => \A x \in VPage : Mapped(x)' =>
          (\E v \in Live' : x \in Pages(v)') \/ (\E q \in Proc : x \in Has(q)')
  BY <1>2, <1>4, <1>5, <1>6, <1>8, <1>9 DEF IInv, Space
<1>13. \A q \in Proc :
          /\ pc'[q] = "find" => loc'[q].i < PagesOf(loc'[q].n)
          /\ pc'[q] = "vmm" => loc'[q].i = 0
          /\ pc'[q] \in {"frame", "walk"} => loc'[q].i < PagesOf(loc'[q].n)
          /\ pc'[q] \in {"vmm_out", "clear", "heap_out"} => loc'[q].i = PagesOf(loc'[q].n)
          /\ pc'[q] \in Releasing => loc'[q].i < loc'[q].n
  BY <1>1, <1>2 DEF OthersSame, IInv, Space, Releasing
<1>14. Releasing' = Releasing /\ VPage' = VPage
  BY DEF Releasing, VPage
<1>. QED BY <1>10, <1>11, <1>12, <1>13, <1>14 DEF Space

\* kfree takes the pages of the block.
LEMMA OldBlock ==
    ASSUME IInv, NEW p \in Proc, ReadHeader(p)
    PROVE  /\ loc[p].ptr \in Live /\ loc[p].ptr \in VPage /\ Live' = Live \ {loc[p].ptr}
           /\ \A v \in VPage : v # loc[p].ptr => live'[v] = live[v]
           /\ Has(p)' = Pages(loc[p].ptr) /\ loc'[p].i < loc'[p].n
           /\ pc[p] = "free" /\ pc'[p] = "free_vmm" /\ loc'[p].old = loc[p].old
<1>1. pc[p] = "free" /\ pc'[p] = "free_vmm" /\ live \in [VPage -> Block] /\ loc \in [Proc -> Local]
  BY DEF ReadHeader, From, IInv, Types
<1>2. PICK a, n : a = loc[p].ptr /\ n = Load(loc[p].ptr * PageUnits)[1]
  OBVIOUS
<1>3. a \in Live /\ n = PagesOf(live[a].n) /\ n \in Nat \ {0}
  BY <1>1, <1>2, HeaderRead
<1>4. a \in VPage /\ a \in Nat
  BY <1>3 DEF Live, VPage
<1>5. live' = [live EXCEPT ![a] = NoBlock]
  BY <1>2 DEF ReadHeader
<1>6. loc' = [loc EXCEPT ![p].n = n, ![p].i = 0]
  BY <1>2 DEF ReadHeader
<1>7. loc'[p].n = n /\ loc'[p].i = 0 /\ loc'[p].ptr = a /\ loc'[p].old = loc[p].old
  BY <1>1, <1>2, <1>6 DEF Local
<1>8. Has(p)' = a..(a + n - 1)
  BY <1>1, <1>4, <1>7 DEF Has, Target, Releasing
<1>9. Live' = Live \ {a} /\ \A v \in VPage : v # a => live'[v] = live[v]
  BY <1>1, <1>4, <1>5 DEF Live
<1>. QED BY <1>1, <1>2, <1>3, <1>4, <1>7, <1>8, <1>9 DEF Pages

\* ReadHeader divides the space as before, with one block less.
LEMMA SpaceReadHeader ==
    ASSUME IInv, NEW p \in Proc, ReadHeader(p)
    PROVE  Space'
<1>1. OthersSame(p) /\ pc \in [Proc -> Pc]
  BY StepIsOwn DEF IInv, Types, Step
<1>2. UNCHANGED <<pte, stuck>>
  BY DEF ReadHeader, stock, tables
<1>3. PICK a : a = loc[p].ptr
  OBVIOUS
<1>4. a \in Live /\ Live' = Live \ {a} /\ Has(p)' = Pages(a)
  BY <1>3, OldBlock
<1>5. pc[p] = "free" /\ pc'[p] = "free_vmm" /\ loc'[p].i < loc'[p].n
  BY OldBlock
<1>6. \A v \in Live' : Pages(v)' = Pages(v)
  BY <1>3, <1>4, OldBlock DEF Pages, Live
<1>7. Has(p) = {} /\ Seen(p)' = {}
  BY <1>5 DEF Has, Seen, Releasing
<1>8. \A q \in Proc : q # p => Has(q)' = Has(q) /\ Seen(q)' = Seen(q)
  BY <1>1 DEF OthersSame, Has, Seen, Target
<1>9. \A v : Mapped(v)' <=> Mapped(v)
  BY <1>2 DEF Mapped
<1>10. /\ \A v \in Live' : \A x \in Pages(v)' : Mapped(x)'
       /\ \A u, v \in Live' : u # v => Pages(u)' \cap Pages(v)' = {}
       /\ \A q \in Proc : \A x \in Has(q)' : Mapped(x)'
       /\ \A q \in Proc : \A x \in Seen(q)' : x \in VPage /\ ~Mapped(x)'
  BY <1>4, <1>6, <1>7, <1>8, <1>9 DEF IInv, Space
<1>11. /\ \A v \in Live', q \in Proc : Pages(v)' \cap Has(q)' = {}
       /\ \A q, r \in Proc : q # r => Has(q)' \cap Has(r)' = {}
  BY <1>4, <1>6, <1>7, <1>8 DEF IInv, Space
<1>12. ~stuck' => \A x \in VPage : Mapped(x)' =>
          (\E v \in Live' : x \in Pages(v)') \/ (\E q \in Proc : x \in Has(q)')
  BY <1>2, <1>4, <1>6, <1>7, <1>8, <1>9 DEF IInv, Space
<1>13. \A q \in Proc :
          /\ pc'[q] = "find" => loc'[q].i < PagesOf(loc'[q].n)
          /\ pc'[q] = "vmm" => loc'[q].i = 0
          /\ pc'[q] \in {"frame", "walk"} => loc'[q].i < PagesOf(loc'[q].n)
          /\ pc'[q] \in {"vmm_out", "clear", "heap_out"} => loc'[q].i = PagesOf(loc'[q].n)
          /\ pc'[q] \in Releasing => loc'[q].i < loc'[q].n
  BY <1>1, <1>5 DEF OthersSame, IInv, Space, Releasing
<1>14. Releasing' = Releasing /\ VPage' = VPage
  BY DEF Releasing, VPage
<1>. QED BY <1>10, <1>11, <1>12, <1>13, <1>14 DEF Space

\* A caller that writes into its block, and memcpy, change what the block holds.
LEMMA DataOnly ==
    ASSUME IInv, NEW p \in Proc, Fill(p) \/ Copy(p)
    PROVE  /\ loc[p].ptr \in Live /\ loc[p].ptr \in VPage /\ live[loc[p].ptr].n = loc[p].n
           /\ Live' = Live /\ \A v \in VPage : live'[v].n = live[v].n
           /\ \A v \in VPage : v # loc[p].ptr => live'[v] = live[v]
           /\ Fill(p) => live'[loc[p].ptr].data = [k \in 1..loc[p].n |-> Data(loc[p].ptr)]
           /\ Copy(p) => live'[loc[p].ptr].data = Resized(live[loc[p].old].data, loc[p].n)
<1>1. pc[p] \in {"fill", "copy"} /\ live \in [VPage -> Block]
  BY DEF Fill, Copy, Return, From, IInv, Types
<1>2. PICK a : a = loc[p].ptr
  OBVIOUS
<1>3. a \in VPage /\ a \in Live /\ live[a].n = loc[p].n
  BY <1>1, <1>2 DEF IInv, Claims, Claim
<1>4. live[a].n \in Nat /\ live[a].n # 0
  BY <1>3, HeapAssumption DEF IInv, Types
<1>5. ASSUME NEW s, live' = [live EXCEPT ![a].data = s]
      PROVE  /\ Live' = Live /\ \A v \in VPage : live'[v].n = live[v].n
             /\ \A v \in VPage : v # a => live'[v] = live[v]
             /\ live'[a].data = s
  <2>1. live'[a] = [live[a] EXCEPT !.data = s] /\ \A v \in VPage : v # a => live'[v] = live[v]
    BY <1>1, <1>3, <1>5
  <2>2. live'[a].n = live[a].n /\ live'[a].data = s
    BY <1>1, <1>3, <2>1 DEF Block
  <2>3. live'[a] # NoBlock
    BY <1>4, <2>2 DEF NoBlock
  <2>4. Live' = Live
    BY <1>3, <2>1, <2>3 DEF Live
  <2>. QED BY <2>1, <2>2, <2>4
<1>6. CASE Fill(p)
  <2>1. PICK s : s = [k \in 1..loc[p].n |-> Data(a)]
    OBVIOUS
  <2>2. live' = [live EXCEPT ![a].data = s]
    BY <1>2, <1>6, <2>1 DEF Fill
  <2>3. ~Copy(p)
    BY <1>6 DEF Fill, Copy, Return, From
  <2>. QED BY <1>2, <1>3, <1>5, <2>1, <2>2, <2>3
<1>7. CASE Copy(p)
  <2>1. PICK s : s = Resized(live[loc[p].old].data, loc[p].n)
    OBVIOUS
  <2>2. live' = [live EXCEPT ![a].data = s]
    BY <1>2, <1>7, <2>1 DEF Copy
  <2>3. ~Fill(p)
    BY <1>7 DEF Fill, Copy, Return, From
  <2>. QED BY <1>2, <1>3, <1>5, <2>1, <2>2, <2>3
<1>. QED BY <1>6, <1>7

\* A turn of vmm_find looks at one more page, and what it has seen so far is free.
LEMMA SpaceFind ==
    ASSUME IInv, NEW p \in Proc, Find(p) \/ Found(p)
    PROVE  Space'
<1>1. OthersSame(p) /\ pc \in [Proc -> Pc] /\ TypeOK /\ loc \in [Proc -> Local] /\ pc[p] = "find"
  BY StepIsOwn DEF IInv, Types, Step, Find, Found, From
<1>2. PICK a, i, n, w : a = loc[p].ptr /\ i = loc[p].i /\ n = PagesOf(loc[p].n) /\ w = a + i
  OBVIOUS
<1>3. a \in Nat /\ i \in Nat /\ loc[p].n \in Nat /\ n \in Nat \ {0} /\ i < n /\ w \in Nat
  BY <1>1, <1>2, PagesEnough DEF Local, IInv, Space
<1>4. w = Target(p) /\ w \in VPage
  BY <1>2 DEF Target, Find, Found
<1>5. UNCHANGED <<pte, stuck, live>> /\ Live' = Live
  BY DEF Find, Found, stock, tables, Live
<1>6. Has(p) = {} /\ \A x \in a..(w - 1) : x \in VPage /\ ~Mapped(x)
  BY <1>1, <1>2, <1>3 DEF Has, Seen, Releasing, IInv, Space
<1>7. CASE Find(p) /\ Mapped(w)
  <2>1. pc'[p] = "find" /\ loc' = [loc EXCEPT ![p].ptr = a + 1, ![p].i = 0]
    BY <1>1, <1>2, <1>4, <1>7 DEF Find, From
  <2>2. loc'[p].ptr = a + 1 /\ loc'[p].i = 0 /\ loc'[p].n = loc[p].n
    BY <1>1, <2>1 DEF Local
  <2>3. Has(p)' = {} /\ Seen(p)' = {}
    BY <1>3, <2>1, <2>2 DEF Has, Seen, Releasing
  <2>4. loc'[p].i < PagesOf(loc'[p].n)
    BY <1>2, <1>3, <2>2
  <2>. QED BY <1>1, <1>5, <1>6, <2>1, <2>3, <2>4, SpaceSame DEF Releasing
<1>8. CASE Find(p) /\ ~Mapped(w)
  <2>1. pc'[p] = "find" /\ loc' = [loc EXCEPT ![p].i = i + 1] /\ ~(i + 1 >= n)
    BY <1>1, <1>2, <1>4, <1>8 DEF Find, From, RangeFound
  <2>2. loc'[p].ptr = a /\ loc'[p].i = i + 1 /\ loc'[p].n = loc[p].n
    BY <1>1, <1>2, <2>1 DEF Local
  <2>3. Has(p)' = {} /\ Seen(p)' = a..w
    <3>1. Seen(p)' = a..(a + (i + 1) - 1)
      BY <2>1, <2>2 DEF Seen
    <3>2. a + (i + 1) - 1 = w
      BY <1>2, <1>3
    <3>3. Has(p)' = {}
      BY <2>1 DEF Has, Releasing
    <3>. QED BY <3>1, <3>2, <3>3
  <2>4. loc'[p].i < PagesOf(loc'[p].n)
    BY <1>2, <1>3, <2>1, <2>2
  <2>5. \A x \in Seen(p)' : x \in VPage /\ ~Mapped(x)
    <3>1. \A x \in a..w : x \in a..(w - 1) \/ x = w
      BY <1>3
    <3>. QED BY <1>4, <1>6, <1>8, <2>3, <3>1
  <2>. QED BY <1>1, <1>5, <1>6, <2>1, <2>3, <2>4, <2>5, SpaceSame DEF Releasing
<1>9. CASE Found(p)
  <2>1. pc'[p] = "vmm" /\ loc' = [loc EXCEPT ![p].i = 0] /\ i + 1 >= n /\ ~Mapped(w)
    BY <1>1, <1>2, <1>4, <1>9 DEF Found, From, RangeFound, Set
  <2>2. loc'[p].ptr = a /\ loc'[p].i = 0 /\ loc'[p].n = loc[p].n
    BY <1>1, <1>2, <2>1 DEF Local
  <2>3. Has(p)' = {} /\ Seen(p)' = a..w
    <3>1. Seen(p)' = (a + 0)..(a + n - 1)
      BY <1>2, <2>1, <2>2 DEF Seen, Target
    <3>2. a + n - 1 = w /\ a + 0 = a
      BY <1>2, <1>3, <2>1
    <3>3. Has(p)' = {}
      BY <2>1 DEF Has, Releasing
    <3>. QED BY <3>1, <3>2, <3>3
  <2>4. \A x \in Seen(p)' : x \in VPage /\ ~Mapped(x)
    <3>1. \A x \in a..w : x \in a..(w - 1) \/ x = w
      BY <1>3
    <3>. QED BY <1>4, <1>6, <2>1, <2>3, <3>1
  <2>. QED BY <1>1, <1>5, <1>6, <2>1, <2>2, <2>3, <2>4, SpaceSame DEF Releasing
<1>. QED BY <1>4, <1>7, <1>8, <1>9

\* Blocks and calls keep apart, whatever step a context takes.
LEMMA SpaceStep ==
    ASSUME IInv, NEW p \in Proc, Kmalloc(p) \/ Krealloc(p) \/ Kfree(p) \/ Step(p)
    PROVE  Space'
<1>1. OthersSame(p) /\ pc \in [Proc -> Pc] /\ TypeOK /\ loc \in [Proc -> Local]
  BY StepIsOwn DEF IInv, Types
<1>. DEFINE None == {"idle", "heap", "check", "null", "free", "fill", "copy", "free_out",
                     "vmm_null"}
<1>2. ASSUME UNCHANGED <<pte, stuck>>, Live' = Live, \A v \in VPage : live'[v].n = live[v].n,
             pc[p] \in None, pc'[p] \in None
      PROVE  Space'
  <2>1. Has(p) = {} /\ Has(p)' = {} /\ Seen(p)' = {}
    BY <1>2 DEF Has, Seen, Releasing
  <2>. QED BY <1>1, <1>2, <2>1, SpaceSame DEF Releasing
<1>3. CASE Kmalloc(p) \/ Krealloc(p) \/ Kfree(p) \/ HeapAcquire(p) \/ ReturnNull(p)
  <2>1. UNCHANGED <<pte, stuck, live>> /\ pc[p] \in None /\ pc'[p] \in None
    BY <1>1, <1>3
    DEF Kmalloc, Krealloc, Kfree, Call, HeapAcquire, ReturnNull, Return, From, stock, tables
  <2>. QED BY <1>2, <2>1 DEF Live
<1>4. CASE Fill(p) \/ Copy(p)
  <2>1. UNCHANGED <<pte, stuck>> /\ pc[p] \in None /\ pc'[p] \in None
    BY <1>1, <1>4 DEF Fill, Copy, Return, From, stock, tables
  <2>. QED BY <1>2, <1>4, <2>1, DataOnly
<1>5. CASE Check(p)
  <2>1. UNCHANGED <<pte, stuck, live>> /\ pc[p] = "check" /\ pc'[p] \in {"null", "find"}
        /\ loc' = [loc EXCEPT ![p].ptr = 0, ![p].i = 0]
    BY <1>1, <1>5 DEF Check, From, stock, tables
  <2>2. loc'[p].ptr = 0 /\ loc'[p].i = 0 /\ loc'[p].n = loc[p].n /\ loc[p].n \in Nat
    BY <1>1, <2>1 DEF Local
  <2>3. Has(p) = {} /\ Has(p)' = {} /\ Seen(p)' = {}
    <3>1. Has(p) = {} /\ Has(p)' = {}
      BY <2>1 DEF Has, Releasing
    <3>2. Seen(p)' = 0..(0 + 0 - 1) \/ Seen(p)' = {}
      BY <2>1, <2>2 DEF Seen
    <3>. QED BY <3>1, <3>2
  <2>4. loc'[p].i < PagesOf(loc'[p].n)
    BY <2>2, PagesEnough
  <2>. QED BY <1>1, <2>1, <2>3, <2>4, SpaceSame DEF Releasing, Live
<1>6. CASE Find(p) \/ Found(p)
  BY <1>6, SpaceFind
<1>7. CASE VmmAcquire(p)
  <2>1. UNCHANGED <<pte, stuck, live, loc>>
    BY <1>7 DEF VmmAcquire, stock, tables
  <2>2. CASE pc[p] = "vmm"
    <3>1. pc'[p] = "frame" /\ loc[p].i = 0 /\ loc[p].ptr \in Nat /\ loc[p].n \in Nat
      BY <1>1, <1>7, <2>2 DEF VmmAcquire, From, IInv, Space, Local
    <3>2. Has(p) = {} /\ Has(p)' = {}
      BY <2>1, <2>2, <3>1 DEF Has, Releasing
    <3>3. Seen(p)' = Seen(p)
      BY <2>1, <2>2, <3>1 DEF Seen, Target
    <3>4. \A w \in Seen(p)' : w \in VPage /\ ~Mapped(w)
      BY <3>3 DEF IInv, Space
    <3>5. loc'[p].i < PagesOf(loc'[p].n)
      BY <2>1, <3>1, PagesEnough
    <3>. QED BY <1>1, <2>1, <3>1, <3>2, <3>4, <3>5, SpaceSame DEF Releasing, Live
  <2>3. CASE pc[p] = "free_vmm"
    <3>1. pc'[p] = "put" /\ loc[p].i < loc[p].n
      BY <1>1, <1>7, <2>3 DEF VmmAcquire, From, IInv, Space, Releasing
    <3>2. Has(p)' = Has(p) /\ Seen(p)' = {}
      BY <2>1, <2>3, <3>1 DEF Has, Seen, Target, Releasing
    <3>. QED BY <1>1, <2>1, <3>1, <3>2, SpaceSame DEF Releasing, Live
  <2>. QED BY <1>7, <2>2, <2>3 DEF VmmAcquire, From
<1>8. CASE Frame(p) \/ MapTable(p)
  <2>1. /\ UNCHANGED <<pte, live>> /\ stuck' = stuck /\ pc[p] \in {"frame", "walk"}
        /\ pc'[p] = "walk"
    BY <1>1, <1>8 DEF Frame, MapTable, From, TakeFrame, tables
  <2>2. loc'[p].i = loc[p].i /\ loc'[p].n = loc[p].n /\ loc'[p].ptr = loc[p].ptr
    BY <1>1, <1>8 DEF Frame, MapTable, Set, Local
  <2>3. Has(p)' = Has(p) /\ Seen(p)' = Seen(p)
    BY <2>1, <2>2 DEF Has, Seen, Target
  <2>4. loc'[p].i < PagesOf(loc'[p].n) /\ \A w \in Seen(p)' : w \in VPage /\ ~Mapped(w)
    BY <2>1, <2>2, <2>3 DEF IInv, Space
  <2>. QED BY <1>1, <2>1, <2>3, <2>4, SpaceSame DEF Releasing, Live
<1>9. CASE FrameFails(p) \/ MapTableFails(p)
  <2>1. UNCHANGED <<pte, live>> /\ stuck' /\ pc'[p] \in {"vmm_null", "hung"}
    BY <1>1, <1>9 DEF FrameFails, MapTableFails, From, NoFrame, tables
  <2>2. Has(p)' = {} /\ Seen(p)' = {}
    BY <2>1 DEF Has, Seen, Releasing
  <2>. QED BY <1>1, <2>1, <2>2, SpaceSame DEF Releasing, Live
<1>10. CASE VmmRelease(p)
  <2>1. UNCHANGED <<pte, stuck, live>>
    BY <1>10 DEF VmmRelease, stock, tables
  <2>2. CASE pc[p] = "vmm_out"
    <3>1. pc'[p] = "clear" /\ loc' = loc /\ loc[p].i = PagesOf(loc[p].n)
      BY <1>1, <1>10, <2>2 DEF VmmRelease, Return, From, IInv, Space
    <3>2. Has(p)' = Has(p) /\ Seen(p)' = {}
      BY <2>2, <3>1 DEF Has, Seen
    <3>. QED BY <1>1, <2>1, <3>1, <3>2, SpaceSame DEF Releasing, Live
  <2>3. CASE pc[p] # "vmm_out"
    <3>1. pc[p] \in None /\ pc'[p] \in None
      BY <1>1, <1>10, <2>3 DEF VmmRelease, Return, From
    <3>. QED BY <1>2, <2>1, <3>1 DEF Live
  <2>. QED BY <2>2, <2>3
<1>11. CASE Clear(p)
  <2>1. UNCHANGED <<pte, stuck, live, loc>> /\ pc[p] = "clear" /\ pc'[p] = "heap_out"
        /\ loc[p].i = PagesOf(loc[p].n)
    BY <1>1, <1>11 DEF Clear, From, stock, tables, IInv, Space
  <2>2. Has(p)' = Has(p) /\ Seen(p)' = {}
    BY <2>1 DEF Has, Seen
  <2>. QED BY <1>1, <2>1, <2>2, SpaceSame DEF Releasing, Live
<1>12. CASE Put(p)
  <2>1. UNCHANGED <<pte, live>> /\ pc[p] = "put"
    BY <1>12 DEF Put, tables
  <2>2. loc[p].ptr \in Nat /\ loc[p].i \in Nat /\ loc[p].n \in Nat /\ loc[p].i < loc[p].n
    BY <1>1, <2>1 DEF Local, IInv, Space, Releasing
  <2>3. Target(p) \in Has(p)
    BY <2>1, <2>2 DEF Has, Target, Releasing
  <2>4. Mapped(Target(p))
    BY <2>1, <2>3 DEF IInv, Space
  <2>5. pc'[p] = "unmap" /\ loc' = loc /\ stuck' = stuck
    BY <1>1, <1>12, <2>4 DEF Put, From, GiveFrame
  <2>6. Has(p)' = Has(p) /\ Seen(p)' = {}
    BY <2>1, <2>5 DEF Has, Seen, Target, Releasing
  <2>. QED BY <1>1, <2>1, <2>2, <2>5, <2>6, SpaceSame DEF Releasing, Live
<1>. QED BY <1>3, <1>4, <1>5, <1>6, <1>7, <1>8, <1>9, <1>10, <1>11, <1>12, SpaceMapPage,
            SpaceUnmap, SpaceHeapRelease, SpaceReadHeader DEF Step

-----------------------------------------------------------------------------
(* Who works on which block.                                               *)

\* A caller names a block that no call works on.
LEMMA ClaimsCall ==
    ASSUME IInv, ~AllowShrink, NEW p \in Proc, Krealloc(p) \/ Kfree(p)
    PROVE  Claims'
<1>1. OthersSame(p) /\ pc \in [Proc -> Pc] /\ loc \in [Proc -> Local]
  BY StepIsOwn DEF IInv, Types
<1>2. live' = live /\ Live' = Live
  BY DEF Krealloc, Kfree, Call, Live
<1>3. PICK v \in Live : /\ ~Engaged(v) /\ loc'[p].old = v
                        /\ \/ pc'[p] = "heap" /\ live[v].n <= loc'[p].n
                           \/ pc'[p] = "free" /\ loc'[p].ptr = v
  <2>1. CASE Krealloc(p)
    <3>1. PICK v \in Live, n \in Sizes : /\ ~Engaged(v) /\ n >= live[v].n
                                         /\ loc' = [loc EXCEPT ![p].n = n, ![p].old = v]
      BY <2>1 DEF Krealloc
    <3>2. loc'[p].n = n /\ loc'[p].old = v /\ n \in Nat /\ live[v].n \in Nat
      BY <1>1, <3>1, HeapAssumption DEF Local, IInv, Types
    <3>3. pc'[p] = "heap"
      BY <1>1, <2>1 DEF Krealloc, Call, From
    <3>. QED BY <3>1, <3>2, <3>3
  <2>2. CASE Kfree(p)
    <3>1. PICK v \in Live : ~Engaged(v) /\ loc' = [loc EXCEPT ![p].ptr = v, ![p].old = v]
      BY <2>2 DEF Kfree
    <3>2. loc'[p].ptr = v /\ loc'[p].old = v
      BY <1>1, <3>1 DEF Local
    <3>3. pc'[p] = "free"
      BY <1>1, <2>2 DEF Kfree, Call, From
    <3>. QED BY <3>1, <3>2, <3>3
  <2>. QED BY <2>1, <2>2
<1>4. v \in VPage
  BY DEF Live
<1>5. Claim(p)' = {v}
  BY <1>3, <1>4 DEF Claim, Request, HeapHeld
<1>6. \A q \in Proc : q # p => Claim(q)' = Claim(q)
  BY <1>1 DEF OthersSame, Claim
<1>7. \A q \in Proc : v \notin Claim(q)
  BY <1>1, <1>3, <1>4 DEF Claim, Engaged, Pc, Request, HeapHeld, Releasing
<1>8. /\ \A q \in Proc : Claim(q)' \subseteq Live'
      /\ \A q, r \in Proc : q # r => Claim(q)' \cap Claim(r)' = {}
  BY <1>2, <1>5, <1>6, <1>7 DEF IInv, Claims
<1>9. ASSUME NEW q \in Proc
      PROVE  /\ pc'[q] \in Request /\ loc'[q].old # -1 => live'[loc'[q].old].n <= loc'[q].n
             /\ pc'[q] \in {"fill", "copy"} =>
                   loc'[q].ptr \in VPage /\ live'[loc'[q].ptr].n = loc'[q].n
             /\ pc'[q] = "fill" => loc'[q].old = -1
             /\ pc'[q] = "copy" => loc'[q].old \in VPage \ {loc'[q].ptr}
             /\ pc'[q] = "free" => loc'[q].ptr = loc'[q].old /\ loc'[q].old \in VPage
  <2>1. CASE q = p
    BY <1>2, <1>3, <1>4, <2>1 DEF Request, HeapHeld
  <2>2. CASE q # p
    <3>1. pc'[q] = pc[q] /\ loc'[q] = loc[q]
      BY <1>1, <2>2 DEF OthersSame
    <3>. QED BY <1>2, <3>1 DEF IInv, Claims
  <2>. QED BY <2>1, <2>2
<1>10. Request' = Request /\ VPage' = VPage
  BY DEF Request, HeapHeld, VPage
<1>. QED BY <1>8, <1>9, <1>10 DEF Claims

\* A new block belongs to the call that made it.
LEMMA ClaimsHeapRelease ==
    ASSUME IInv, NEW p \in Proc, HeapRelease(p)
    PROVE  Claims'
<1>1. OthersSame(p) /\ pc \in [Proc -> Pc] /\ loc \in [Proc -> Local]
  BY StepIsOwn DEF IInv, Types, Step
<1>2. PICK a : a = loc[p].ptr
  OBVIOUS
<1>3. /\ a \in VPage /\ a \notin Live /\ Live' = Live \cup {a} /\ live'[a].n = loc[p].n
      /\ \A v \in VPage : v # a => live'[v] = live[v]
  BY <1>2, NewBlock
<1>4. pc[p] = "heap_out" /\ loc' = loc /\ pc'[p] = IF loc[p].old = -1 THEN "fill" ELSE "copy"
  BY <1>1 DEF HeapRelease, From
<1>5. loc[p].old \in VPage \cup {-1}
  BY <1>1 DEF Local
<1>6. Claim(p)' = Claim(p) \cup {a}
  BY <1>2, <1>3, <1>4 DEF Claim, Request, HeapHeld
<1>7. \A q \in Proc : q # p => Claim(q)' = Claim(q)
  BY <1>1 DEF OthersSame, Claim
<1>8. /\ \A q \in Proc : Claim(q)' \subseteq Live'
      /\ \A q, r \in Proc : q # r => Claim(q)' \cap Claim(r)' = {}
  BY <1>3, <1>6, <1>7 DEF IInv, Claims
<1>9. loc[p].old # -1 => loc[p].old \in Live /\ live[loc[p].old].n <= loc[p].n
  BY <1>4, <1>5 DEF IInv, Claims, Claim, Request, HeapHeld
<1>10. ASSUME NEW q \in Proc
       PROVE  /\ pc'[q] \in Request /\ loc'[q].old # -1 => live'[loc'[q].old].n <= loc'[q].n
              /\ pc'[q] \in {"fill", "copy"} =>
                    loc'[q].ptr \in VPage /\ live'[loc'[q].ptr].n = loc'[q].n
              /\ pc'[q] = "fill" => loc'[q].old = -1
              /\ pc'[q] = "copy" => loc'[q].old \in VPage \ {loc'[q].ptr}
              /\ pc'[q] = "free" => loc'[q].ptr = loc'[q].old /\ loc'[q].old \in VPage
  <2>1. CASE q = p
    <3>1. loc[p].old # -1 => live'[loc[p].old].n <= loc[p].n
      BY <1>3, <1>5, <1>9
    <3>2. loc[p].old # -1 => loc[p].old \in VPage \ {a}
      BY <1>3, <1>5, <1>9
    <3>. QED BY <1>2, <1>3, <1>4, <2>1, <3>1, <3>2
  <2>2. CASE q # p
    <3>1. pc'[q] = pc[q] /\ loc'[q] = loc[q] /\ loc[q].old \in VPage \cup {-1}
      BY <1>1, <2>2 DEF OthersSame, Local
    <3>2. pc[q] \in Request /\ loc[q].old # -1 => loc[q].old \in Live
      BY <3>1 DEF IInv, Claims, Claim
    <3>3. pc[q] \in {"fill", "copy"} => loc[q].ptr \in Live
      BY DEF IInv, Claims, Claim
    <3>. QED BY <1>3, <3>1, <3>2, <3>3 DEF IInv, Claims
  <2>. QED BY <2>1, <2>2
<1>11. Request' = Request /\ VPage' = VPage
  BY DEF Request, HeapHeld, VPage
<1>. QED BY <1>8, <1>10, <1>11 DEF Claims

\* kfree gives up a block that only it works on.
LEMMA ClaimsReadHeader ==
    ASSUME IInv, NEW p \in Proc, ReadHeader(p)
    PROVE  Claims'
<1>1. OthersSame(p) /\ pc \in [Proc -> Pc] /\ loc \in [Proc -> Local]
  BY StepIsOwn DEF IInv, Types, Step
<1>2. PICK a : a = loc[p].ptr
  OBVIOUS
<1>3. /\ a \in VPage /\ Live' = Live \ {a} /\ \A v \in VPage : v # a => live'[v] = live[v]
      /\ pc[p] = "free" /\ pc'[p] = "free_vmm"
  BY <1>2, OldBlock
<1>4. a \in Claim(p) /\ Claim(p)' = {}
  BY <1>2, <1>3 DEF IInv, Claims, Claim, Request, HeapHeld
<1>5. \A q \in Proc : q # p => Claim(q)' = Claim(q) /\ a \notin Claim(q)
  BY <1>1, <1>4 DEF OthersSame, IInv, Claims, Claim
<1>6. /\ \A q \in Proc : Claim(q)' \subseteq Live'
      /\ \A q, r \in Proc : q # r => Claim(q)' \cap Claim(r)' = {}
  BY <1>3, <1>4, <1>5 DEF IInv, Claims
<1>7. ASSUME NEW q \in Proc
      PROVE  /\ pc'[q] \in Request /\ loc'[q].old # -1 => live'[loc'[q].old].n <= loc'[q].n
             /\ pc'[q] \in {"fill", "copy"} =>
                   loc'[q].ptr \in VPage /\ live'[loc'[q].ptr].n = loc'[q].n
             /\ pc'[q] = "fill" => loc'[q].old = -1
             /\ pc'[q] = "copy" => loc'[q].old \in VPage \ {loc'[q].ptr}
             /\ pc'[q] = "free" => loc'[q].ptr = loc'[q].old /\ loc'[q].old \in VPage
  <2>1. CASE q = p
    BY <1>3, <2>1 DEF Request, HeapHeld
  <2>2. CASE q # p
    <3>1. pc'[q] = pc[q] /\ loc'[q] = loc[q] /\ loc[q].old \in VPage \cup {-1} /\ a \notin Claim(q)
      BY <1>1, <1>5, <2>2 DEF OthersSame, Local
    <3>2. pc[q] \in Request /\ loc[q].old # -1 => loc[q].old \in VPage /\ loc[q].old # a
      BY <1>3, <3>1 DEF Claim
    <3>3. pc[q] \in {"fill", "copy"} => loc[q].ptr \in VPage /\ loc[q].ptr # a
      BY <3>1 DEF IInv, Claims, Claim
    <3>. QED BY <1>3, <3>1, <3>2, <3>3 DEF IInv, Claims
  <2>. QED BY <2>1, <2>2
<1>8. Request' = Request /\ VPage' = VPage
  BY DEF Request, HeapHeld, VPage
<1>. QED BY <1>6, <1>7, <1>8 DEF Claims

\* No two calls work on a block, whatever step a context takes.
LEMMA ClaimsStep ==
    ASSUME IInv, ~AllowShrink, NEW p \in Proc, Kmalloc(p) \/ Krealloc(p) \/ Kfree(p) \/ Step(p)
    PROVE  Claims'
<1>1. OthersSame(p) /\ pc \in [Proc -> Pc] /\ loc \in [Proc -> Local] /\ loc' \in [Proc -> Local]
  BY StepIsOwn, LocalTypes DEF IInv, Types
<1>2. loc[p].old \in VPage \cup {-1} /\ loc'[p].old \in VPage \cup {-1} /\ -1 \notin VPage
  BY <1>1 DEF Local, VPage
<1>. DEFINE Asking == Request \ {"fill", "copy"}
           Done == {"idle", "free_vmm", "put", "unmap", "free_out"}
<1>3. ASSUME live' = live, pc'[p] \in Asking,
             \/ loc'[p].old = -1
             \/ pc[p] \in Asking /\ loc'[p].old = loc[p].old /\ loc'[p].n = loc[p].n
      PROVE  Claims'
  <2>1. Claim(p)' \subseteq Claim(p)
    BY <1>2, <1>3 DEF Claim, Request, HeapHeld
  <2>2. pc'[p] \in Request /\ loc'[p].old # -1 => live[loc'[p].old].n <= loc'[p].n
    BY <1>3 DEF IInv, Claims
  <2>3. pc'[p] \notin {"fill", "copy", "free"}
    BY <1>3 DEF Request, HeapHeld
  <2>. QED BY <1>1, <1>2, <1>3, <2>1, <2>2, <2>3, ClaimsSame DEF Live
<1>4. ASSUME Live' = Live, \A v \in VPage : live'[v].n = live[v].n, pc'[p] \in Done
      PROVE  Claims'
  <2>1. Claim(p)' = {} /\ pc'[p] \notin Request /\ pc'[p] # "free"
    BY <1>4 DEF Claim, Request, HeapHeld
  <2>. QED BY <1>1, <1>2, <1>4, <2>1, ClaimsSame DEF Request
<1>5. CASE Kmalloc(p)
  <2>1. live' = live /\ pc'[p] = "heap" /\ loc'[p].old = -1
    BY <1>1, <1>5 DEF Kmalloc, Call, From, Local
  <2>. QED BY <1>3, <2>1 DEF Request, HeapHeld
<1>6. CASE HeapAcquire(p) \/ Check(p) \/ Find(p) \/ Found(p) \/ Frame(p) \/ FrameFails(p)
           \/ MapTable(p) \/ MapTableFails(p) \/ MapPage(p) \/ Clear(p)
  <2>1. live' = live /\ pc[p] \in Asking /\ pc'[p] \in Asking
    BY <1>1, <1>6
    DEF HeapAcquire, Check, Find, Found, Frame, FrameFails, MapTable, MapTableFails, MapPage,
        Clear, From, Request, HeapHeld
  <2>2. loc'[p].old = loc[p].old /\ loc'[p].n = loc[p].n
    BY <1>1, <1>6
    DEF HeapAcquire, Check, Find, Found, Frame, FrameFails, MapTable, MapTableFails, MapPage,
        Clear, Set, Local
  <2>. QED BY <1>3, <2>1, <2>2
<1>7. CASE VmmAcquire(p) \/ VmmRelease(p)
  <2>1. live' = live /\ Live' = Live
    BY <1>7 DEF VmmAcquire, VmmRelease, Live
  <2>2. \/ pc'[p] \in Done
        \/ pc[p] \in Asking /\ pc'[p] \in Asking /\ loc' = loc
    BY <1>1, <1>7 DEF VmmAcquire, VmmRelease, Return, From, Request, HeapHeld
  <2>. QED BY <1>3, <1>4, <2>1, <2>2
<1>8. CASE ReturnNull(p) \/ Put(p) \/ Unmap(p)
  <2>1. live' = live /\ pc'[p] \in Done
    BY <1>1, <1>8 DEF ReturnNull, Put, Unmap, Return, From, NextPut
  <2>. QED BY <1>4, <2>1 DEF Live
<1>9. CASE Fill(p)
  <2>1. pc'[p] \in Done
    BY <1>1, <1>9 DEF Fill, Return, From
  <2>. QED BY <1>4, <1>9, <2>1, DataOnly
<1>10. CASE Copy(p)
  <2>1. pc[p] = "copy" /\ pc'[p] = "free" /\ loc' = [loc EXCEPT ![p].ptr = loc[p].old]
    BY <1>1, <1>10 DEF Copy, From, Set
  <2>2. loc'[p].ptr = loc[p].old /\ loc'[p].old = loc[p].old /\ loc[p].old \in VPage
    BY <1>1, <2>1 DEF Local, IInv, Claims
  <2>3. Claim(p)' \subseteq Claim(p)
    BY <2>1, <2>2 DEF Claim, Request, HeapHeld
  <2>4. pc'[p] \notin Request
    BY <2>1 DEF Request, HeapHeld
  <2>. QED BY <1>1, <1>2, <1>10, <2>1, <2>2, <2>3, <2>4, ClaimsSame, DataOnly
<1>. QED BY <1>5, <1>6, <1>7, <1>8, <1>9, <1>10, ClaimsCall, ClaimsHeapRelease,
            ClaimsReadHeader DEF Step

-----------------------------------------------------------------------------
(* What memory holds.                                                      *)

\* The virtual pages whose entry is in force.
Used == {v \in VPage : Mapped(v)} \ Dangling

\* The pages of blocks, and those of a call that is done with vmm_alloc, are in force.
LEMMA BlockUsed ==
    ASSUME IInv
    PROVE  /\ \A v \in Live : Pages(v) \subseteq Used
           /\ \A p \in Proc : pc[p] \in {"clear", "heap_out"} => Has(p) \subseteq Used
<1>1. ASSUME NEW q \in Proc, pc[q] = "unmap" PROVE Target(q) \in Has(q)
  <2>1. loc[q].ptr \in Nat /\ loc[q].i \in Nat /\ loc[q].n \in Nat /\ loc[q].i < loc[q].n
    BY <1>1 DEF IInv, Types, Local, Space, Releasing
  <2>. QED BY <1>1, <2>1 DEF Has, Target, Releasing
<1>2. ASSUME NEW v \in Live, NEW w \in Pages(v) PROVE w \in Used
  <2>1. Mapped(w) /\ \A q \in Proc : w \notin Has(q)
    BY <1>2 DEF IInv, Space
  <2>. QED BY <1>1, <2>1 DEF Used, Dangling, Mapped
<1>3. ASSUME NEW p \in Proc, pc[p] \in {"clear", "heap_out"}, NEW w \in Has(p) PROVE w \in Used
  <2>1. Mapped(w) /\ \A q \in Proc : q # p => w \notin Has(q)
    BY <1>3 DEF IInv, Space
  <2>. QED BY <1>1, <1>3, <2>1 DEF Used, Dangling, Mapped
<1>. QED BY <1>2, <1>3

\* Where the units of a block at virtual page v are: its header and n units of data.
LEMMA BlockAddress ==
    ASSUME NEW v \in Nat, NEW n \in Nat, NEW k \in 0..n
    PROVE  /\ v * PageUnits + k \in Nat
           /\ (v * PageUnits + k) \div PageUnits \in v..(v + PagesOf(n) - 1)
<1>1. k \in Nat /\ PagesOf(n) \in Nat /\ k \div PageUnits \in 0..(PagesOf(n) - 1)
  BY PagesEnough
<1>2. PICK d : d = k \div PageUnits
  OBVIOUS
<1>3. v + d \in v..(v + PagesOf(n) - 1)
  BY <1>1, <1>2
<1>. QED BY <1>1, <1>2, <1>3, UnitOfBlock

\* A block keeps its contents when nobody writes to its pages.
LEMMA BlockKept ==
    ASSUME IInv, NEW v \in Live, live'[v] = live[v], NEW W, Pages(v) \cap W = {},
           \A x \in Nat : x \div PageUnits \in Used \ W => Load(x)' = Load(x)
    PROVE  /\ HeaderTrue(v)'
           /\ \A k \in 1..live'[v].n : Load(v * PageUnits + k)' = live'[v].data[k]
<1>1. v \in Nat /\ live[v].n \in Nat
  BY HeapAssumption DEF Live, VPage, IInv, Types
<1>2. PICK n : n = live[v].n
  OBVIOUS
<1>3. ASSUME NEW k \in 0..n PROVE Load(v * PageUnits + k)' = Load(v * PageUnits + k)
  <2>1. PICK x : x = v * PageUnits + k
    OBVIOUS
  <2>2. x \in Nat /\ x \div PageUnits \in Pages(v)
    BY <1>1, <1>2, <2>1, BlockAddress DEF Pages
  <2>3. x \div PageUnits \in Used \ W
    BY <2>2, BlockUsed
  <2>. QED BY <2>1, <2>2, <2>3
<1>4. HeaderTrue(v)'
  <2>1. 0 \in 0..n /\ v * PageUnits + 0 = v * PageUnits
    BY <1>1, <1>2, HeapAssumption
  <2>2. Load(v * PageUnits)' = Load(v * PageUnits)
    BY <1>3, <2>1
  <2>3. Load(v * PageUnits) = Header(PagesOf(n), n)
    BY <1>2 DEF IInv, Contents, HeaderTrue
  <2>. QED BY <1>2, <2>2, <2>3 DEF HeaderTrue
<1>5. ASSUME NEW k \in 1..n PROVE Load(v * PageUnits + k)' = live'[v].data[k]
  <2>1. k \in 0..n
    BY <1>1, <1>2
  <2>2. Load(v * PageUnits + k) = live[v].data[k]
    BY <1>2 DEF IInv, Contents
  <2>. QED BY <1>3, <2>1, <2>2
<1>. QED BY <1>2, <1>4, <1>5

\* So does a block that kmalloc is about to return.
LEMMA FreshKept ==
    ASSUME IInv, NEW p \in Proc, pc[p] = "heap_out", loc'[p] = loc[p], NEW W, Has(p) \cap W = {},
           \A x \in Nat : x \div PageUnits \in Used \ W => Load(x)' = Load(x)
    PROVE  /\ Load(loc[p].ptr * PageUnits)' = Header(PagesOf(loc[p].n), loc[p].n)
           /\ \A k \in 1..loc[p].n : Load(loc[p].ptr * PageUnits + k)' = Zero
<1>1. loc[p].ptr \in Nat /\ loc[p].n \in Nat
  BY DEF IInv, Types, Local
<1>2. PICK a, n : a = loc[p].ptr /\ n = loc[p].n
  OBVIOUS
<1>3. Has(p) = a..(a + PagesOf(n) - 1)
  BY <1>2 DEF IInv, Space, Has
<1>4. ASSUME NEW k \in 0..n PROVE Load(a * PageUnits + k)' = Load(a * PageUnits + k)
  <2>1. PICK x : x = a * PageUnits + k
    OBVIOUS
  <2>2. x \in Nat /\ x \div PageUnits \in Has(p)
    BY <1>1, <1>2, <1>3, <2>1, BlockAddress
  <2>3. x \div PageUnits \in Used \ W
    BY <2>2, BlockUsed
  <2>. QED BY <2>1, <2>2, <2>3
<1>5. Load(a * PageUnits)' = Header(PagesOf(n), n)
  <2>1. 0 \in 0..n /\ a * PageUnits + 0 = a * PageUnits
    BY <1>1, <1>2, HeapAssumption
  <2>2. Load(a * PageUnits)' = Load(a * PageUnits)
    BY <1>4, <2>1
  <2>. QED BY <1>2, <2>2 DEF IInv, Contents
<1>6. ASSUME NEW k \in 1..n PROVE Load(a * PageUnits + k)' = Zero
  <2>1. k \in 0..n
    BY <1>1, <1>2
  <2>2. Load(a * PageUnits + k) = Zero
    BY <1>2 DEF IInv, Contents
  <2>. QED BY <1>4, <2>1, <2>2
<1>7. Load(loc[p].ptr * PageUnits)' = Load(a * PageUnits)'
      /\ \A k : Load(loc[p].ptr * PageUnits + k)' = Load(a * PageUnits + k)'
  BY <1>2 DEF Load
<1>. QED BY <1>2, <1>5, <1>6, <1>7

\* What memory holds is kept by a step that writes nowhere in force.
LEMMA ContentsKept ==
    ASSUME IInv, live' = live, NEW p \in Proc, OthersSame(p), pc'[p] \notin {"heap_out", "copy"},
           \A x \in Nat : x \div PageUnits \in Used => Load(x)' = Load(x)
    PROVE  Contents'
<1>1. Live' = Live
  BY DEF Live
<1>2. \A v \in Live : /\ HeaderTrue(v)'
                      /\ \A k \in 1..live'[v].n : Load(v * PageUnits + k)' = live'[v].data[k]
  <2>. SUFFICES ASSUME NEW v \in Live
                PROVE  /\ HeaderTrue(v)'
                       /\ \A k \in 1..live'[v].n : Load(v * PageUnits + k)' = live'[v].data[k]
    OBVIOUS
  <2>1. PICK W : W = {}
    OBVIOUS
  <2>2. Pages(v) \cap W = {} /\ \A x \in Nat : x \div PageUnits \in Used \ W => Load(x)' = Load(x)
    BY <2>1
  <2>. QED BY <2>2, BlockKept
<1>3. ASSUME NEW q \in Proc, pc'[q] = "heap_out"
      PROVE  /\ Load(loc[q].ptr * PageUnits)' = Header(PagesOf(loc'[q].n), loc'[q].n)
             /\ \A k \in 1..loc'[q].n : Load(loc[q].ptr * PageUnits + k)' = Zero
  <2>1. pc[q] = "heap_out" /\ loc'[q] = loc[q]
    BY <1>3 DEF OthersSame
  <2>2. PICK W : W = {}
    OBVIOUS
  <2>3. Has(q) \cap W = {} /\ \A x \in Nat : x \div PageUnits \in Used \ W => Load(x)' = Load(x)
    BY <2>2
  <2>. QED BY <2>1, <2>3, FreshKept
<1>4. \A q \in Proc : pc'[q] = "copy" => live'[loc'[q].ptr].data = Zeros(loc'[q].n)
  BY DEF OthersSame, IInv, Contents
<1>5. (\A n : Zeros(n)' = Zeros(n)) /\ Zero' = Zero
  BY DEF Zeros, Zero
<1>. QED BY <1>1, <1>2, <1>3, <1>4, <1>5 DEF Contents

\* The page tables change under no page in force, and a new table is cleared in a page that
\* nobody uses.
LEMMA ContentsMap ==
    ASSUME IInv, NEW p \in Proc, MapTable(p) \/ MapPage(p) \/ Unmap(p)
    PROVE  Contents'
<1>1. OthersSame(p) /\ pc \in [Proc -> Pc] /\ TypeOK
  BY StepIsOwn DEF IInv, Types, Step
<1>2. live' = live /\ pc'[p] \notin {"heap_out", "copy"}
  BY <1>1 DEF MapTable, MapPage, Unmap, From, NextPut
<1>3. ASSUME NEW x \in Nat, x \div PageUnits \in Used PROVE Load(x)' = Load(x)
  <2>1. PICK v, o : v = x \div PageUnits /\ o = x % PageUnits
    OBVIOUS
  <2>2. v \in VPage /\ pte[v] # 0 /\ v \notin Dangling /\ pte[v] \in Phys /\ pte[v] \notin free
    BY <1>1, <1>3, <2>1 DEF Used, Mapped, TypeOK, IInv, Frames, NoAlias
  <2>3. CASE MapTable(p)
    <3>1. PICK m : m = Min(free)
      OBVIOUS
    <3>2. m \in free /\ pte' = pte /\ mem' = [mem EXCEPT ![m] = [u \in Unit |-> Zero]]
      BY <2>3, <3>1, FrameTaken DEF MapTable
    <3>3. mem'[pte[v]] = mem[pte[v]]
      <4>1. mem = [f \in Phys |-> mem[f]]
        BY DEF IInv, Types
      <4>. QED BY <2>2, <3>2, <4>1
    <3>. QED BY <2>1, <3>2, <3>3 DEF Load
  <2>4. CASE MapPage(p)
    <3>1. mem' = mem /\ pte' = [pte EXCEPT ![Target(p)] = loc[p].phys] /\ pte[Target(p)] = 0
      BY <2>4, WalkTarget DEF MapPage, From, Entry
    <3>2. pte'[v] = pte[v]
      BY <1>1, <2>2, <3>1 DEF TypeOK
    <3>. QED BY <2>1, <3>1, <3>2 DEF Load
  <2>5. CASE Unmap(p)
    <3>1. mem' = mem /\ pte' = [pte EXCEPT ![Target(p)] = 0] /\ Target(p) \in Dangling
      BY <2>5 DEF Unmap, From, Entry, Dangling
    <3>2. pte'[v] = pte[v]
      BY <1>1, <2>2, <3>1 DEF TypeOK
    <3>. QED BY <2>1, <3>1, <3>2 DEF Load
  <2>. QED BY <2>3, <2>4, <2>5
<1>. QED BY <1>1, <1>2, <1>3, ContentsKept

\* What a store into pages in force leaves at an address of a page in force.
LEMMA StoreStep ==
    ASSUME IInv, pte' = pte, NEW X, NEW vals \in Seq(X), NEW u \in Nat, mem' = Stored(u, vals),
           \A k \in 1..Len(vals) : (u + k - 1) \div PageUnits \in Used
    PROVE  \A x \in Nat : x \div PageUnits \in Used =>
              Load(x)' = IF x \in u..(u + Len(vals) - 1) THEN vals[x - u + 1] ELSE Load(x)
<1>1. TypeOK /\ Used \in SUBSET VPage /\ (\A v \in Used : pte[v] # 0)
      /\ \A v, w \in Used : pte[v] = pte[w] => v = w
  BY DEF IInv, Types, Used, Mapped, Frames, NoAlias
<1>. SUFFICES ASSUME NEW x \in Nat, x \div PageUnits \in Used
              PROVE  Load(x)' = IF x \in u..(u + Len(vals) - 1) THEN vals[x - u + 1] ELSE Load(x)
  OBVIOUS
<1>2. Load(x)' = Stored(u, vals)[pte[x \div PageUnits]][x % PageUnits]
  BY DEF Load
<1>. QED BY <1>1, <1>2, StoredLoad

\* kmalloc writes the header and the zeros of its block, and nothing else.
LEMMA ContentsClear ==
    ASSUME IInv, NEW p \in Proc, Clear(p)
    PROVE  Contents'
<1>1. OthersSame(p) /\ pc \in [Proc -> Pc] /\ loc[p] \in Local
  BY StepIsOwn DEF IInv, Types, Step
<1>2. pc[p] = "clear" /\ pc'[p] = "heap_out" /\ UNCHANGED <<pte, live, loc>> /\ Live' = Live
  BY <1>1 DEF Clear, From, tables, Live
<1>3. PICK a, n, u, vals : /\ a = loc[p].ptr /\ n = loc[p].n
                           /\ u = a * PageUnits /\ vals = FreshBlock(n)
  OBVIOUS
<1>4. a \in Nat /\ n \in Nat /\ u \in Nat /\ mem' = Stored(u, vals) /\ PageUnits \in Nat
  BY <1>1, <1>3, HeapAssumption DEF Local, Clear
<1>5. Has(p) = a..(a + PagesOf(n) - 1) /\ Has(p) \subseteq Used
  BY <1>2, <1>3, BlockUsed DEF IInv, Space, Has
<1>. DEFINE X == Values \cup {Header(PagesOf(n), n)}
<1>6. /\ vals \in Seq(X) /\ Len(vals) = n + 1 /\ vals[1] = Header(PagesOf(n), n)
      /\ \A k \in 1..n : vals[k + 1] = Zero
  <2>1. Zeros(n) \in [1..n -> X]
    BY DEF Zeros, Values
  <2>2. Zeros(n) \in Seq(X) /\ Len(Zeros(n)) = n
    BY <1>4, <2>1, FunctionIsSeq
  <2>3. PICK z \in Seq(X) : z = Zeros(n)
    BY <2>2
  <2>4. \A k \in 1..n : z[k] = Zero
    BY <2>3 DEF Zeros
  <2>5. PICK h \in X : h = Header(PagesOf(n), n)
    OBVIOUS
  <2>6. vals = <<h>> \o z /\ Len(z) = n
    BY <1>3, <2>2, <2>3, <2>5 DEF FreshBlock
  <2>. HIDE DEF X
  <2>7. <<h>> \in Seq(X) /\ Len(<<h>>) = 1
    OBVIOUS
  <2>8. vals \in Seq(X) /\ Len(vals) = n + 1
    BY <1>4, <2>6, <2>7
  <2>9. vals[1] = h
    BY <1>4, <2>6, <2>7
  <2>10. \A k \in 1..n : vals[k + 1] = z[k]
    BY <1>4, <2>6, <2>7
  <2>. QED BY <2>4, <2>5, <2>8, <2>9, <2>10
<1>7. \A k \in 0..n : a * PageUnits + k \in Nat /\ (a * PageUnits + k) \div PageUnits \in Has(p)
  BY <1>4, <1>5, BlockAddress
<1>8. ASSUME NEW k \in 1..Len(vals)
      PROVE  (u + k - 1) \div PageUnits \in Has(p)
  <2>1. PICK j : j = k - 1
    OBVIOUS
  <2>2. j \in 0..n /\ u + k - 1 = a * PageUnits + j
    BY <1>3, <1>4, <1>6, <2>1
  <2>. QED BY <1>7, <2>2
<1>9. \A x \in Nat : x \div PageUnits \in Used =>
         Load(x)' = IF x \in u..(u + Len(vals) - 1) THEN vals[x - u + 1] ELSE Load(x)
  BY <1>2, <1>4, <1>5, <1>6, <1>8, StoreStep
<1>10. \A x \in Nat : x \div PageUnits \in Used \ Has(p) => Load(x)' = Load(x)
  <2>. SUFFICES ASSUME NEW x \in Nat, x \div PageUnits \in Used \ Has(p)
                PROVE  x \notin u..(u + Len(vals) - 1)
    BY <1>9
  <2>. SUFFICES ASSUME x \in u..(u + Len(vals) - 1) PROVE FALSE
    OBVIOUS
  <2>1. PICK k : k = x - u + 1
    OBVIOUS
  <2>2. k \in 1..Len(vals) /\ u + k - 1 = x
    BY <1>4, <1>6, <2>1
  <2>. QED BY <1>8, <2>2
<1>11. ASSUME NEW v \in Live
       PROVE  /\ HeaderTrue(v)'
              /\ \A k \in 1..live'[v].n : Load(v * PageUnits + k)' = live'[v].data[k]
  <2>1. Pages(v) \cap Has(p) = {} /\ live'[v] = live[v]
    BY <1>2 DEF IInv, Space
  <2>. QED BY <1>10, <2>1, BlockKept
<1>12. ASSUME NEW k \in 0..n PROVE Load(u + k)' = vals[k + 1]
  <2>1. PICK x : x = u + k
    OBVIOUS
  <2>2. x = a * PageUnits + k
    BY <1>3, <2>1
  <2>3. x \in Nat /\ x \in u..(u + (n + 1) - 1) /\ x - u + 1 = k + 1
    BY <1>4, <2>1
  <2>4. x \div PageUnits \in Used
    BY <1>5, <1>7, <2>2
  <2>5. Load(x)' = vals[k + 1]
    BY <1>6, <1>9, <2>3, <2>4
  <2>. QED BY <2>1, <2>5
<1>13. /\ Load(a * PageUnits)' = Header(PagesOf(n), n)
       /\ \A k \in 1..n : Load(a * PageUnits + k)' = Zero
  <2>1. 0 \in 0..n /\ u + 0 = a * PageUnits /\ 0 + 1 = 1
    BY <1>3, <1>4
  <2>2. Load(a * PageUnits)' = vals[1]
    BY <1>12, <2>1
  <2>3. ASSUME NEW k \in 1..n PROVE Load(a * PageUnits + k)' = vals[k + 1]
    <3>1. k \in 0..n
      BY <1>4
    <3>. QED BY <1>3, <1>12, <3>1
  <2>. QED BY <1>6, <2>2, <2>3
<1>14. \A q \in Proc : pc'[q] = "heap_out" => q = p
  <2>1. \A q \in Proc : pc[q] = "heap_out" => q = p
    BY <1>2 DEF IInv, Locked, HeapHeld
  <2>. QED BY <1>1, <2>1 DEF OthersSame
<1>15. \A q \in Proc : pc'[q] = "copy" => live'[loc'[q].ptr].data = Zeros(loc'[q].n)
  BY <1>1, <1>2 DEF OthersSame, IInv, Contents
<1>16. /\ Load(loc[p].ptr * PageUnits)' = Load(a * PageUnits)'
       /\ \A k : Load(loc[p].ptr * PageUnits + k)' = Load(a * PageUnits + k)'
       /\ loc'[p].n = n
  BY <1>2, <1>3 DEF Load
<1>17. ASSUME NEW q \in Proc, pc'[q] = "heap_out"
       PROVE  /\ Load(loc[q].ptr * PageUnits)' = Header(PagesOf(loc'[q].n), loc'[q].n)
              /\ \A k \in 1..loc'[q].n : Load(loc[q].ptr * PageUnits + k)' = Zero
  BY <1>13, <1>14, <1>16, <1>17
<1>18. (\A m : Zeros(m)' = Zeros(m)) /\ Zero' = Zero
  BY DEF Zeros, Zero
<1>. QED BY <1>2, <1>11, <1>15, <1>17, <1>18 DEF Contents

\* A call writes data into the block that it works on, and nowhere else.
LEMMA DataWritten ==
    ASSUME IInv, NEW p \in Proc, Fill(p) \/ Copy(p), NEW X, NEW vals \in Seq(X),
           Len(vals) <= loc[p].n, mem' = Stored(loc[p].ptr * PageUnits + 1, vals),
           \A k \in 1..loc[p].n : live'[loc[p].ptr].data[k] =
               IF k <= Len(vals) THEN vals[k] ELSE live[loc[p].ptr].data[k]
    PROVE  Contents'
<1>1. OthersSame(p) /\ pc \in [Proc -> Pc] /\ loc[p] \in Local
  BY StepIsOwn DEF IInv, Types, Step
<1>2. pc[p] \in {"fill", "copy"} /\ pc'[p] \notin {"heap_out", "copy"} /\ pte' = pte
  BY <1>1 DEF Fill, Copy, Return, From, tables
<1>3. PICK a, n, m, b : a = loc[p].ptr /\ n = loc[p].n /\ m = Len(vals) /\ b = a * PageUnits
  OBVIOUS
<1>4. /\ a \in Live /\ a \in VPage /\ live[a].n = n /\ Live' = Live /\ live'[a].n = n
      /\ \A v \in VPage : v # a => live'[v] = live[v]
  BY <1>3, DataOnly
<1>5. a \in Nat /\ n \in Nat /\ m \in Nat /\ m <= n /\ b \in Nat
  <2>1. a \in Nat /\ n \in Nat /\ m \in Nat /\ m <= n
    BY <1>1, <1>3 DEF Local
  <2>2. a * PageUnits \in Nat
    BY <2>1, HeapAssumption
  <2>. QED BY <1>3, <2>1, <2>2
<1>6. PICK u \in Nat : u = b + 1
  BY <1>5
<1>7. Pages(a) = a..(a + PagesOf(n) - 1) /\ Pages(a) \subseteq Used
  BY <1>4, BlockUsed DEF Pages
<1>8. \A k \in 0..n : b + k \in Nat /\ (b + k) \div PageUnits \in Pages(a)
  BY <1>3, <1>5, <1>7, BlockAddress
<1>9. ASSUME NEW k \in 1..m PROVE (u + k - 1) \div PageUnits \in Pages(a)
  <2>1. k \in 0..n /\ u + k - 1 = b + k
    BY <1>5, <1>6
  <2>. QED BY <1>8, <2>1
<1>10. \A x \in Nat : x \div PageUnits \in Used =>
         Load(x)' = IF x \in u..(u + m - 1) THEN vals[x - u + 1] ELSE Load(x)
  <2>1. \A k \in 1..Len(vals) : (u + k - 1) \div PageUnits \in Used
    BY <1>3, <1>7, <1>9
  <2>2. mem' = Stored(u, vals)
    BY <1>3, <1>6
  <2>. QED BY <1>2, <1>3, <2>1, <2>2, StoreStep
<1>11. \A x \in Nat : x \div PageUnits \in Used \ Pages(a) => Load(x)' = Load(x)
  <2>. SUFFICES ASSUME NEW x \in Nat, x \div PageUnits \in Used \ Pages(a)
                PROVE  x \notin u..(u + m - 1)
    BY <1>10
  <2>. SUFFICES ASSUME x \in u..(u + m - 1) PROVE FALSE
    OBVIOUS
  <2>1. PICK k : k = x - u + 1
    OBVIOUS
  <2>2. k \in 1..m /\ u + k - 1 = x
    BY <1>5, <2>1
  <2>. QED BY <1>9, <2>2
<1>12. ASSUME NEW v \in Live, v # a
       PROVE  /\ HeaderTrue(v)'
              /\ \A k \in 1..live'[v].n : Load(v * PageUnits + k)' = live'[v].data[k]
  <2>1. Pages(v) \cap Pages(a) = {} /\ live'[v] = live[v]
    BY <1>4, <1>12 DEF IInv, Space, Live
  <2>. QED BY <1>11, <2>1, BlockKept
<1>13. ASSUME NEW k \in 0..n
       PROVE  Load(b + k)' = IF k \in 1..m THEN vals[k] ELSE Load(b + k)
  <2>1. PICK x \in Nat : x = b + k
    BY <1>5
  <2>2. x \div PageUnits \in Used
    BY <1>7, <1>8, <2>1
  <2>3. (x \in u..(u + m - 1) <=> k \in 1..m) /\ x - u + 1 = k
    BY <1>5, <1>6, <2>1
  <2>. QED BY <1>10, <2>1, <2>2, <2>3
<1>14. HeaderTrue(a)'
  <2>1. 0 \in 0..n /\ b + 0 = a * PageUnits /\ 0 \notin 1..m
    BY <1>3, <1>5
  <2>2. Load(a * PageUnits)' = Load(a * PageUnits)
    BY <1>13, <2>1
  <2>3. Load(a * PageUnits) = Header(PagesOf(n), n)
    BY <1>4 DEF IInv, Contents, HeaderTrue
  <2>. QED BY <1>4, <2>2, <2>3 DEF HeaderTrue
<1>15. ASSUME NEW k \in 1..n PROVE Load(a * PageUnits + k)' = live'[a].data[k]
  <2>1. k \in 0..n /\ (k \in 1..m <=> k <= m)
    BY <1>5
  <2>2. Load(a * PageUnits + k) = live[a].data[k]
    BY <1>4 DEF IInv, Contents
  <2>3. live'[a].data[k] = IF k <= m THEN vals[k] ELSE live[a].data[k]
    BY <1>3
  <2>. QED BY <1>3, <1>13, <2>1, <2>2, <2>3
<1>16. ASSUME NEW q \in Proc, pc'[q] = "heap_out"
       PROVE  /\ Load(loc[q].ptr * PageUnits)' = Header(PagesOf(loc'[q].n), loc'[q].n)
              /\ \A k \in 1..loc'[q].n : Load(loc[q].ptr * PageUnits + k)' = Zero
  <2>1. pc[q] = "heap_out" /\ loc'[q] = loc[q]
    BY <1>1, <1>2, <1>16 DEF OthersSame
  <2>2. Has(q) \cap Pages(a) = {}
    BY <1>4 DEF IInv, Space
  <2>. QED BY <1>11, <2>1, <2>2, FreshKept
<1>17. ASSUME NEW q \in Proc, pc'[q] = "copy"
       PROVE  live'[loc'[q].ptr].data = Zeros(loc'[q].n)
  <2>1. q # p /\ pc[q] = "copy" /\ loc'[q] = loc[q]
    BY <1>1, <1>2, <1>17 DEF OthersSame
  <2>2. a \in Claim(p) /\ loc[q].ptr \in VPage /\ loc[q].ptr \in Claim(q)
    BY <1>2, <1>3, <1>4, <2>1 DEF IInv, Claims, Claim
  <2>3. loc[q].ptr # a
    BY <2>1, <2>2 DEF IInv, Claims
  <2>. QED BY <1>4, <2>1, <2>2, <2>3 DEF IInv, Contents
<1>18. (\A k : Zeros(k)' = Zeros(k)) /\ Zero' = Zero
  BY DEF Zeros, Zero
<1>19. \A v \in Live : /\ HeaderTrue(v)'
                       /\ \A k \in 1..live'[v].n : Load(v * PageUnits + k)' = live'[v].data[k]
  BY <1>4, <1>12, <1>14, <1>15
<1>. QED BY <1>4, <1>16, <1>17, <1>18, <1>19 DEF Contents

\* The caller's data is where it was written.
LEMMA ContentsFill ==
    ASSUME IInv, NEW p \in Proc, Fill(p)
    PROVE  Contents'
<1>1. PICK a, n, vals : /\ a = loc[p].ptr /\ n = loc[p].n
                        /\ vals = [k \in 1..n |-> Data(a)]
  OBVIOUS
<1>2. n \in Nat
  BY <1>1 DEF IInv, Types, Local
<1>3. vals \in [1..n -> {Data(a)}]
  BY <1>1
<1>4. vals \in Seq({Data(a)}) /\ Len(vals) = n
  BY <1>2, <1>3, FunctionIsSeq
<1>5. mem' = Stored(a * PageUnits + 1, vals)
  BY <1>1 DEF Fill
<1>6. live'[a].data = vals
  BY <1>1, DataOnly
<1>7. \A k \in 1..n : live'[a].data[k] = IF k <= Len(vals) THEN vals[k] ELSE live[a].data[k]
  BY <1>2, <1>4, <1>6
<1>8. Len(vals) <= n
  BY <1>2, <1>4
<1>. QED BY <1>1, <1>4, <1>5, <1>7, <1>8, DataWritten

\* memcpy brings the old data over, and what follows is zero.
LEMMA ContentsCopy ==
    ASSUME IInv, NEW p \in Proc, Copy(p)
    PROVE  Contents'
<1>1. PICK a, b, n, m, vals, old : /\ a = loc[p].ptr /\ b = loc[p].old /\ n = loc[p].n
                                   /\ m = live[b].n /\ vals = OldData(p) /\ old = live[b].data
  OBVIOUS
<1>2. pc[p] = "copy" /\ mem' = Stored(a * PageUnits + 1, vals)
  BY <1>1 DEF Copy, From
<1>3. b \in VPage /\ b \in Live /\ b \in Nat
  BY <1>1, <1>2 DEF IInv, Claims, Claim, Request, VPage
<1>4. n \in Nat /\ m \in Nat /\ old \in Seq(Values) /\ Len(old) = m /\ m <= n
  <2>1. loc[p] \in Local /\ live[b] \in Block /\ Len(live[b].data) = live[b].n
    BY <1>3 DEF IInv, Types
  <2>2. m <= n
    BY <1>1, <1>2, <1>3 DEF IInv, Claims, Request, VPage
  <2>. QED BY <1>1, <2>1, <2>2 DEF Local, Block
<1>5. Load(b * PageUnits)[2] = m /\ \A k \in 1..m : Load(b * PageUnits + k) = old[k]
  BY <1>1, <1>3 DEF IInv, Contents, HeaderTrue, Header
<1>6. vals = [k \in 1..m |-> old[k]]
  BY <1>1, <1>5 DEF OldData
<1>7. vals \in [1..m -> Values]
  <2>1. \A k \in 1..m : old[k] \in Values
    BY <1>4, ElementOfSeq
  <2>. QED BY <1>6, <2>1
<1>8. vals \in Seq(Values) /\ Len(vals) = m
  BY <1>4, <1>7, FunctionIsSeq
<1>9. live'[a].data = Resized(old, n) /\ live[a].data = Zeros(n)
  BY <1>1, <1>2, DataOnly DEF IInv, Contents
<1>10. ASSUME NEW k \in 1..n
       PROVE  live'[a].data[k] = IF k <= Len(vals) THEN vals[k] ELSE live[a].data[k]
  <2>1. live'[a].data[k] = IF k <= m THEN old[k] ELSE Zero
    BY <1>4, <1>9 DEF Resized
  <2>2. live[a].data[k] = Zero
    BY <1>9 DEF Zeros
  <2>3. k <= m => vals[k] = old[k]
    BY <1>4, <1>6
  <2>. QED BY <1>8, <2>1, <2>2, <2>3
<1>. QED BY <1>1, <1>2, <1>4, <1>8, <1>10, DataWritten

\* kmalloc returns a block of zeros.
LEMMA ContentsHeapRelease ==
    ASSUME IInv, NEW p \in Proc, HeapRelease(p)
    PROVE  Contents'
<1>1. OthersSame(p) /\ pc \in [Proc -> Pc]
  BY StepIsOwn DEF IInv, Types, Step
<1>2. UNCHANGED <<pte, mem, loc>> /\ pc'[p] \in {"fill", "copy"}
  BY <1>1 DEF HeapRelease, From, tables
<1>3. \A x : Load(x)' = Load(x)
  BY <1>2 DEF Load
<1>4. PICK a, n : a = loc[p].ptr /\ n = loc[p].n
  OBVIOUS
<1>5. /\ a \notin Live /\ Live' = Live \cup {a} /\ live'[a].n = n /\ live'[a].data = Zeros(n)
      /\ \A v \in VPage : v # a => live'[v] = live[v]
  BY <1>4, NewBlock
<1>6. ASSUME NEW v \in Live
      PROVE  /\ HeaderTrue(v)'
             /\ \A k \in 1..live'[v].n : Load(v * PageUnits + k)' = live'[v].data[k]
  <2>1. live'[v] = live[v]
    BY <1>5 DEF Live
  <2>. QED BY <1>3, <2>1 DEF IInv, Contents, HeaderTrue
<1>7. /\ Load(a * PageUnits) = Header(PagesOf(n), n)
      /\ \A k \in 1..n : Load(a * PageUnits + k) = Zero
  BY <1>4, NewBlock DEF IInv, Contents
<1>8. HeaderTrue(a)'
  BY <1>3, <1>5, <1>7 DEF HeaderTrue
<1>9. \A k \in 1..live'[a].n : Load(a * PageUnits + k)' = live'[a].data[k]
  BY <1>3, <1>5, <1>7 DEF Zeros
<1>10. ASSUME NEW q \in Proc, pc'[q] = "heap_out"
       PROVE  /\ Load(loc[q].ptr * PageUnits)' = Header(PagesOf(loc'[q].n), loc'[q].n)
              /\ \A k \in 1..loc'[q].n : Load(loc[q].ptr * PageUnits + k)' = Zero
  <2>1. pc[q] = "heap_out"
    BY <1>1, <1>2, <1>10 DEF OthersSame
  <2>2. Load(loc[q].ptr * PageUnits)' = Load(loc[q].ptr * PageUnits)
        /\ \A k : Load(loc[q].ptr * PageUnits + k)' = Load(loc[q].ptr * PageUnits + k)
    BY <1>2 DEF Load
  <2>. QED BY <1>2, <2>1, <2>2 DEF IInv, Contents
<1>11. ASSUME NEW q \in Proc, pc'[q] = "copy"
       PROVE  live'[loc'[q].ptr].data = Zeros(loc'[q].n)
  <2>1. CASE q = p
    BY <1>2, <1>4, <1>5, <2>1
  <2>2. CASE q # p
    <3>1. pc[q] = "copy"
      BY <1>1, <1>11, <2>2 DEF OthersSame
    <3>2. loc[q].ptr \in VPage /\ loc[q].ptr \in Live
      BY <3>1 DEF IInv, Claims, Claim
    <3>. QED BY <1>2, <1>5, <3>1, <3>2 DEF IInv, Contents
  <2>. QED BY <2>1, <2>2
<1>12. (\A k : Zeros(k)' = Zeros(k)) /\ Zero' = Zero
  BY DEF Zeros, Zero
<1>. QED BY <1>5, <1>6, <1>8, <1>9, <1>10, <1>11, <1>12 DEF Contents

\* kfree gives up one block and touches no other.
LEMMA ContentsReadHeader ==
    ASSUME IInv, NEW p \in Proc, ReadHeader(p)
    PROVE  Contents'
<1>1. OthersSame(p) /\ pc \in [Proc -> Pc]
  BY StepIsOwn DEF IInv, Types, Step
<1>2. UNCHANGED <<pte, mem>>
  BY DEF ReadHeader, tables
<1>3. \A x : Load(x)' = Load(x)
  BY <1>2 DEF Load
<1>4. PICK a : a = loc[p].ptr
  OBVIOUS
<1>5. /\ a \in VPage /\ Live' = Live \ {a} /\ \A v \in VPage : v # a => live'[v] = live[v]
      /\ pc[p] = "free" /\ pc'[p] = "free_vmm"
  BY <1>4, OldBlock
<1>6. ASSUME NEW v \in Live'
      PROVE  /\ HeaderTrue(v)'
             /\ \A k \in 1..live'[v].n : Load(v * PageUnits + k)' = live'[v].data[k]
  <2>1. live'[v] = live[v] /\ v \in Live
    BY <1>5 DEF Live
  <2>. QED BY <1>3, <2>1 DEF IInv, Contents, HeaderTrue
<1>7. ASSUME NEW q \in Proc, pc'[q] = "heap_out"
       PROVE  /\ Load(loc[q].ptr * PageUnits)' = Header(PagesOf(loc'[q].n), loc'[q].n)
              /\ \A k \in 1..loc'[q].n : Load(loc[q].ptr * PageUnits + k)' = Zero
  <2>1. pc[q] = "heap_out" /\ loc'[q] = loc[q]
    BY <1>1, <1>5, <1>7 DEF OthersSame
  <2>2. Load(loc[q].ptr * PageUnits)' = Load(loc[q].ptr * PageUnits)
        /\ \A k : Load(loc[q].ptr * PageUnits + k)' = Load(loc[q].ptr * PageUnits + k)
    BY <1>2, <2>1 DEF Load
  <2>. QED BY <2>1, <2>2 DEF IInv, Contents
<1>8. ASSUME NEW q \in Proc, pc'[q] = "copy"
       PROVE  live'[loc'[q].ptr].data = Zeros(loc'[q].n)
  <2>1. q # p /\ pc[q] = "copy" /\ loc'[q] = loc[q]
    BY <1>1, <1>5, <1>8 DEF OthersSame
  <2>2. a \in Claim(p) /\ loc[q].ptr \in VPage /\ loc[q].ptr \in Claim(q)
    BY <1>4, <1>5, <2>1 DEF IInv, Claims, Claim
  <2>3. loc[q].ptr # a
    BY <2>1, <2>2 DEF IInv, Claims
  <2>. QED BY <1>5, <2>1, <2>2, <2>3 DEF IInv, Contents
<1>9. (\A k : Zeros(k)' = Zeros(k)) /\ Zero' = Zero
  BY DEF Zeros, Zero
<1>. QED BY <1>6, <1>7, <1>8, <1>9 DEF Contents

\* Memory holds what it should, whatever step a context takes.
LEMMA ContentsStep ==
    ASSUME IInv, NEW p \in Proc, Kmalloc(p) \/ Krealloc(p) \/ Kfree(p) \/ Step(p)
    PROVE  Contents'
<1>1. CASE /\ ~MapTable(p) /\ ~MapPage(p) /\ ~Unmap(p) /\ ~Clear(p)
           /\ ~HeapRelease(p) /\ ~Fill(p) /\ ~Copy(p) /\ ~ReadHeader(p)
  <2>1. OthersSame(p) /\ pc \in [Proc -> Pc]
    BY StepIsOwn DEF IInv, Types
  <2>2. UNCHANGED <<mem, pte, live>>
    BY <1>1
    DEF tables, Kmalloc, Krealloc, Kfree, Call, Step, HeapAcquire, Check, Find, Found,
        VmmAcquire, Frame, FrameFails, MapTableFails, VmmRelease, ReturnNull, Put
  <2>3. pc'[p] \notin {"heap_out", "copy"}
    BY <1>1, <2>1
    DEF Kmalloc, Krealloc, Kfree, Call, Step, HeapAcquire, Check, Find, Found,
        VmmAcquire, Frame, FrameFails, MapTableFails, VmmRelease, ReturnNull, Put, From, Return,
        NextPut
  <2>4. \A x \in Nat : Load(x)' = Load(x)
    BY <2>2 DEF Load
  <2>. QED BY <2>1, <2>2, <2>3, <2>4, ContentsKept
<1>. QED BY <1>1, ContentsMap, ContentsClear, ContentsHeapRelease, ContentsFill, ContentsCopy,
            ContentsReadHeader

-----------------------------------------------------------------------------
(* The theorems.                                                           *)

\* Every step keeps the inductive invariant, as long as callers never make a block smaller.
LEMMA NextIInv ==
    ASSUME ~AllowShrink, IInv, [Next]_vars
    PROVE  IInv'
<1>1. CASE RawAlloc \/ RawFree \/ UNCHANGED vars
  BY <1>1, RawStep
<1>2. ASSUME NEW p \in Proc, Kmalloc(p) \/ Krealloc(p) \/ Kfree(p) \/ Step(p)
      PROVE  IInv'
  <2>1. Types' /\ Locked' /\ Frames'
    BY <1>2, TypesStep, LockedStep, FramesStep
  <2>2. Space' /\ Claims' /\ Contents'
    BY <1>2, SpaceStep, ClaimsStep, ContentsStep
  <2>. QED BY <2>1, <2>2 DEF IInv
<1>. QED BY <1>1, <1>2 DEF Next

\* Inductive: the invariant from which the theorems below follow. It says, of every step of
\* kmalloc, krealloc and kfree, which lock the context holds, which virtual pages are its own,
\* which blocks only it works on, and what memory holds.
THEOREM Inductive ==
    ASSUME ~AllowShrink
    PROVE  Spec => []IInv
<1>1. Init => IInv
  BY InitIInv
<1>2. IInv /\ [Next]_vars => IInv'
  BY NextIInv
<1>. QED BY <1>1, <1>2, PTL DEF Spec

\* The variables keep their types: no page table entry, table or local variable of vmm_alloc
\* ever holds anything but a page that the page allocator manages.
THEOREM TypeCorrect ==
    ASSUME ~AllowShrink
    PROVE  Spec => []TypeOK
<1>1. IInv => TypeOK
  BY DEF IInv, Types
<1>. QED BY <1>1, Inductive, PTL

\* NoAlias holds for any number of contexts: vmm_find without vmm_mutex, and pages that go back
\* before they are unmapped, never give one physical page two uses.
THEOREM NoPageUsedTwice ==
    ASSUME ~AllowShrink
    PROVE  Spec => []NoAlias
<1>1. IInv => NoAlias
  BY DEF IInv, Frames
<1>. QED BY <1>1, Inductive, PTL

\* NoLeak holds for any number of contexts: what is not in the stock of the page allocator
\* belongs to a block, to a page table or to whoever took it directly.
THEOREM NoPageLost ==
    ASSUME ~AllowShrink
    PROVE  Spec => []NoLeak
<1>1. ASSUME IInv, ~stuck, \A p \in Proc : pc[p] = "idle", NEW f \in Phys
      PROVE  f \in free \cup raw \cup {table[t] : t \in Table}
                   \cup {pte[w] : w \in UNION {v..(v + PagesOf(live[v].n) - 1) : v \in Live}}
  <2>1. \A p \in Proc : Has(p) = {}
    BY <1>1 DEF Has, Releasing
  <2>2. f # 0
    BY HeapAssumption
  <2>3. \/ f \in free \cup raw
        \/ \E t \in Table : table[t] = f
        \/ \E v \in VPage : pte[v] = f
    BY <1>1 DEF IInv, Frames
  <2>4. ASSUME NEW w \in VPage, pte[w] = f
        PROVE  \E v \in Live : w \in v..(v + PagesOf(live[v].n) - 1)
    <3>1. Mapped(w)
      BY <2>2, <2>4 DEF Mapped
    <3>. QED BY <1>1, <2>1, <3>1 DEF IInv, Space, Pages
  <2>5. ASSUME NEW w \in VPage, pte[w] = f
        PROVE  w \in UNION {v..(v + PagesOf(live[v].n) - 1) : v \in Live}
    BY <2>4, <2>5
  <2>. QED BY <2>3, <2>5
<1>2. IInv => NoLeak
  BY <1>1 DEF NoLeak
<1>. QED BY <1>2, Inductive, PTL

\* BlocksIntact holds for any number of contexts and any sizes: a block that a caller has stays
\* mapped, its header stays true, and its contents stay what the caller put there.
THEOREM BlocksStayIntact ==
    ASSUME ~AllowShrink
    PROVE  Spec => []BlocksIntact
<1>1. IInv => BlocksIntact
  BY DEF IInv, Space, Contents, Pages, BlocksIntact
<1>. QED BY <1>1, Inductive, PTL

=============================================================================
