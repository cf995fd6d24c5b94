--------------------------- MODULE BootMgrProofs ---------------------------
(***************************************************************************)
(* Proofs about BootMgr for any firmware: any sound memory map, any list   *)
(* of video modes, any monitor and any place of the RSDP; for the boot     *)
(* manager first, and then for pmm_init, entry by entry of the map.        *)
(***************************************************************************)
EXTENDS BootMgr, FiniteSetTheorems, WellFoundedInduction, TLAPS

-----------------------------------------------------------------------------
(* The inductive invariant: what the boot manager has found at each stage. *)

\* The stages from a successful step on, up to the kernel.
FromLong == {"long", "kernel"}
FromVbe == {"vbe", "mode", "default"} \cup FromLong
FromPaging == {"paging"} \cup FromVbe
FromAcpi == {"acpi"} \cup FromPaging
FromLoad == {"load"} \cup FromAcpi
FromA20 == {"a20"} \cup FromLoad
FromE820 == {"e820"} \cup FromA20

\* The entries of the map as detect_memory stores them.
Reported == {fw.map[i] : i \in 1..Len(fw.map)}
                \cup {[fw.map[i] EXCEPT !.size = 0] : i \in 1..Len(fw.map)}

\* The map grows by an entry with each call, and is complete when the loop ends.
MapRead ==
    /\ e820 \in Seq(Reported)
    /\ \A i \in 1..Len(e820) : e820[i] = StoredAt(i)
    /\ stage \in {"mbr", "stage1", "detect"} => e820 = <<>> /\ call = 0
    /\ stage = "e820" => Len(e820) = call /\ call <= Len(fw.map)
    /\ stage = "e820" /\ fw.map_ends = "fails" => call = 0
    /\ stage \in FromA20 => Len(e820) = Len(fw.map)

\* What is found stays found; a mode that is set is the one whose information is kept.
Found ==
    /\ stage \in FromE820 => fw.long_mode /\ boot_info.optical = Optical(fw.drive)
    /\ stage \in FromAcpi => ~boot_info.optical
    /\ stage \in FromLoad => a20
    /\ stage \in FromPaging => boot_info.rsdp \in Visible
                               /\ \A r \in Visible : boot_info.rsdp <= r
    /\ stage \in FromVbe => low_half
    /\ stage = "default" => vbe_size = DEFAULT
    /\ stage \in FromLong => /\ mode # 0
                             /\ vbe_mode_info = fw.modes[mode].info /\ vbe_mode_info.bpp = 32
    /\ stage = "crashed" => (mode # 0 /\ vbe_size = DEFAULT)
                             \/ Between(fw.bytes_per_block)

\* The fields of the boot information that the kernel reads.
BootInfo == boot_info = [edd |-> boot_info.edd, optical |-> boot_info.optical,
                         rsdp |-> boot_info.rsdp]

IInv ==
    /\ fw \in Firmwares
    /\ call \in Nat
    /\ BootInfo
    /\ MapRead
    /\ Found

-----------------------------------------------------------------------------

\* The scan for the RSDP stops at the first paragraph: a set of numbers that is not empty has
\* a least one, which is First.
LEMMA FirstIsLeast ==
    ASSUME NEW S \in SUBSET Nat, S # {}
    PROVE  First(S) \in S /\ \A m \in S : First(S) <= m
<1>. DEFINE R == {s \in Nat \X Nat : s[1] < s[2]}
<1>1. IsWellFoundedOn(R, Nat)
  BY NatLessThanWellFounded, Zenon DEF OpToRel
<1>. HIDE DEF R
<1>2. PICK x \in S : \A y \in S : ~(<<y, x>> \in R)
  BY <1>1, WFMin
<1>3. ASSUME NEW y \in S PROVE x <= y
  <2>1. ~(<<y, x>> \in R)
    BY <1>2
  <2>. QED BY <2>1 DEF R
<1>. QED BY <1>3 DEF First

\* The boot sector is overwritten only by a block size whose low word is above 16384 and that
\* the signed comparison lets pass: below 32768.
LEMMA OverwritingSizes ==
    ASSUME NEW b \in Nat, Signed16(b) >= 2048,
           4096 + 15 * 512 * ((b % 65536) \div 512) > 16384 * 16
    PROVE  Between(b)
<1>1. PICK w : w = b % 65536
  OBVIOUS
<1>2. w \in Nat /\ w < 65536
  BY <1>1
<1>3. w < 32768
  <2>1. (IF w >= 32768 THEN w - 65536 ELSE w) >= 2048
    BY <1>1 DEF Signed16
  <2>. QED BY <1>2, <2>1
<1>4. w > 16384
  <2>1. 4096 + 15 * 512 * (w \div 512) > 16384 * 16
    BY <1>1
  <2>. QED BY <1>2, <2>1
<1>. QED BY <1>1, <1>3, <1>4 DEF Between

\* At power-on nothing has been found.
LEMMA InitIInv == Init => IInv
<1>. SUFFICES ASSUME Init PROVE IInv
  OBVIOUS
<1>1. fw \in Firmwares /\ call \in Nat /\ stage = "mbr" /\ call = 0 /\ e820 = <<>>
  BY DEF Init
<1>2. MapRead
  BY <1>1 DEF MapRead, FromA20, FromLoad, FromAcpi, FromPaging, FromVbe, FromLong
<1>3. Found
  BY <1>1 DEF Found, FromE820, FromA20, FromLoad, FromAcpi, FromPaging, FromVbe, FromLong
<1>4. BootInfo
  BY DEF Init, BootInfo
<1>. QED BY <1>1, <1>2, <1>3, <1>4 DEF IInv

\* detect_memory keeps count of the entries.
LEMMA MapReadStep ==
    ASSUME IInv, BootManager
    PROVE  call' \in Nat /\ MapRead'
<1>1. fw' = fw /\ fw \in Firmwares /\ call \in Nat /\ MapRead
  BY DEF IInv, BootManager, Mbr, Stage1, Detect, DetectMemory, A20, LoadKernel, ScanAcpi,
     SetupPaging, Vbe, TryMode, EnterKernel
<1>2. PICK n : n = Len(fw.map)
  OBVIOUS
<1>3. n \in Nat \ {0} /\ Reported' = Reported /\ \A i : StoredAt(i)' = StoredAt(i)
  BY <1>1, <1>2, BootMgrAssumption DEF Reported, StoredAt
<1>4. CASE DetectMemory
  <2>1. stage = "e820" /\ e820 \in Seq(Reported) /\ Len(e820) = call /\ call <= n
        /\ (fw.map_ends = "fails" => call = 0)
    BY <1>1, <1>2, <1>4 DEF DetectMemory, Proceed, MapRead
  <2>2. CASE NoMore
    <3>1. e820' = e820 /\ call' = 0 /\ stage' \in {"a20", "error"}
      BY <1>4, <2>2 DEF DetectMemory, Proceed
    <3>2. stage' = "a20" => e820 # <<>>
      BY <1>4, <2>2 DEF DetectMemory, Proceed
    <3>3. stage' = "a20" => Len(e820) = n
      <4>1. CASE call = n
        BY <2>1, <4>1
      <4>2. CASE fw.map_ends = "fails"
        <5>1. Len(e820) = 0
          BY <2>1, <4>2
        <5>2. e820 = <<>>
          BY <2>1, <5>1
        <5>. QED BY <3>2, <5>2
      <4>. QED BY <1>2, <2>2, <4>1, <4>2 DEF NoMore
    <3>. QED BY <1>1, <1>2, <1>3, <2>1, <3>1, <3>3
         DEF MapRead, FromA20, FromLoad, FromAcpi, FromPaging, FromVbe, FromLong
  <2>3. CASE ~NoMore
    <3>1. fw.map_ends # "fails" /\ call # n /\ e820' = Stored
          /\ stage' = (IF LastCall THEN "a20" ELSE "e820")
          /\ call' = IF LastCall THEN 0 ELSE call + 1
      BY <1>2, <1>4, <2>3 DEF DetectMemory, Proceed, NoMore
    <3>2. PICK k : k = call + 1
      OBVIOUS
    <3>3. k \in 1..n /\ k <= n /\ k \in Nat
      BY <1>1, <1>3, <2>1, <3>1, <3>2
    <3>4. PICK e : e = IF LastCall THEN [fw.map[k] EXCEPT !.size = 0] ELSE fw.map[k]
      OBVIOUS
    <3>5. e \in Reported
      BY <1>2, <3>3, <3>4 DEF Reported
    <3>6. e820' = Append(e820, e)
      BY <3>1, <3>2, <3>4 DEF Stored
    <3>7. /\ e820' \in Seq(Reported) /\ Len(e820') = k /\ e820'[k] = e
          /\ \A i \in 1..Len(e820) : e820'[i] = e820[i]
          /\ \A i \in 1..k : i = k \/ i \in 1..Len(e820)
      BY <1>1, <2>1, <3>2, <3>3, <3>5, <3>6
    <3>8. LastCall => k = n
      BY <1>2, <3>2 DEF LastCall
    <3>9. e = StoredAt(k)
      BY <3>2, <3>4 DEF LastCall, StoredAt
    <3>10. \A i \in 1..Len(e820') : e820'[i] = StoredAt(i)'
      BY <1>1, <1>3, <3>7, <3>9 DEF MapRead
    <3>. QED BY <1>1, <1>2, <1>3, <3>1, <3>2, <3>3, <3>7, <3>8, <3>10
         DEF MapRead, FromA20, FromLoad, FromAcpi, FromPaging, FromVbe, FromLong
  <2>. QED BY <2>2, <2>3
<1>5. CASE ~DetectMemory
  <2>1. e820' = e820
    BY <1>5 DEF BootManager, Mbr, Stage1, Detect, A20, LoadKernel, ScanAcpi, SetupPaging, Vbe,
       TryMode, EnterKernel, pmmVars
  <2>2. call' \in Nat
    BY <1>1, <1>5 DEF BootManager, Mbr, Stage1, Detect, A20, LoadKernel, ScanAcpi, SetupPaging,
       Vbe, TryMode, SetMode, ModeFails, EnterKernel, Proceed
  <2>3. /\ stage' \in {"mbr", "stage1", "detect"} =>
              stage \in {"mbr", "stage1", "detect"} /\ call' = call
        /\ stage' = "e820" => stage = "detect" /\ call' = call
        /\ stage' \in FromA20 => stage \in FromA20
    BY <1>5
    DEF BootManager, Mbr, Stage1, Detect, A20, LoadKernel, ScanAcpi, SetupPaging, Vbe, TryMode,
        SetMode, ModeFails, EnterKernel, Proceed, FromA20, FromLoad, FromAcpi, FromPaging, FromVbe,
        FromLong
  <2>4. FromA20' = FromA20 /\ Len(<<>>) = 0
    BY DEF FromA20, FromLoad, FromAcpi, FromPaging, FromVbe, FromLong
  <2>. QED BY <1>1, <1>2, <1>3, <2>1, <2>2, <2>3, <2>4 DEF MapRead
<1>. QED BY <1>4, <1>5

\* Each step of the boot manager finds what it has to, or stops.
LEMMA FoundStep ==
    ASSUME IInv, BootManager
    PROVE  Found'
<1>1. fw' = fw /\ fw \in Firmwares /\ call \in Nat /\ Found
  BY DEF IInv, BootManager, Mbr, Stage1, Detect, DetectMemory, A20, LoadKernel, ScanAcpi,
     SetupPaging, Vbe, TryMode, EnterKernel
<1>2. Visible' = Visible /\ DEFAULT' = DEFAULT /\ Optical(fw.drive)' = Optical(fw.drive)
  BY <1>1 DEF Visible, DEFAULT, Optical
<1>. USE DEF FromE820, FromA20, FromLoad, FromAcpi, FromPaging, FromVbe, FromLong
<1>3. CASE Mbr
  <2>1. stage' \in {"stage1", "error"}
    BY <1>3 DEF Mbr, Proceed
  <2>. QED BY <2>1 DEF Found
<1>4. CASE Stage1
  <2>1. stage' \in {"detect", "error"} \/ (stage' = "crashed" /\ BlockSizeGood /\ Overwritten)
    BY <1>4 DEF Stage1, Proceed
  <2>2. BlockSizeGood /\ Overwritten => Between(fw.bytes_per_block)
    <3>1. fw.bytes_per_block \in Nat
      BY <1>1, BootMgrAssumption
    <3>. QED BY <3>1, OverwritingSizes DEF BlockSizeGood, Overwritten
  <2>3. stage' = "crashed" => Between(fw.bytes_per_block)'
    BY <1>1, <2>1, <2>2 DEF Between
  <2>. QED BY <2>1, <2>3 DEF Found
<1>5. CASE Detect
  <2>1. \/ stage' = "error"
        \/ stage' = "e820" /\ fw.long_mode /\ boot_info'.optical = Optical(fw.drive)
    BY <1>5 DEF Detect, Proceed, IInv, BootInfo
  <2>. QED BY <1>1, <2>1 DEF Found
<1>6. CASE DetectMemory
  <2>1. stage = "e820" /\ stage' \in {"error", "e820", "a20"} /\ boot_info' = boot_info
    BY <1>6 DEF DetectMemory, Proceed
  <2>. QED BY <1>1, <2>1 DEF Found
<1>7. CASE A20
  <2>1. /\ stage = "a20" /\ (stage' \in {"error", "a20"} \/ (stage' = "load" /\ a20'))
        /\ boot_info' = boot_info
    BY <1>7 DEF A20, Proceed
  <2>. QED BY <1>1, <2>1 DEF Found
<1>8. CASE LoadKernel
  <2>1. /\ stage = "load" /\ (stage' = "error" \/ (stage' = "acpi" /\ ~boot_info.optical))
        /\ UNCHANGED <<a20, boot_info>>
    BY <1>8 DEF LoadKernel, Proceed
  <2>. QED BY <1>1, <2>1 DEF Found
<1>9. CASE ScanAcpi
  <2>1. stage = "acpi" /\ a20' = a20
    BY <1>9 DEF ScanAcpi, Proceed
  <2>2. CASE Visible = {}
    <3>1. stage' = "error"
      BY <1>9, <2>2 DEF ScanAcpi, Proceed
    <3>. QED BY <3>1 DEF Found
  <2>3. CASE Visible # {}
    <3>1. stage' = "paging" /\ boot_info' = [boot_info EXCEPT !.rsdp = First(Visible)]
      BY <1>9, <2>3 DEF ScanAcpi, Proceed
    <3>2. Visible \in SUBSET Nat
      BY <1>1, BootMgrAssumption DEF Visible
    <3>3. PICK r : r = First(Visible)
      OBVIOUS
    <3>4. r \in Visible /\ \A m \in Visible : r <= m
      BY <2>3, <3>2, <3>3, FirstIsLeast
    <3>5. boot_info'.rsdp = r /\ boot_info'.optical = boot_info.optical
      BY <1>1, <2>1, <3>1, <3>3 DEF IInv, BootInfo
    <3>. QED BY <1>1, <1>2, <2>1, <3>1, <3>4, <3>5 DEF Found
  <2>. QED BY <2>2, <2>3
<1>10. CASE SetupPaging
  <2>1. stage = "paging" /\ stage' = "vbe" /\ low_half' = TRUE /\ UNCHANGED <<a20, boot_info>>
    BY <1>10 DEF SetupPaging, Proceed
  <2>. QED BY <1>1, <1>2, <2>1 DEF Found
<1>11. CASE Vbe
  <2>1. stage = "vbe" /\ stage' \in {"mode", "error"} /\ UNCHANGED <<a20, boot_info, low_half>>
    BY <1>11 DEF Vbe, Proceed
  <2>. QED BY <1>1, <1>2, <2>1 DEF Found
<1>12. CASE TryMode
  <2>1. stage \in {"mode", "default"} /\ UNCHANGED <<a20, boot_info, low_half>>
    BY <1>12 DEF TryMode
  <2>2. CASE ModeFails
    <3>1. stage' \in {"default", "error"} /\ vbe_size' = DEFAULT
      BY <2>2 DEF ModeFails
    <3>. QED BY <1>1, <1>2, <2>1, <3>1 DEF Found
  <2>3. CASE stage' = stage /\ vbe_size' = vbe_size
    BY <1>1, <1>2, <2>1, <2>3 DEF Found
  <2>4. CASE /\ vbe_mode_info' = Candidate.info /\ Matches(Candidate.info) /\ mode' = call + 1
             /\ stage' = (IF stage = "mode" THEN "long" ELSE "crashed") /\ vbe_size' = vbe_size
    <3>1. PICK k : k = call + 1
      OBVIOUS
    <3>2. mode' = k /\ k # 0
      BY <1>1, <2>4, <3>1
    <3>3. vbe_mode_info' = fw'.modes[mode'].info /\ vbe_mode_info'.bpp = 32
      BY <1>1, <2>4, <3>1 DEF Candidate, Matches
    <3>4. stage' = "long" \/ (stage' = "crashed" /\ vbe_size' = DEFAULT)
      BY <1>1, <2>1, <2>4 DEF Found
    <3>. QED BY <1>1, <1>2, <2>1, <3>2, <3>3, <3>4 DEF Found
  <2>. QED BY <1>12, <2>2, <2>3, <2>4 DEF TryMode, SetMode
<1>13. CASE EnterKernel
  <2>1. /\ stage = "long" /\ stage' = "kernel"
        /\ UNCHANGED <<a20, boot_info, low_half, mode, vbe_mode_info>>
    BY <1>13 DEF EnterKernel, Proceed
  <2>. QED BY <1>1, <1>2, <2>1 DEF Found
<1>. QED BY <1>3, <1>4, <1>5, <1>6, <1>7, <1>8, <1>9, <1>10, <1>11, <1>12, <1>13 DEF BootManager

-----------------------------------------------------------------------------

\* Every step keeps the invariant; pmm_init leaves what the boot manager found alone.
LEMMA NextIInv ==
    ASSUME IInv, [Next]_vars
    PROVE  IInv'
<1>1. CASE BootManager
  <2>1. fw' \in Firmwares
    BY <1>1 DEF IInv, BootManager, Mbr, Stage1, Detect, DetectMemory, A20, LoadKernel, ScanAcpi,
       SetupPaging, Vbe, TryMode, EnterKernel
  <2>2. BootInfo'
    BY <1>1 DEF IInv, BootInfo, BootManager, Mbr, Stage1, Detect, DetectMemory, A20, LoadKernel,
       ScanAcpi, SetupPaging, Vbe, TryMode, EnterKernel
  <2>. QED BY <1>1, <2>1, <2>2, MapReadStep, FoundStep DEF IInv
<1>2. CASE UNCHANGED <<bootVars, e820>>
  <2>1. UNCHANGED <<fw, stage, boot_info, call, a20, low_half, vbe_size, vbe_mode_info, mode,
                    e820>>
    BY <1>2 DEF bootVars
  <2>2. /\ Reported' = Reported /\ Visible' = Visible /\ DEFAULT' = DEFAULT
        /\ Optical(fw.drive)' = Optical(fw.drive) /\ \A i : StoredAt(i)' = StoredAt(i)
    BY <2>1 DEF Reported, Visible, DEFAULT, Optical, StoredAt
  <2>3. FromE820' = FromE820 /\ FromA20' = FromA20 /\ FromLoad' = FromLoad
        /\ FromAcpi' = FromAcpi
        /\ FromPaging' = FromPaging /\ FromVbe' = FromVbe /\ FromLong' = FromLong
    BY DEF FromE820, FromA20, FromLoad, FromAcpi, FromPaging, FromVbe, FromLong
  <2>4. MapRead'
    BY <2>1, <2>2, <2>3 DEF IInv, MapRead
  <2>5. Found'
    BY <2>1, <2>2, <2>3 DEF IInv, Found
  <2>. QED BY <2>1, <2>4, <2>5 DEF IInv, BootInfo
<1>. QED BY <1>1, <1>2
     DEF Next, vars, pmmVars, pmm_init, SizeBitmap, AddEntry, SkipEntry, Advance, TooSmall,
         ReserveLow

\* Inductive: at every stage, what the earlier stages have found.
THEOREM Inductive == Spec => []IInv
<1>1. IInv /\ [Next]_vars => IInv'
  BY NextIInv
<1>. QED BY <1>1, InitIInv, PTL DEF Spec

\* HandoverKept holds for every firmware: the kernel starts only with the gate
\* open, both halves mapped, from a hard disk, in the mode that it is told, with
\* the first RSDP and every entry of the memory map, of which only the size of the
\* last may be missing; and the boot manager runs away only in its two flaws.
THEOREM HandoverIsKept == Spec => []HandoverKept
<1>1. IInv => HandoverKept
  <2>. SUFFICES ASSUME IInv PROVE HandoverKept
    OBVIOUS
  <2>1. stage = "kernel" =>
           /\ a20 /\ low_half /\ fw.long_mode
           /\ mode # 0 /\ vbe_mode_info = fw.modes[mode].info /\ vbe_mode_info.bpp = 32
           /\ Len(e820) = Len(fw.map) /\ \A i \in 1..Len(fw.map) : e820[i] = StoredAt(i)
    BY DEF IInv, MapRead, Found, FromE820, FromA20, FromLoad, FromAcpi, FromPaging, FromVbe, FromLong
  <2>2. stage = "kernel" => boot_info.rsdp \in Visible /\ \A r \in Visible : boot_info.rsdp <= r
    BY DEF IInv, Found, FromPaging, FromVbe, FromLong
  <2>3. ASSUME stage = "kernel", NEW r \in fw.rsdp PROVE boot_info.rsdp <= r
    <3>1. PICK x : x = boot_info.rsdp
      OBVIOUS
    <3>2. r \in Nat /\ x \in Visible /\ x \in 0..(RsdpSlots - 1) /\ RsdpSlots \in Nat
      BY <2>2, <2>3, <3>1, BootMgrAssumption DEF IInv, Visible
    <3>3. CASE r \in Visible
      BY <2>2, <2>3, <3>3
    <3>4. CASE r \notin Visible
      <4>1. r > RsdpSlots - 1
        BY <2>3, <3>2, <3>4 DEF Visible
      <4>2. x <= r
        BY <3>2, <4>1
      <4>. QED BY <3>1, <4>2
    <3>. QED BY <3>3, <3>4
  <2>4. stage = "kernel" => boot_info.rsdp \in fw.rsdp
    BY <2>2 DEF Visible
  <2>5. stage = "crashed" => (mode # 0 /\ vbe_size = DEFAULT)
                             \/ Between(fw.bytes_per_block)
    BY DEF IInv, Found
  <2>6. stage = "kernel" => fw.drive \in 128..223
    <3>1. stage = "kernel" => ~Optical(fw.drive) /\ fw.drive \in 0..255
      BY BootMgrAssumption
      DEF IInv, Found, FromE820, FromA20, FromLoad, FromAcpi, FromPaging, FromVbe, FromLong
    <3>. QED BY <3>1 DEF Optical
  <2>. QED BY <2>1, <2>3, <2>4, <2>5, <2>6 DEF HandoverKept
<1>. QED BY <1>1, Inductive, PTL

-----------------------------------------------------------------------------
(* Pages and areas.                                                        *)

\* A factor can be taken off both sides.
LEMMA LessByFactor ==
    ASSUME NEW a \in Int, NEW b \in Int, NEW c \in Nat \ {0}
    PROVE  /\ a * c < b * c => a < b
           /\ a <= b => a * c <= b * c
           /\ (a + 1) * c = a * c + c
           /\ (a - 1) * c = a * c - c
<1>1. ASSUME a * c < b * c, b <= a PROVE FALSE
  <2>1. b * c <= a * c
    BY <1>1
  <2>. QED BY <1>1, <2>1
<1>2. a <= b => a * c <= b * c
  OBVIOUS
<1>3. (a + 1) * c = a * c + c /\ (a - 1) * c = a * c - c
  OBVIOUS
<1>. QED BY <1>1, <1>2, <1>3

\* Division, rounding down and up.
LEMMA DivBounds ==
    ASSUME NEW a \in Nat, NEW b \in Nat \ {0}
    PROVE  /\ a \div b \in Nat
           /\ (a \div b) * b <= a /\ a < (a \div b) * b + b
           /\ a % b = 0 => a = (a \div b) * b
OBVIOUS

\* Rounding up yields the least number of parts that suffice.
LEMMA CeilingBounds ==
    ASSUME NEW a \in Nat, NEW b \in Nat \ {0}
    PROVE  /\ Ceiling(a, b) \in Nat
           /\ a <= Ceiling(a, b) * b
           /\ Ceiling(a, b) * b < a + b
<1>1. PICK q : q = (a + b - 1) \div b
  OBVIOUS
<1>2. a + b - 1 \in Nat
  OBVIOUS
<1>3. q \in Nat /\ q * b <= a + b - 1 /\ a + b - 1 < q * b + b
  BY <1>1, <1>2, DivBounds
<1>. QED BY <1>1, <1>3 DEF Ceiling

\* The pages that e820_add_entry visits for an area.
LEMMA EntryInterval ==
    ASSUME NEW e \in MapEntry
    PROVE  /\ EntryPages(e) \in Nat
           /\ IsFiniteSet(EntryBits(e)) /\ Cardinality(EntryBits(e)) = EntryPages(e)
           /\ \A n \in EntryBits(e) : n \in Nat
<1>1. PICK f, p : f = e.base \div PageSize /\ p = EntryPages(e)
  OBVIOUS
<1>2. f \in Nat /\ p \in Nat
  <2>1. e.base \in Nat /\ e.length \in Nat /\ PageSize \in Nat \ {0}
    BY PmmInitAssumption DEF MapEntry
  <2>2. f \in Nat /\ Ceiling(e.length, PageSize) \in Nat
    BY <1>1, <2>1, DivBounds, CeilingBounds
  <2>. QED BY <1>1, <2>2 DEF EntryPages
<1>3. EntryBits(e) = f..(f + p - 1)
  BY <1>1 DEF EntryBits
<1>4. IsFiniteSet(f..(f + p - 1)) /\ Cardinality(f..(f + p - 1)) = p
  <2>1. f + p - 1 \in Int
    BY <1>2
  <2>. QED BY <1>2, <2>1, FS_Interval
<1>5. \A n \in f..(f + p - 1) : n \in Nat
  BY <1>2
<1>. QED BY <1>1, <1>2, <1>3, <1>4, <1>5

\* They touch the area, but for the one that memory not usable is given for its
\* first page.
LEMMA EntryTouches ==
    ASSUME NEW e \in MapEntry, e.length # 0, NEW n \in EntryBits(e)
    PROVE  /\ e.base < (n + 1) * PageSize
           /\ n * PageSize < End(e) + PageSize
           /\ Usable(e) => n * PageSize < End(e)
<1>1. PICK f, p, s, c : /\ f = e.base \div PageSize /\ p = EntryPages(e) /\ s = PageSize
                        /\ c = Ceiling(e.length, PageSize)
  OBVIOUS
<1>2. e.base \in Nat /\ e.length \in Nat /\ s \in Nat \ {0}
  BY <1>1, PmmInitAssumption DEF MapEntry
<1>3. /\ f \in Nat /\ f * s <= e.base /\ e.base < f * s + s
      /\ c \in Nat /\ c * s < e.length + s
  BY <1>1, <1>2, DivBounds, CeilingBounds
<1>4. p = c + (IF Usable(e) THEN 0 ELSE 1)
  BY <1>1 DEF EntryPages
<1>5. n \in Int /\ f <= n /\ n <= f + p - 1 /\ n \in Nat
  BY <1>1, <1>3, <1>4 DEF EntryBits
<1>6. f * s <= n * s /\ (n + 1) * s = n * s + s
  BY <1>2, <1>3, <1>5, LessByFactor
<1>7. e.base < (n + 1) * s
  BY <1>2, <1>3, <1>5, <1>6
<1>8. ASSUME NEW k \in Nat, n <= f + k - 1 PROVE n * s <= f * s + k * s - s
  <2>1. n * s <= (f + k - 1) * s
    BY <1>2, <1>3, <1>5, <1>8, LessByFactor
  <2>2. (f + k - 1) * s = f * s + k * s - s
    BY <1>2, <1>3, <1>8
  <2>. QED BY <2>1, <2>2
<1>9. Usable(e) => n * s < End(e)
  <2>1. SUFFICES ASSUME Usable(e) PROVE n * s < End(e)
    OBVIOUS
  <2>2. n * s <= f * s + c * s - s
    BY <1>3, <1>4, <1>5, <1>8, <2>1
  <2>. QED BY <1>2, <1>3, <1>5, <2>2 DEF End
<1>10. n * s < End(e) + s
  <2>1. CASE Usable(e)
    BY <1>2, <1>5, <1>9, <2>1 DEF End
  <2>2. CASE ~Usable(e)
    <3>1. n <= f + (c + 1) - 1 /\ c + 1 \in Nat
      BY <1>3, <1>4, <1>5, <2>2
    <3>2. n * s <= f * s + (c + 1) * s - s
      BY <1>8, <3>1
    <3>3. (c + 1) * s = c * s + s
      BY <1>2, <1>3, LessByFactor
    <3>. QED BY <1>2, <1>3, <1>5, <3>2, <3>3 DEF End
  <2>. QED BY <2>1, <2>2
<1>. QED BY <1>1, <1>7, <1>9, <1>10

\* All pages that lie in the area are visited.
LEMMA EntryCovers ==
    ASSUME NEW e \in MapEntry, NEW n \in Nat,
           e.base <= n * PageSize, (n + 1) * PageSize <= End(e)
    PROVE  n \in EntryBits(e)
<1>1. PICK f, p, s, c : /\ f = e.base \div PageSize /\ p = EntryPages(e) /\ s = PageSize
                        /\ c = Ceiling(e.length, PageSize)
  OBVIOUS
<1>2. e.base \in Nat /\ e.length \in Nat /\ s \in Nat \ {0}
  BY <1>1, PmmInitAssumption DEF MapEntry
<1>3. /\ f \in Nat /\ f * s <= e.base /\ e.base < f * s + s
      /\ c \in Nat /\ e.length <= c * s
  BY <1>1, <1>2, DivBounds, CeilingBounds
<1>4. p \in Nat /\ p >= c
  BY <1>1, <1>3 DEF EntryPages
<1>5. f <= n
  <2>1. f * s < (n + 1) * s
    BY <1>1, <1>2, <1>3, LessByFactor
  <2>2. f < n + 1
    BY <1>2, <1>3, <2>1, LessByFactor
  <2>. QED BY <1>3, <2>2
<1>6. n <= f + c - 1
  <2>1. (n + 1) * s < f * s + s + c * s
    BY <1>1, <1>2, <1>3 DEF End
  <2>2. f * s + s + c * s = (f + 1 + c) * s
    BY <1>2, <1>3
  <2>3. n + 1 < f + 1 + c
    BY <1>2, <1>3, <2>1, <2>2, LessByFactor
  <2>. QED BY <1>3, <2>3
<1>7. n \in f..(f + p - 1)
  BY <1>3, <1>4, <1>5, <1>6
<1>. QED BY <1>1, <1>7 DEF EntryBits

\* Usable memory that consists of whole pages contains the pages visited.
LEMMA WholePages ==
    ASSUME NEW e \in MapEntry, e.length # 0, Usable(e), OnPages(e), NEW n \in EntryBits(e)
    PROVE  e.base <= n * PageSize /\ (n + 1) * PageSize <= End(e)
<1>1. PICK s, b, x : s = PageSize /\ b = e.base \div PageSize /\ x = End(e) \div PageSize
  OBVIOUS
<1>2. s \in Nat \ {0} /\ e.base \in Nat /\ End(e) \in Nat
  BY <1>1, PmmInitAssumption DEF MapEntry, End
<1>3. b \in Nat /\ x \in Nat /\ e.base = b * s /\ End(e) = x * s
  BY <1>1, <1>2, DivBounds DEF OnPages
<1>4. n \in Nat /\ e.base < (n + 1) * s /\ n * s < End(e)
  BY <1>1, EntryTouches, EntryInterval
<1>5. b < n + 1 /\ n < x
  BY <1>2, <1>3, <1>4, LessByFactor
<1>6. b <= n /\ n + 1 <= x
  BY <1>3, <1>4, <1>5
<1>7. b * s <= n * s /\ (n + 1) * s <= x * s
  BY <1>2, <1>3, <1>4, <1>6, LessByFactor
<1>. QED BY <1>1, <1>3, <1>7

\* Usable memory in the low memory has low pages only.
LEMMA LowIsLow ==
    ASSUME NEW e \in MapEntry, e.length # 0, Usable(e), InLow(e), NEW n \in EntryBits(e)
    PROVE  n < LowPages
<1>1. n \in Nat /\ n * PageSize < End(e) /\ End(e) <= LowPages * PageSize
  BY EntryTouches, EntryInterval DEF InLow
<1>2. n * PageSize < LowPages * PageSize
  BY <1>1, PmmInitAssumption DEF MapEntry, End
<1>. QED BY <1>1, <1>2, LessByFactor, PmmInitAssumption

-----------------------------------------------------------------------------
(* The invariant of pmm_init.                                              *)

\* What the kernel adds to its free memory.
Used(e) == Usable(e) /\ ~Ignored(e)

\* Where the map ends, and the first page behind it.
LastEnd == End(e820[Len(e820)])
Top == Ceiling(LastEnd, PageSize)

\* Some memory above the low one is usable.
RamAbove == \E n \in Bit : n >= LowPages /\ Ram(n)

\* What the kernel finds in the map.
Found_map ==
    /\ Len(e820) = Len(fw.map) /\ Len(e820) \in Nat \ {0}
    /\ \A i \in 1..Len(e820) : e820[i] \in MapEntry
    /\ \A i, j \in 1..Len(e820) : e820[i].length # 0 /\ e820[j].length # 0 /\ i < j =>
          End(e820[i]) <= e820[j].base
    /\ \A i \in 1..Len(e820) : e820[i].length # 0 => End(e820[i]) <= LastEnd
    /\ LastEnd \in Nat /\ LastEnd <= MaxPage * PageSize
    /\ \A i \in 1..Len(e820) : Used(e820[i]) => OnPages(e820[i]) \/ InLow(e820[i])

\* An entry whose size is lost.
LEMMA SizeLost ==
    ASSUME NEW r \in MapEntry, NEW m, m = r \/ m = [r EXCEPT !.size = 0]
    PROVE  /\ m \in MapEntry /\ m.base = r.base /\ m.length = r.length
           /\ (Usable(m) <=> Usable(r)) /\ End(m) = End(r)
           /\ (OnPages(m) <=> OnPages(r)) /\ (InLow(m) <=> InLow(r))
           /\ EntryBits(m) = EntryBits(r)
           /\ Ignored(m) => Ignored(r)
<1>1. m \in MapEntry /\ m.base = r.base /\ m.length = r.length /\ m.type = r.type
  BY DEF MapEntry
<1>2. m = r \/ m.size = 0
  BY DEF MapEntry
<1>3. (Usable(m) <=> Usable(r)) /\ End(m) = End(r)
  BY <1>1 DEF Usable, End
<1>4. (OnPages(m) <=> OnPages(r)) /\ (InLow(m) <=> InLow(r))
  BY <1>1, <1>3 DEF OnPages, InLow
<1>5. EntryBits(m) = EntryBits(r)
  BY <1>1, <1>3 DEF EntryBits, EntryPages
<1>6. Ignored(m) => Ignored(r)
  BY <1>1, <1>2 DEF Ignored
<1>. QED BY <1>1, <1>3, <1>4, <1>5, <1>6

\* The entries are those of the firmware, or without their size.
LEMMA EntryOf ==
    ASSUME IInv, stage = "kernel", NEW i \in 1..Len(e820)
    PROVE  /\ Len(e820) = Len(fw.map) /\ fw.map[i] \in MapEntry
           /\ e820[i] = fw.map[i]
              \/ (/\ e820[i] = [fw.map[i] EXCEPT !.size = 0]
                  /\ fw.map_ends = "zero" /\ i = Len(fw.map))
<1>1. /\ Len(e820) = Len(fw.map) /\ e820[i] = StoredAt(i)
      /\ SoundMap(fw.map)
  BY MapAssumption DEF IInv, MapRead, FromA20, FromLoad, FromAcpi, FromPaging, FromVbe, FromLong
<1>2. fw.map[i] \in MapEntry
  BY <1>1 DEF SoundMap
<1>. QED BY <1>1, <1>2 DEF StoredAt

\* So the map is sound as the kernel finds it.
LEMMA MapFound == ASSUME IInv, stage = "kernel" PROVE Found_map
<1>1. /\ Len(e820) = Len(fw.map) /\ Len(e820) \in Nat \ {0} /\ SoundMap(fw.map)
  BY MapAssumption, BootMgrAssumption
     DEF IInv, MapRead, FromA20, FromLoad, FromAcpi, FromPaging, FromVbe, FromLong
<1>2. PICK m, r, k : m = e820 /\ r = fw.map /\ k = Len(e820)
  OBVIOUS
<1>3. \A i \in 1..k : /\ m[i] \in MapEntry /\ m[i].base = r[i].base /\ m[i].length = r[i].length
                      /\ End(m[i]) = End(r[i]) /\ (Usable(m[i]) <=> Usable(r[i]))
                      /\ (OnPages(m[i]) <=> OnPages(r[i])) /\ (InLow(m[i]) <=> InLow(r[i]))
  <2>. TAKE i \in 1..k
  <2>1. PICK x, y : x = m[i] /\ y = r[i]
    OBVIOUS
  <2>2. y \in MapEntry /\ (x = y \/ x = [y EXCEPT !.size = 0])
    BY <1>2, <2>1, EntryOf
  <2>3. /\ x \in MapEntry /\ x.base = y.base /\ x.length = y.length
        /\ End(x) = End(y) /\ (Usable(x) <=> Usable(y))
        /\ (OnPages(x) <=> OnPages(y)) /\ (InLow(x) <=> InLow(y))
    BY <2>2, SizeLost
  <2>. QED BY <2>1, <2>3
<1>4. k \in 1..k /\ k = Len(r)
  BY <1>1, <1>2
<1>5. LastEnd = End(r[k]) /\ m[k] \in MapEntry /\ LastEnd \in Nat
  BY <1>2, <1>3, <1>4 DEF LastEnd, MapEntry, End
<1>6. /\ \A i, j \in 1..k : r[i].length # 0 /\ r[j].length # 0 /\ i < j => End(r[i]) <= r[j].base
      /\ \A i \in 1..k : r[i].length # 0 => End(r[i]) <= End(r[k])
      /\ End(r[k]) <= MaxPage * PageSize
      /\ \A i \in 1..k : r[i].length # 0 /\ Usable(r[i]) => OnPages(r[i]) \/ InLow(r[i])
  BY <1>1, <1>2, <1>4 DEF SoundMap
<1>7. \A i \in 1..k : Used(m[i]) => OnPages(m[i]) \/ InLow(m[i])
  BY <1>3, <1>6 DEF Used, Ignored
<1>8. \A i, j \in 1..k : m[i].length # 0 /\ m[j].length # 0 /\ i < j => End(m[i]) <= m[j].base
  BY <1>3, <1>6
<1>9. \A i \in 1..k : m[i].length # 0 => End(m[i]) <= LastEnd
  BY <1>3, <1>5, <1>6
<1>. QED BY <1>1, <1>2, <1>3, <1>5, <1>6, <1>7, <1>8, <1>9 DEF Found_map

\* RAM reaches to where the firmware says, which is in the map.
LEMMA RamIsUsed ==
    ASSUME IInv, stage = "kernel", NEW n \in Nat, Ram(n)
    PROVE  \E i \in 1..Len(e820) :
              /\ Used(e820[i]) /\ Used(fw.map[i]) /\ n \in EntryBits(e820[i])
              /\ e820[i].base <= n * PageSize /\ (n + 1) * PageSize <= End(e820[i])
              /\ End(e820[i]) <= LastEnd
<1>1. PICK i \in 1..Len(fw.map) : Used(fw.map[i]) /\ Bytes(n) \subseteq BytesOf(fw.map[i])
  BY DEF Ram, Used
<1>2. i \in 1..Len(e820)
  BY MapFound DEF Found_map
<1>3. PICK e, r : e = e820[i] /\ r = fw.map[i]
  OBVIOUS
<1>4. r \in MapEntry /\ (e = r \/ e = [r EXCEPT !.size = 0])
  BY <1>2, <1>3, EntryOf
<1>5. e \in MapEntry /\ Used(e) /\ e.base = r.base /\ End(e) = End(r) /\ e.length # 0
  BY <1>1, <1>3, <1>4, SizeLost DEF Used, Ignored
<1>6. e.base \in Nat /\ End(e) \in Nat /\ PageSize \in Nat \ {0, 1}
  BY <1>5, PmmInitAssumption DEF MapEntry, End
<1>7. PICK a, b : a = n * PageSize /\ b = (n + 1) * PageSize
  OBVIOUS
<1>8. a \in Nat /\ b \in Nat /\ b = a + PageSize
  BY <1>6, <1>7, LessByFactor
<1>9. \A x \in a..(b - 1) : x \in (e.base)..(End(e) - 1)
  <2>1. Bytes(n) = a..(b - 1)
    BY <1>7 DEF Bytes
  <2>2. BytesOf(r) = (e.base)..(End(e) - 1)
    <3>1. BytesOf(r) = (r.base)..(End(r) - 1)
      <4>1. r.base \in Nat /\ r.length \in Nat
        BY <1>4 DEF MapEntry
      <4>. QED BY <4>1 DEF BytesOf, End
    <3>. QED BY <1>5, <3>1
  <2>. QED BY <1>1, <1>3, <2>1, <2>2
<1>10. a \in a..(b - 1) /\ b - 1 \in a..(b - 1)
  BY <1>6, <1>8
<1>11. e.base <= a /\ b <= End(e)
  <2>1. a \in (e.base)..(End(e) - 1) /\ b - 1 \in (e.base)..(End(e) - 1)
    BY <1>9, <1>10
  <2>. QED BY <1>6, <1>8, <2>1
<1>12. n \in EntryBits(e)
  BY <1>5, <1>7, <1>11, EntryCovers
<1>13. End(e) <= LastEnd
  BY <1>2, <1>3, <1>5, MapFound DEF Found_map
<1>. QED BY <1>1, <1>2, <1>3, <1>5, <1>7, <1>11, <1>12, <1>13

\* Usable areas do not meet in a page, as long as there is RAM above the low
\* memory: an ignored area of the low memory that has lost its size is not last.
LEMMA UsedApart ==
    ASSUME IInv, stage = "kernel", RamAbove, NEW i \in 1..Len(e820), NEW j \in 1..Len(e820),
           i < j, Used(e820[i]), Used(e820[j]), NEW n \in EntryBits(e820[i])
    PROVE  n \notin EntryBits(e820[j])
<1>. SUFFICES ASSUME n \in EntryBits(e820[j]) PROVE FALSE
  OBVIOUS
<1>1. Found_map
  BY MapFound
<1>2. PICK a, b, q, r : a = e820[i] /\ b = e820[j] /\ q = fw.map[i] /\ r = fw.map[j]
  OBVIOUS
<1>3. /\ a \in MapEntry /\ b \in MapEntry /\ a.length # 0 /\ b.length # 0
      /\ Usable(a) /\ Usable(b) /\ n \in EntryBits(a) /\ n \in EntryBits(b)
      /\ End(a) <= b.base /\ (OnPages(b) \/ InLow(b))
  BY <1>1, <1>2 DEF Found_map, Used, Ignored
<1>4. /\ a = q /\ q \in MapEntry /\ r \in MapEntry
      /\ (b = r \/ (b = [r EXCEPT !.size = 0] /\ j = Len(fw.map)))
  <2>1. Len(e820) = Len(fw.map) /\ Len(e820) \in Nat
    BY <1>1 DEF Found_map
  <2>2. i # Len(fw.map)
    BY <2>1
  <2>. QED BY <1>2, <2>2, EntryOf
<1>5. /\ n \in Nat /\ n * PageSize \in Nat /\ a.base \in Nat /\ End(a) \in Nat
      /\ b.base \in Nat /\ End(b) \in Nat /\ PageSize \in Nat \ {0, 1}
  <2>1. n \in Nat
    BY <1>3, EntryInterval
  <2>2. a.base \in Nat /\ End(a) \in Nat /\ b.base \in Nat /\ End(b) \in Nat
    BY <1>3 DEF MapEntry, End
  <2>3. PageSize \in Nat \ {0, 1}
    BY PmmInitAssumption
  <2>. QED BY <2>1, <2>2, <2>3
<1>6. CASE ~Ignored(r)
  <2>1. /\ Used(q) /\ Used(r) /\ q.length # 0 /\ r.length # 0
        /\ EntryBits(q) = EntryBits(a) /\ EntryBits(r) = EntryBits(b)
    BY <1>2, <1>3, <1>4, <1>6, SizeLost DEF Used, Ignored
  <2>2. EntryBits(q) \cap EntryBits(r) # {}
    BY <1>3, <2>1
  <2>3. SoundMap(fw.map) /\ i \in 1..Len(fw.map) /\ j \in 1..Len(fw.map)
    BY <1>1, MapAssumption DEF Found_map, IInv
  <2>4. \A x, y \in 1..Len(fw.map) :
           /\ fw.map[x].length # 0 /\ fw.map[y].length # 0 /\ Used(fw.map[x]) /\ Used(fw.map[y])
           /\ EntryBits(fw.map[x]) \cap EntryBits(fw.map[y]) # {}
           => x = y
    BY <2>3 DEF SoundMap, Used
  <2>5. i = j
    BY <1>2, <2>1, <2>2, <2>3, <2>4
  <2>. QED BY <2>5
<1>7. CASE OnPages(b)
  <2>1. b.base <= n * PageSize
    BY <1>3, <1>7, WholePages
  <2>2. n * PageSize < End(a)
    BY <1>3, EntryTouches
  <2>. QED BY <1>3, <1>5, <2>1, <2>2
<1>8. CASE Ignored(r) /\ InLow(b)
  <2>1. b = e820[Len(e820)]
    <3>1. b # r
      BY <1>2, <1>8 DEF Used
    <3>. QED BY <1>1, <1>2, <1>4, <3>1 DEF Found_map
  <2>2. PICK m \in Bit : m >= LowPages /\ Ram(m)
    BY DEF RamAbove
  <2>3. m \in Nat /\ LowPages \in Nat
    BY PmmInitAssumption DEF Bit
  <2>4. (m + 1) * PageSize <= LastEnd
    <3>1. PICK k \in 1..Len(e820) : (m + 1) * PageSize <= End(e820[k]) /\ End(e820[k]) <= LastEnd
                                    /\ Used(e820[k])
      BY <2>2, <2>3, RamIsUsed
    <3>2. End(e820[k]) \in Nat /\ LastEnd \in Nat
      BY <1>1 DEF Found_map, MapEntry, End
    <3>3. (m + 1) * PageSize \in Nat
      BY <1>5, <2>3
    <3>. QED BY <3>1, <3>2, <3>3
  <2>5. LastEnd <= LowPages * PageSize
    BY <1>8, <2>1 DEF InLow, LastEnd
  <2>6. LowPages * PageSize < (m + 1) * PageSize
    <3>1. LowPages * PageSize <= m * PageSize /\ (m + 1) * PageSize = m * PageSize + PageSize
      BY <1>5, <2>2, <2>3, LessByFactor
    <3>. QED BY <1>5, <2>3, <3>1
  <2>7. LastEnd \in Nat /\ LowPages * PageSize \in Nat /\ (m + 1) * PageSize \in Nat
    BY <1>1, <1>5, <2>3 DEF Found_map
  <2>. QED BY <2>4, <2>5, <2>6, <2>7
<1>. QED BY <1>3, <1>6, <1>7, <1>8

\* A usable area of whole pages is apart from all areas behind it, with the page
\* that they are given in addition.
LEMMA WholeApart ==
    ASSUME IInv, stage = "kernel", NEW i \in 1..Len(e820), NEW j \in 1..Len(e820),
           i < j, Used(e820[i]), e820[j].length # 0, NEW n \in EntryBits(e820[i]), n >= LowPages
    PROVE  n \notin EntryBits(e820[j])
<1>. SUFFICES ASSUME n \in EntryBits(e820[j]) PROVE FALSE
  OBVIOUS
<1>1. PICK a, b : a = e820[i] /\ b = e820[j]
  OBVIOUS
<1>2. /\ a \in MapEntry /\ b \in MapEntry /\ a.length # 0 /\ b.length # 0 /\ Usable(a)
      /\ n \in EntryBits(a) /\ n \in EntryBits(b) /\ End(a) <= b.base
      /\ (OnPages(a) \/ InLow(a))
  BY <1>1, MapFound DEF Found_map, Used, Ignored
<1>3. /\ n \in Nat /\ End(a) \in Nat /\ b.base \in Nat
      /\ (n + 1) * PageSize \in Nat /\ LowPages \in Nat
  <2>1. n \in Nat
    BY <1>2, EntryInterval
  <2>2. End(a) \in Nat /\ b.base \in Nat
    BY <1>2 DEF MapEntry, End
  <2>. QED BY <2>1, <2>2, PmmInitAssumption
<1>4. OnPages(a)
  BY <1>2, <1>3, LowIsLow
<1>5. (n + 1) * PageSize <= End(a) /\ b.base < (n + 1) * PageSize
  BY <1>2, <1>4, WholePages, EntryTouches
<1>. QED BY <1>2, <1>3, <1>5

\* The bitmap has a bit for every page of the map.
LEMMA TopBounds ==
    ASSUME IInv, stage = "kernel"
    PROVE  /\ Top \in Nat /\ Top <= MaxPage
           /\ LastEnd <= Top * PageSize /\ Top * PageSize < LastEnd + PageSize
           /\ BitmapBytes \in Nat /\ Top <= BitmapBytes * BitsPerByte
<1>1. /\ LastEnd \in Nat /\ LastEnd <= MaxPage * PageSize /\ PageSize \in Nat \ {0}
      /\ BitsPerByte \in Nat \ {0} /\ MaxPage \in Nat
  BY MapFound, PmmInitAssumption DEF Found_map
<1>2. Top \in Nat /\ LastEnd <= Top * PageSize /\ Top * PageSize < LastEnd + PageSize
  BY <1>1, CeilingBounds DEF Top
<1>3. BitmapBytes = Ceiling(Top, BitsPerByte)
  BY DEF BitmapBytes, Top, LastEnd, End
<1>4. BitmapBytes \in Nat /\ Top <= BitmapBytes * BitsPerByte
  BY <1>1, <1>2, <1>3, CeilingBounds
<1>5. Top <= MaxPage
  <2>1. Top * PageSize < (MaxPage + 1) * PageSize
    <3>1. (MaxPage + 1) * PageSize = MaxPage * PageSize + PageSize
      BY <1>1, LessByFactor
    <3>. QED BY <1>1, <1>2, <3>1
  <2>2. Top < MaxPage + 1
    BY <1>1, <1>2, <2>1, LessByFactor
  <2>. QED BY <1>1, <1>2, <2>2
<1>. QED BY <1>2, <1>4, <1>5

\* No area has pages behind Top; usable ones end before it.
LEMMA BelowTop ==
    ASSUME IInv, stage = "kernel", NEW i \in 1..Len(e820), e820[i].length # 0,
           NEW n \in EntryBits(e820[i])
    PROVE  n \in Nat /\ n <= Top /\ (Usable(e820[i]) => n < Top)
<1>1. PICK e : e = e820[i]
  OBVIOUS
<1>2. e \in MapEntry /\ e.length # 0 /\ End(e) <= LastEnd /\ LastEnd \in Nat
  BY <1>1, MapFound DEF Found_map
<1>3. /\ n \in Nat /\ End(e) \in Nat /\ PageSize \in Nat \ {0} /\ n * PageSize \in Nat
      /\ Top \in Nat /\ LastEnd <= Top * PageSize /\ Top * PageSize \in Nat
  <2>1. n \in Nat
    BY <1>1, <1>2, EntryInterval
  <2>2. End(e) \in Nat
    BY <1>2 DEF MapEntry, End
  <2>3. Top \in Nat /\ LastEnd <= Top * PageSize /\ PageSize \in Nat \ {0}
    BY TopBounds, PmmInitAssumption
  <2>. QED BY <2>1, <2>2, <2>3
<1>4. n * PageSize < End(e) + PageSize /\ (Usable(e) => n * PageSize < End(e))
  BY <1>1, <1>2, EntryTouches
<1>5. n * PageSize < (Top + 1) * PageSize
  <2>1. (Top + 1) * PageSize = Top * PageSize + PageSize
    BY <1>3, LessByFactor
  <2>. QED BY <1>2, <1>3, <1>4, <2>1
<1>6. n < Top + 1
  BY <1>3, <1>5, LessByFactor
<1>7. Usable(e) => n < Top
  <2>1. SUFFICES ASSUME Usable(e) PROVE n < Top
    OBVIOUS
  <2>2. n * PageSize < Top * PageSize
    BY <1>2, <1>3, <1>4, <2>1
  <2>. QED BY <1>3, <2>2, LessByFactor
<1>. QED BY <1>1, <1>3, <1>6, <1>7

-----------------------------------------------------------------------------

\* The entries that the loop has passed, and the free pages of the bitmap.
Done == 1..(next - 1)
Clear == Covered(pmm_bitmap_size) \ bitmap

\* Where the loop over the map is.
Loop ==
    /\ stage = "kernel" /\ pmm_bitmap_size = BitmapBytes
    /\ phase \in {"entries", "size", "done", "hung"}
    /\ phase = "entries" => next \in 1..Len(e820)
    /\ phase # "entries" => next = Len(e820) + 1

\* A bit is clear for a usable area that was added; above the low memory, no
\* later area sets it again.
Cleared == \A n \in Clear : \E i \in Done : Used(e820[i]) /\ n \in EntryBits(e820[i])
Kept == \A i \in Done : Used(e820[i]) =>
            \A n \in EntryBits(e820[i]) : n >= LowPages => n \notin bitmap
Bits ==
    /\ Cleared
    /\ Kept
    /\ phase = "done" => 0..(LowPages - 1) \subseteq bitmap

\* highest_usable_address is behind all usable areas, and in the map.
Highest_usable ==
    /\ highest_usable_address \in Nat /\ highest_usable_address <= LastEnd
    /\ \A i \in Done : Used(e820[i]) => End(e820[i]) <= highest_usable_address + 1

\* The clear bits are counted, but for one behind the bitmap that a reserved
\* area at the end of the map may have set.
Counted(c) == \E d \in {0, 1} : /\ total_pages - used_pages = c - d
                                /\ d = 1 => Top \in bitmap
Counters ==
    /\ total_pages \in Nat /\ used_pages \in Nat
    /\ RamAbove => Counted(Cardinality(Clear))

\* pmm_init, before its first step and from then on.
PmmStart == next = 1 /\ total_pages = 0 /\ used_pages = 0 /\ highest_usable_address = 0
Running == Loop /\ Bits /\ Highest_usable /\ Counters
PInv == (phase = "start" => PmmStart) /\ (phase # "start" => Running)

\* Clear bits of two apart areas are counted together.
LEMMA CountUsable ==
    ASSUME NEW C, NEW E, IsFiniteSet(C), IsFiniteSet(E), C \cap E = {}
    PROVE  Cardinality(C \cup E) = Cardinality(C) + Cardinality(E)
<1>1. PICK c, d, u, i : /\ c = Cardinality(C) /\ d = Cardinality(E) /\ u = Cardinality(C \cup E)
                        /\ i = Cardinality(C \cap E)
  OBVIOUS
<1>2. u = c + d - i /\ c \in Nat /\ d \in Nat
  BY <1>1, FS_Union, FS_CardinalityType
<1>3. i = 0
  BY <1>1, FS_EmptySet
<1>. QED BY <1>1, <1>2, <1>3

\* Pages marked used are those that were clear in the bitmap V, and at most one
\* page t behind it.
LEMMA CountReserved ==
    ASSUME NEW V, NEW B, NEW E, NEW t, IsFiniteSet(V), IsFiniteSet(E),
           \A n \in E : n \in V \/ n = t
    PROVE  \E x \in {0, 1} :
              /\ Cardinality(E \ B) = Cardinality((V \ B) \cap E) + x
              /\ x = 1 => t \in E /\ t \notin B
<1>1. PICK I : I = (V \ B) \cap E
  OBVIOUS
<1>2. IsFiniteSet(I) /\ Cardinality(I) \in Nat
  <2>1. IsFiniteSet(I)
    BY <1>1, FS_Subset
  <2>. QED BY <2>1, FS_CardinalityType
<1>3. CASE t \in E \ B /\ t \notin V
  <2>1. E \ B = I \cup {t} /\ t \notin I
    BY <1>1, <1>3
  <2>2. Cardinality(I \cup {t}) = Cardinality(I) + 1
    BY <1>2, <2>1, FS_AddElement
  <2>. QED BY <1>1, <1>3, <2>1, <2>2
<1>4. CASE ~(t \in E \ B /\ t \notin V)
  <2>1. E \ B = I
    BY <1>1, <1>4
  <2>2. Cardinality(E \ B) = Cardinality(I) + 0
    BY <1>2, <2>1
  <2>. QED BY <1>1, <2>2
<1>. QED BY <1>3, <1>4

\* What marking them leaves clear.
LEMMA CountLeft ==
    ASSUME NEW C, NEW E, IsFiniteSet(C)
    PROVE  Cardinality(C \ E) = Cardinality(C) - Cardinality(C \cap E)
BY FS_Difference

\* The bitmap and its clear bits are finite; it reaches up to Top.
LEMMA BitmapReach ==
    ASSUME IInv, Loop
    PROVE  /\ IsFiniteSet(Covered(pmm_bitmap_size)) /\ IsFiniteSet(Clear)
           /\ Cardinality(Clear) \in Nat
           /\ \A n \in Nat : n < Top => n \in Covered(pmm_bitmap_size)
           /\ \A n \in Nat : n <= Top => n \in Covered(pmm_bitmap_size) \/ n = Top
<1>1. PICK w : w = BitmapBytes * BitsPerByte
  OBVIOUS
<1>2. Top \in Nat /\ Top <= MaxPage /\ w \in Nat /\ Top <= w /\ MaxPage \in Nat
  <2>1. Top \in Nat /\ Top <= MaxPage /\ BitmapBytes \in Nat /\ Top <= w
    BY <1>1, TopBounds DEF Loop
  <2>. QED BY <1>1, <2>1, PmmInitAssumption
<1>3. Covered(pmm_bitmap_size) = {b \in 0..MaxPage : b < w}
  BY <1>1 DEF Covered, Bit, Loop
<1>4. IsFiniteSet(0..MaxPage)
  BY <1>2, FS_Interval
<1>5. IsFiniteSet(Covered(pmm_bitmap_size)) /\ IsFiniteSet(Clear)
  BY <1>3, <1>4, FS_Subset DEF Clear
<1>6. Cardinality(Clear) \in Nat
  BY <1>5, FS_CardinalityType
<1>. QED BY <1>2, <1>3, <1>5, <1>6

-----------------------------------------------------------------------------

\* The map, its end and what was added of it do not change under pmm_init.
LEMMA MapStays ==
    ASSUME UNCHANGED <<bootVars, e820>>
    PROVE  /\ e820' = e820 /\ fw' = fw /\ stage' = stage
           /\ LastEnd' = LastEnd /\ Top' = Top /\ BitmapBytes' = BitmapBytes
           /\ RamAbove' = RamAbove
<1>1. e820' = e820 /\ fw' = fw /\ stage' = stage
  BY DEF bootVars
<1>. QED BY <1>1 DEF LastEnd, Top, BitmapBytes, RamAbove, Ram, Bytes, BytesOf

\* SizeBitmap leaves no bit clear.
LEMMA SizeBitmapPInv ==
    ASSUME IInv, PInv, stage = "kernel", SizeBitmap, UNCHANGED bootVars
    PROVE  Running'
<1>1. /\ phase = "start" /\ phase' = "entries" /\ next' = next /\ next = 1 /\ e820' = e820
      /\ total_pages' = 0 /\ used_pages' = 0 /\ highest_usable_address' = 0
      /\ pmm_bitmap_size' = BitmapBytes /\ Covered(BitmapBytes) \subseteq bitmap'
  BY DEF PInv, PmmStart, SizeBitmap
<1>2. /\ stage' = stage /\ LastEnd' = LastEnd /\ Top' = Top /\ BitmapBytes' = BitmapBytes
  BY <1>1, MapStays
<1>3. LastEnd \in Nat /\ Len(e820) \in Nat \ {0}
  BY MapFound DEF Found_map
<1>4. Done' = {} /\ Clear' = {}
  BY <1>1 DEF Done, Clear
<1>5. Loop'
  BY <1>1, <1>2, <1>3 DEF Loop
<1>6. Bits'
  BY <1>1, <1>4 DEF Bits, Cleared, Kept
<1>7. Highest_usable'
  BY <1>1, <1>2, <1>3, <1>4 DEF Highest_usable
<1>8. Counters'
  <2>1. Cardinality(Clear') = 0
    BY <1>4, FS_EmptySet
  <2>2. Counted(Cardinality(Clear))'
    <3>1. total_pages' - used_pages' = Cardinality(Clear') - 0
      BY <1>1, <2>1
    <3>. QED BY <3>1 DEF Counted
  <2>. QED BY <1>1, <2>2 DEF Counters
<1>. QED BY <1>5, <1>6, <1>7, <1>8 DEF Running

\* One turn of the loop over the map.
LEMMA OneTurn ==
    ASSUME IInv, Running, phase = "entries", Advance, UNCHANGED bootVars
    PROVE  /\ next \in 1..Len(e820) /\ Len(e820) \in Nat
           /\ Loop'
           /\ \A i \in Done' : i \in Done \/ i = next
           /\ \A i \in Done : i \in 1..Len(e820) /\ i < next
           /\ Done \subseteq Done' /\ next \in Done'
<1>1. /\ e820' = e820 /\ pmm_bitmap_size' = pmm_bitmap_size /\ next' = next + 1
      /\ phase' = IF next = Len(e820) THEN "size" ELSE "entries"
  BY DEF Advance
<1>2. stage' = stage /\ BitmapBytes' = BitmapBytes
  BY <1>1, MapStays
<1>3. Len(e820) \in Nat \ {0}
  BY MapFound DEF Found_map, Running, Loop
<1>4. next \in 1..Len(e820)
  BY DEF Running, Loop
<1>5. Loop'
  BY <1>1, <1>2, <1>3, <1>4 DEF Running, Loop
<1>6. Done = 1..(next - 1) /\ Done' = 1..next
  BY <1>1, <1>3, <1>4 DEF Done
<1>. QED BY <1>3, <1>4, <1>5, <1>6

\* A usable entry frees its pages, and those of no other.
LEMMA UsableEntry ==
    ASSUME IInv, Running, AddEntry, UNCHANGED bootVars, Usable(e820[next])
    PROVE  /\ Bits' /\ Highest_usable' /\ Counters'
<1>1. PICK e, E : e = e820[next] /\ E = EntryBits(e)
  OBVIOUS
<1>2. /\ phase = "entries" /\ ~Ignored(e) /\ Usable(e) /\ Advance
      /\ total_pages' = total_pages + EntryPages(e) /\ used_pages' = used_pages
      /\ highest_usable_address' = Highest(e) /\ bitmap' = bitmap \ E
      /\ e820' = e820 /\ pmm_bitmap_size' = pmm_bitmap_size
  BY <1>1 DEF AddEntry, AddUsable, Advance
<1>3. /\ next \in 1..Len(e820) /\ Loop'
      /\ \A i \in Done' : i \in Done \/ i = next
      /\ \A i \in Done : i \in 1..Len(e820) /\ i < next
      /\ Done \subseteq Done' /\ next \in Done'
  BY <1>2, OneTurn
<1>4. LastEnd' = LastEnd /\ Top' = Top /\ RamAbove' = RamAbove /\ stage = "kernel"
  BY <1>2, MapStays DEF Running, Loop
<1>5. /\ e \in MapEntry /\ e.length # 0 /\ Used(e) /\ End(e) <= LastEnd /\ LastEnd \in Nat
  BY <1>1, <1>2, <1>3, <1>4, MapFound DEF Found_map, Used, Ignored
<1>6. /\ EntryPages(e) \in Nat /\ IsFiniteSet(E) /\ Cardinality(E) = EntryPages(e)
      /\ \A n \in E : n \in Nat
  BY <1>1, <1>5, EntryInterval
<1>7. \A n \in E : n < Top
  BY <1>1, <1>2, <1>3, <1>4, <1>5, BelowTop
<1>8. Running /\ Loop /\ Bits /\ Cleared /\ Kept
  BY DEF Running, Bits
<1>9. /\ IsFiniteSet(Clear) /\ Cardinality(Clear) \in Nat
      /\ \A n \in E : n \in Covered(pmm_bitmap_size)
  BY <1>6, <1>7, <1>8, BitmapReach
<1>10. Clear' = Clear \cup E
  <2>1. Covered(pmm_bitmap_size)' = Covered(pmm_bitmap_size)
    BY <1>2
  <2>2. Clear' = Covered(pmm_bitmap_size) \ (bitmap \ E)
    BY <1>2, <2>1 DEF Clear
  <2>. QED BY <1>9, <2>2 DEF Clear
<1>11. Bits'
  <2>1. Cleared'
    <3>1. SUFFICES ASSUME NEW n \in Clear'
                   PROVE  \E i \in Done' : Used(e820[i]) /\ n \in EntryBits(e820[i])
      BY <1>2 DEF Cleared
    <3>2. CASE n \in E
      BY <1>1, <1>3, <1>5, <3>2
    <3>3. CASE n \in Clear
      BY <1>3, <1>8, <3>3 DEF Cleared
    <3>. QED BY <1>10, <3>1, <3>2, <3>3
  <2>2. Kept'
    <3>1. SUFFICES ASSUME NEW i \in Done', Used(e820[i]), NEW n \in EntryBits(e820[i]),
                          n >= LowPages
                   PROVE  n \notin bitmap \ E
      BY <1>2 DEF Kept
    <3>. QED BY <1>1, <1>3, <1>8, <3>1 DEF Kept
  <2>3. phase' # "done"
    BY <1>2 DEF Advance
  <2>. QED BY <2>1, <2>2, <2>3 DEF Bits
<1>12. Highest_usable'
  <2>1. PICK h, g, x : h = highest_usable_address /\ g = highest_usable_address' /\ x = End(e)
    OBVIOUS
  <2>2. h \in Nat /\ h <= LastEnd /\ (\A i \in Done : Used(e820[i]) => End(e820[i]) <= h + 1)
    BY <2>1 DEF Running, Highest_usable
  <2>3. x \in Nat /\ x > 0 /\ x <= LastEnd
    BY <1>5, <2>1 DEF MapEntry, End
  <2>4. g = IF x > h THEN x - 1 ELSE h
    <3>1. x = e.base + e.length
      BY <2>1 DEF End
    <3>2. Usable(e) /\ g = Highest(e)
      BY <1>2, <2>1
    <3>3. Highest(e) = IF e.base + e.length > h THEN e.base + e.length - 1 ELSE h
      BY <2>1, <3>2 DEF Highest
    <3>4. e.base \in Nat /\ e.length \in Nat
      BY <1>5 DEF MapEntry
    <3>. QED BY <2>2, <2>3, <3>1, <3>2, <3>3, <3>4
  <2>5. g \in Nat /\ g <= LastEnd /\ x <= g + 1 /\ h <= g
    BY <1>5, <2>2, <2>3, <2>4
  <2>6. ASSUME NEW i \in Done', Used(e820[i]) PROVE End(e820[i]) <= g + 1
    <3>1. CASE i = next
      BY <1>1, <2>1, <2>5, <3>1
    <3>2. CASE i \in Done
      <4>1. End(e820[i]) \in Nat
        BY <1>3, <1>4, <3>2, MapFound DEF Found_map, MapEntry, End
      <4>2. End(e820[i]) <= h + 1
        BY <2>2, <2>6, <3>2
      <4>. QED BY <2>2, <2>5, <4>1, <4>2
    <3>. QED BY <1>3, <2>6, <3>1, <3>2
  <2>. QED BY <1>2, <1>4, <2>1, <2>5, <2>6 DEF Highest_usable
<1>13. Counters'
  <2>1. total_pages' \in Nat /\ used_pages' \in Nat
    BY <1>2, <1>6 DEF Running, Counters
  <2>2. ASSUME RamAbove PROVE Counted(Cardinality(Clear))'
    <3>1. \A n \in E : n \notin Clear
      <4>1. SUFFICES ASSUME NEW n \in E, n \in Clear PROVE FALSE
        OBVIOUS
      <4>2. PICK i \in Done : Used(e820[i]) /\ n \in EntryBits(e820[i])
        BY <1>8, <4>1 DEF Cleared
      <4>. QED BY <1>1, <1>3, <1>4, <1>5, <2>2, <4>1, <4>2, UsedApart
    <3>2. Cardinality(Clear') = Cardinality(Clear) + EntryPages(e)
      BY <1>6, <1>9, <1>10, <3>1, CountUsable
    <3>3. PICK d \in {0, 1} : /\ total_pages - used_pages = Cardinality(Clear) - d
                              /\ d = 1 => Top \in bitmap
      BY <2>2 DEF Running, Counters, Counted
    <3>4. total_pages' - used_pages' = Cardinality(Clear') - d
      <4>1. total_pages \in Nat /\ used_pages \in Nat
        BY DEF Running, Counters
      <4>2. PICK c, k, p : c = Cardinality(Clear) /\ k = Cardinality(Clear') /\ p = EntryPages(e)
        OBVIOUS
      <4>. QED BY <1>2, <1>6, <1>9, <3>2, <3>3, <4>1, <4>2
    <3>5. Top \notin E
      <4>1. Top \in Nat
        BY <1>4, TopBounds
      <4>. QED BY <1>7, <4>1
    <3>6. d = 1 => Top' \in bitmap'
      BY <1>2, <1>4, <3>3, <3>5
    <3>. QED BY <3>4, <3>6 DEF Counted
  <2>. QED BY <1>4, <2>1, <2>2 DEF Counters
<1>. QED BY <1>11, <1>12, <1>13

\* An entry of other memory sets the bits of its pages; above the low memory,
\* none of them belongs to a usable area.
LEMMA ReservedEntry ==
    ASSUME IInv, Running, AddEntry, UNCHANGED bootVars, ~Usable(e820[next])
    PROVE  /\ Bits' /\ Highest_usable' /\ Counters'
<1>1. PICK e, E : e = e820[next] /\ E = EntryBits(e)
  OBVIOUS
<1>2. /\ phase = "entries" /\ ~Ignored(e) /\ ~Usable(e) /\ Advance
      /\ total_pages' = total_pages + EntryPages(e)
      /\ used_pages' = used_pages + EntryPages(e) + Cardinality(E \ bitmap)
      /\ highest_usable_address' = highest_usable_address /\ bitmap' = bitmap \cup E
      /\ e820' = e820 /\ pmm_bitmap_size' = pmm_bitmap_size
  BY <1>1 DEF AddEntry, AddReserved, Advance, Highest
<1>3. /\ next \in 1..Len(e820) /\ Loop'
      /\ \A i \in Done' : i \in Done \/ i = next
      /\ \A i \in Done : i \in 1..Len(e820) /\ i < next
      /\ Done \subseteq Done' /\ next \in Done'
  BY <1>2, OneTurn
<1>4. LastEnd' = LastEnd /\ Top' = Top /\ RamAbove' = RamAbove /\ stage = "kernel"
  BY <1>2, MapStays DEF Running, Loop
<1>5. e \in MapEntry /\ e.length # 0 /\ ~Used(e)
  BY <1>1, <1>2, <1>3, <1>4, MapFound DEF Found_map, Used, Ignored
<1>6. /\ EntryPages(e) \in Nat /\ IsFiniteSet(E)
      /\ \A n \in E : n \in Nat
  BY <1>1, <1>5, EntryInterval
<1>7. \A n \in E : n <= Top
  BY <1>1, <1>3, <1>4, <1>5, BelowTop
<1>8. Loop /\ Cleared /\ Kept
  BY DEF Running, Bits
<1>9. /\ IsFiniteSet(Covered(pmm_bitmap_size)) /\ IsFiniteSet(Clear) /\ Cardinality(Clear) \in Nat
      /\ \A n \in E : n \in Covered(pmm_bitmap_size) \/ n = Top
  BY <1>6, <1>7, <1>8, BitmapReach
<1>10. Clear' = Clear \ E
  <2>1. Clear' = Covered(pmm_bitmap_size) \ (bitmap \cup E)
    BY <1>2 DEF Clear
  <2>. QED BY <2>1 DEF Clear
<1>11. Bits'
  <2>1. Cleared'
    BY <1>2, <1>3, <1>8, <1>10 DEF Cleared
  <2>2. Kept'
    <3>1. SUFFICES ASSUME NEW i \in Done', Used(e820[i]), NEW n \in EntryBits(e820[i]),
                          n >= LowPages
                   PROVE  n \notin bitmap \cup E
      BY <1>2 DEF Kept
    <3>2. i \in Done
      BY <1>1, <1>3, <1>5, <3>1
    <3>3. n \notin bitmap
      BY <1>8, <3>1, <3>2 DEF Kept
    <3>4. n \notin E
      BY <1>1, <1>3, <1>4, <1>5, <3>1, <3>2, WholeApart
    <3>. QED BY <3>3, <3>4
  <2>3. phase' # "done"
    BY <1>2 DEF Advance
  <2>. QED BY <2>1, <2>2, <2>3 DEF Bits
<1>12. Highest_usable'
  BY <1>1, <1>2, <1>3, <1>4, <1>5 DEF Running, Highest_usable
<1>13. Counters'
  <2>1. PICK x \in {0, 1} : /\ Cardinality(E \ bitmap) = Cardinality(Clear \cap E) + x
                            /\ x = 1 => Top \in E /\ Top \notin bitmap
    BY <1>6, <1>9, CountReserved DEF Clear
  <2>2. PICK c, k, p, i, m : /\ c = Cardinality(Clear) /\ k = Cardinality(Clear')
                             /\ p = EntryPages(e) /\ i = Cardinality(Clear \cap E)
                             /\ m = Cardinality(E \ bitmap)
    OBVIOUS
  <2>3. k = c - i
    BY <1>9, <1>10, <2>2, CountLeft
  <2>4. c \in Nat /\ i \in Nat /\ p \in Nat /\ total_pages \in Nat /\ used_pages \in Nat
    <3>1. IsFiniteSet(Clear \cap E)
      BY <1>9, FS_Intersection
    <3>2. i \in Nat
      BY <2>2, <3>1, FS_CardinalityType
    <3>. QED BY <1>6, <1>9, <2>2, <3>2 DEF Running, Counters
  <2>5. total_pages' = total_pages + p /\ used_pages' = used_pages + p + i + x
    <3>1. m = i + x /\ used_pages' = used_pages + p + m /\ total_pages' = total_pages + p
      BY <1>2, <2>1, <2>2
    <3>. QED BY <2>4, <3>1
  <2>6. total_pages' \in Nat /\ used_pages' \in Nat
    BY <2>4, <2>5
  <2>7. ASSUME RamAbove PROVE Counted(Cardinality(Clear))'
    <3>1. PICK d \in {0, 1} : total_pages - used_pages = c - d /\ (d = 1 => Top \in bitmap)
      BY <2>2, <2>7 DEF Running, Counters, Counted
    <3>2. x = 0 \/ d = 0
      BY <2>1, <3>1
    <3>3. PICK y : y = d + x
      OBVIOUS
    <3>4. y \in {0, 1} /\ total_pages' - used_pages' = k - y
      BY <2>3, <2>4, <2>5, <3>1, <3>2, <3>3
    <3>5. y = 1 => Top' \in bitmap'
      BY <1>2, <1>4, <2>1, <3>1, <3>2, <3>3
    <3>. QED BY <2>2, <3>4, <3>5 DEF Counted
  <2>. QED BY <1>4, <2>6, <2>7 DEF Counters
<1>. QED BY <1>11, <1>12, <1>13

\* An entry that is skipped is not one that the kernel uses.
LEMMA SkippedEntry ==
    ASSUME IInv, Running, SkipEntry, UNCHANGED bootVars
    PROVE  /\ Bits' /\ Highest_usable' /\ Counters'
<1>1. /\ phase = "entries" /\ Advance /\ ~Used(e820[next]) /\ e820' = e820
      /\ pmm_bitmap_size' = pmm_bitmap_size
      /\ UNCHANGED <<bitmap, total_pages, used_pages, highest_usable_address>>
  BY DEF SkipEntry, Used, Usable, Known, Advance
<1>2. /\ \A i \in Done' : i \in Done \/ i = next
      /\ Done \subseteq Done'
  BY <1>1, OneTurn
<1>3. LastEnd' = LastEnd /\ Top' = Top /\ RamAbove' = RamAbove /\ Clear' = Clear
  BY <1>1, MapStays DEF Clear
<1>4. phase' # "done"
  BY <1>1 DEF Advance
<1>5. Bits'
  BY <1>1, <1>2, <1>3, <1>4 DEF Running, Bits, Cleared, Kept
<1>6. Highest_usable'
  BY <1>1, <1>2, <1>3 DEF Running, Highest_usable
<1>7. Counters'
  BY <1>1, <1>3 DEF Running, Counters, Counted
<1>. QED BY <1>5, <1>6, <1>7

\* The low memory lies in the bitmap if there is RAM above it.
LEMMA LowCovered ==
    ASSUME IInv, Loop, RamAbove, NEW n \in 0..(LowPages - 1)
    PROVE  n \in Covered(pmm_bitmap_size)
<1>1. PICK m \in Bit : m >= LowPages /\ Ram(m)
  BY DEF RamAbove
<1>2. m \in Nat /\ LowPages \in Nat /\ PageSize \in Nat \ {0, 1} /\ n \in Nat
  BY PmmInitAssumption DEF Bit
<1>3. stage = "kernel"
  BY DEF Loop
<1>4. PICK i \in 1..Len(e820) : Used(e820[i]) /\ m \in EntryBits(e820[i])
  BY <1>1, <1>2, <1>3, RamIsUsed
<1>5. m < Top /\ Top \in Nat
  BY <1>3, <1>4, BelowTop, TopBounds DEF Used, Ignored
<1>6. n < Top
  BY <1>1, <1>2, <1>5
<1>. QED BY <1>2, <1>6, BitmapReach

\* ReserveLow counts the pages that it reserves.
LEMMA LowReserved ==
    ASSUME IInv, Running, ReserveLow, UNCHANGED bootVars
    PROVE  Running'
<1>1. PICK E : E = 0..(LowPages - 1)
  OBVIOUS
<1>2. /\ phase = "size" /\ phase' = "done" /\ bitmap' = bitmap \cup E
      /\ used_pages' = used_pages + Cardinality(E \ bitmap)
      /\ UNCHANGED <<e820, next, pmm_bitmap_size, total_pages, highest_usable_address>>
  BY <1>1 DEF ReserveLow
<1>3. /\ LastEnd' = LastEnd /\ Top' = Top /\ RamAbove' = RamAbove /\ BitmapBytes' = BitmapBytes
      /\ stage' = stage /\ Done' = Done
  BY <1>2, MapStays DEF Done
<1>4. Loop /\ Cleared /\ Kept
  BY DEF Running, Bits
<1>5. IsFiniteSet(E) /\ IsFiniteSet(E \ bitmap) /\ Cardinality(E \ bitmap) \in Nat
  <2>1. IsFiniteSet(E)
    BY <1>1, FS_Interval, PmmInitAssumption
  <2>2. IsFiniteSet(E \ bitmap)
    BY <2>1, FS_Difference
  <2>. QED BY <2>1, <2>2, FS_CardinalityType
<1>6. IsFiniteSet(Clear) /\ Cardinality(Clear) \in Nat
  BY <1>4, BitmapReach
<1>7. Clear' = Clear \ E
  BY <1>2 DEF Clear
<1>8. Loop'
  BY <1>2, <1>3, <1>4 DEF Loop
<1>9. Bits'
  <2>1. Cleared'
    BY <1>2, <1>3, <1>4, <1>7 DEF Cleared
  <2>2. Kept'
    <3>1. SUFFICES ASSUME NEW i \in Done, Used(e820[i]), NEW n \in EntryBits(e820[i]),
                          n >= LowPages
                   PROVE  n \notin bitmap \cup E
      BY <1>2, <1>3 DEF Kept
    <3>2. n \notin bitmap
      BY <1>4, <3>1 DEF Kept
    <3>3. n \notin E
      BY <1>1, <3>1, PmmInitAssumption
    <3>. QED BY <3>2, <3>3
  <2>3. (0..(LowPages - 1) \subseteq bitmap)'
    BY <1>1, <1>2
  <2>. QED BY <2>1, <2>2, <2>3 DEF Bits
<1>10. Highest_usable'
  BY <1>2, <1>3 DEF Running, Highest_usable
<1>11. Counters'
  <2>1. total_pages \in Nat /\ used_pages \in Nat
    BY DEF Running, Counters
  <2>2. ASSUME RamAbove PROVE Counted(Cardinality(Clear))'
    <3>1. \A n \in E : n \in Covered(pmm_bitmap_size)
      BY <1>1, <1>4, <2>2, LowCovered
    <3>2. E \ bitmap = Clear \cap E
      BY <3>1 DEF Clear
    <3>3. PICK c, k, m : /\ c = Cardinality(Clear) /\ k = Cardinality(Clear')
                         /\ m = Cardinality(E \ bitmap)
      OBVIOUS
    <3>4. k = c - m
      <4>1. Cardinality(Clear \ E) = Cardinality(Clear) - Cardinality(Clear \cap E)
        BY <1>6, CountLeft
      <4>. QED BY <1>7, <3>2, <3>3, <4>1
    <3>5. PICK d \in {0, 1} : total_pages - used_pages = c - d /\ (d = 1 => Top \in bitmap)
      BY <2>2, <3>3 DEF Running, Counters, Counted
    <3>6. total_pages' - used_pages' = k - d
      BY <1>2, <1>5, <1>6, <2>1, <3>3, <3>4, <3>5
    <3>7. d = 1 => Top' \in bitmap'
      BY <1>2, <1>3, <3>5
    <3>. QED BY <3>3, <3>6, <3>7 DEF Counted
  <2>. QED BY <1>2, <1>3, <1>5, <2>1, <2>2 DEF Counters
<1>. QED BY <1>8, <1>9, <1>10, <1>11 DEF Running

\* Every step keeps the invariant of pmm_init; the boot manager has not called it.
LEMMA NextPInv ==
    ASSUME IInv, PInv, phase # "start" => stage = "kernel", [Next]_vars
    PROVE  PInv' /\ (phase # "start" => stage = "kernel")'
<1>1. CASE BootManager
  <2>1. /\ stage # "kernel"
        /\ UNCHANGED <<next, phase, total_pages, used_pages, highest_usable_address>>
    BY <1>1 DEF BootManager, Mbr, Stage1, Detect, DetectMemory, A20, LoadKernel, ScanAcpi,
       SetupPaging, Vbe, TryMode, EnterKernel, Proceed, pmmVars
  <2>. QED BY <2>1 DEF PInv, PmmStart
<1>2. CASE stage = "kernel" /\ pmm_init /\ UNCHANGED bootVars
  <2>1. stage' = "kernel"
    BY <1>2 DEF bootVars
  <2>2. CASE SizeBitmap
    <3>1. phase' # "start"
      BY <2>2 DEF SizeBitmap
    <3>. QED BY <1>2, <2>1, <2>2, <3>1, SizeBitmapPInv DEF PInv
  <2>3. CASE AddEntry
    <3>1. phase = "entries" /\ Advance /\ phase' # "start"
      BY <2>3 DEF AddEntry, Advance
    <3>2. Running
      BY <3>1 DEF PInv
    <3>3. Loop'
      BY <1>2, <3>1, <3>2, OneTurn
    <3>4. Bits' /\ Highest_usable' /\ Counters'
      BY <1>2, <2>3, <3>2, UsableEntry, ReservedEntry
    <3>. QED BY <2>1, <3>1, <3>3, <3>4 DEF PInv, Running
  <2>4. CASE SkipEntry
    <3>1. phase = "entries" /\ Advance /\ phase' # "start"
      BY <2>4 DEF SkipEntry, Advance
    <3>2. Running
      BY <3>1 DEF PInv
    <3>3. Loop'
      BY <1>2, <3>1, <3>2, OneTurn
    <3>4. Bits' /\ Highest_usable' /\ Counters'
      BY <1>2, <2>4, <3>2, SkippedEntry
    <3>. QED BY <2>1, <3>1, <3>3, <3>4 DEF PInv, Running
  <2>5. CASE TooSmall
    <3>1. /\ phase = "size" /\ phase' = "hung"
          /\ UNCHANGED <<e820, next, bitmap, pmm_bitmap_size, total_pages, used_pages,
                         highest_usable_address>>
      BY <2>5 DEF TooSmall
    <3>2. Running
      BY <3>1 DEF PInv
    <3>3. /\ LastEnd' = LastEnd /\ Top' = Top /\ RamAbove' = RamAbove
          /\ BitmapBytes' = BitmapBytes /\ stage' = stage /\ Done' = Done /\ Clear' = Clear
      BY <1>2, <3>1, MapStays DEF Done, Clear
    <3>4. Loop'
      BY <3>1, <3>2, <3>3 DEF Running, Loop
    <3>5. Bits'
      BY <3>1, <3>2, <3>3 DEF Running, Bits, Cleared, Kept
    <3>6. Highest_usable'
      BY <3>1, <3>2, <3>3 DEF Running, Highest_usable
    <3>7. Counters'
      BY <3>1, <3>2, <3>3 DEF Running, Counters, Counted
    <3>. QED BY <2>1, <3>1, <3>4, <3>5, <3>6, <3>7 DEF PInv, Running
  <2>6. CASE ReserveLow
    <3>1. phase = "size" /\ phase' = "done"
      BY <2>6 DEF ReserveLow
    <3>2. Running
      BY <3>1 DEF PInv
    <3>. QED BY <1>2, <2>1, <2>6, <3>1, <3>2, LowReserved DEF PInv
  <2>. QED BY <1>2, <2>2, <2>3, <2>4, <2>5, <2>6 DEF pmm_init
<1>3. CASE UNCHANGED vars
  <2>1. /\ UNCHANGED <<next, phase, bitmap, pmm_bitmap_size, total_pages, used_pages,
                       highest_usable_address, e820>>
        /\ UNCHANGED bootVars /\ stage' = stage
    BY <1>3 DEF vars, pmmVars, bootVars
  <2>2. /\ LastEnd' = LastEnd /\ Top' = Top /\ RamAbove' = RamAbove /\ BitmapBytes' = BitmapBytes
        /\ Done' = Done /\ Clear' = Clear
    BY <2>1, MapStays DEF Done, Clear
  <2>3. Loop => Loop'
    BY <2>1, <2>2 DEF Loop
  <2>4. Bits => Bits'
    BY <2>1, <2>2 DEF Bits, Cleared, Kept
  <2>5. Highest_usable => Highest_usable'
    BY <2>1, <2>2 DEF Highest_usable
  <2>6. Counters => Counters'
    BY <2>1, <2>2 DEF Counters, Counted
  <2>. QED BY <2>1, <2>3, <2>4, <2>5, <2>6 DEF PInv, PmmStart, Running
<1>. QED BY <1>1, <1>2, <1>3 DEF Next

\* Inductive, together with what the boot manager found: at every step of
\* pmm_init, which bits are clear and what the counters say of them.
THEOREM PmmInitInductive == Spec => [](IInv /\ PInv)
<1>. DEFINE Q == IInv /\ PInv /\ (phase # "start" => stage = "kernel")
<1>1. Init => Q
  <2>. SUFFICES ASSUME Init PROVE Q
    OBVIOUS
  <2>1. phase = "start" /\ PmmStart
    BY DEF Init, PmmStatics, PmmStart
  <2>. QED BY <2>1, InitIInv DEF PInv
<1>2. Q /\ [Next]_vars => Q'
  BY NextIInv, NextPInv
<1>3. Q => IInv /\ PInv
  OBVIOUS
<1>. HIDE DEF Q
<1>. QED BY <1>1, <1>2, <1>3, PTL DEF Spec

-----------------------------------------------------------------------------
(* What pmm_init leaves behind.                                            *)

\* A free page is a whole page of a usable area above the low memory.
LEMMA FreePage ==
    ASSUME IInv, PInv, phase = "done", NEW n \in Clear
    PROVE  /\ n \in Nat /\ n >= LowPages
           /\ \E i \in 1..Len(e820) :
                 /\ Used(e820[i]) /\ e820[i] \in MapEntry
                 /\ e820[i].base <= n * PageSize /\ (n + 1) * PageSize <= End(e820[i])
                 /\ End(e820[i]) <= highest_usable_address + 1
<1>1. Loop /\ Bits /\ Cleared /\ Highest_usable /\ stage = "kernel"
  BY DEF PInv, Running, Bits, Loop
<1>2. PICK i \in Done : Used(e820[i]) /\ n \in EntryBits(e820[i])
  BY <1>1 DEF Cleared
<1>3. i \in 1..Len(e820) /\ Len(e820) \in Nat
  <2>1. Len(e820) \in Nat /\ next = Len(e820) + 1
    BY <1>1, MapFound DEF Found_map, Loop
  <2>. QED BY <2>1 DEF Done
<1>4. PICK e : e = e820[i]
  OBVIOUS
<1>5. e \in MapEntry /\ e.length # 0 /\ Usable(e) /\ (OnPages(e) \/ InLow(e))
  BY <1>1, <1>2, <1>3, <1>4, MapFound DEF Found_map, Used, Ignored
<1>6. n \in Nat
  BY <1>2, <1>4, <1>5, EntryInterval
<1>7. n >= LowPages
  <2>1. n \notin 0..(LowPages - 1)
    BY <1>1 DEF Bits, Clear
  <2>. QED BY <1>6, <2>1, PmmInitAssumption
<1>8. OnPages(e)
  BY <1>2, <1>4, <1>5, <1>6, <1>7, LowIsLow, PmmInitAssumption
<1>9. e.base <= n * PageSize /\ (n + 1) * PageSize <= End(e)
  BY <1>2, <1>4, <1>5, <1>8, WholePages
<1>10. End(e) <= highest_usable_address + 1
  BY <1>1, <1>2, <1>4 DEF Highest_usable
<1>. QED BY <1>2, <1>3, <1>4, <1>5, <1>6, <1>7, <1>9, <1>10

\* RAM above the low memory is free, and highest_usable_address is behind it.
LEMMA RamIsFree ==
    ASSUME IInv, PInv, phase = "done", NEW n \in Nat, n >= LowPages, Ram(n)
    PROVE  /\ n \in Clear /\ (n + 1) * PageSize <= highest_usable_address + 1
<1>1. Loop /\ Bits /\ Kept /\ Highest_usable /\ stage = "kernel"
  BY DEF PInv, Running, Bits, Loop
<1>2. PICK i \in 1..Len(e820) : /\ Used(e820[i]) /\ n \in EntryBits(e820[i])
                                /\ (n + 1) * PageSize <= End(e820[i])
  BY <1>1, RamIsUsed
<1>3. i \in Done
  <2>1. Len(e820) \in Nat /\ next = Len(e820) + 1
    BY <1>1, MapFound DEF Found_map, Loop
  <2>. QED BY <2>1 DEF Done
<1>4. n \notin bitmap
  BY <1>1, <1>2, <1>3 DEF Kept
<1>5. n < Top
  BY <1>1, <1>2, BelowTop DEF Used, Ignored
<1>6. n \in Covered(pmm_bitmap_size)
  BY <1>1, <1>5, BitmapReach
<1>7. (n + 1) * PageSize <= highest_usable_address + 1
  <2>1. End(e820[i]) \in Nat
    BY <1>1, <1>2, MapFound DEF Found_map, MapEntry, End
  <2>2. End(e820[i]) <= highest_usable_address + 1 /\ highest_usable_address \in Nat
    BY <1>1, <1>2, <1>3 DEF Highest_usable
  <2>3. (n + 1) * PageSize \in Nat
    BY PmmInitAssumption
  <2>. QED BY <1>2, <2>1, <2>2, <2>3
<1>. QED BY <1>4, <1>6, <1>7 DEF Clear

\* Pages that the allocator hands out have their bit in the bitmap.
LEMMA AllocatableClear ==
    ASSUME IInv, PInv, phase = "done", NEW n \in Allocatable
    PROVE  n \in Clear
<1>1. Loop /\ Highest_usable /\ stage = "kernel"
  BY DEF PInv, Running, Loop
<1>2. PICK h, s, a, t : /\ h = highest_usable_address /\ s = PageSize /\ a = n * PageSize
                        /\ t = Top * PageSize
  OBVIOUS
<1>3. n \in Nat /\ n \notin bitmap /\ a < h - s /\ s \in Nat \ {0, 1} /\ a \in Nat
  <2>1. n \in Nat /\ n \notin bitmap /\ a < h - s
    BY <1>2, PmmInitAssumption DEF Allocatable, Bit
  <2>. QED BY <1>2, <2>1, PmmInitAssumption
<1>4. h \in Nat /\ h <= LastEnd /\ LastEnd \in Nat /\ LastEnd <= t /\ Top \in Nat /\ t \in Nat
  <2>1. h \in Nat /\ h <= LastEnd /\ LastEnd \in Nat
    BY <1>1, <1>2, MapFound DEF Highest_usable, Found_map
  <2>2. Top \in Nat /\ LastEnd <= t
    BY <1>1, <1>2, TopBounds
  <2>. QED BY <1>2, <1>3, <2>1, <2>2
<1>5. a < t
  BY <1>3, <1>4
<1>6. n < Top
  BY <1>2, <1>3, <1>4, <1>5, LessByFactor
<1>. QED BY <1>1, <1>3, <1>6, BitmapReach DEF Clear

-----------------------------------------------------------------------------

\* FreePagesAreRam holds for every sound memory map: whatever the allocator
\* hands out is RAM above the reserved low memory, unless the one area is
\* misread whose "ignore me" the boot manager has lost.
THEOREM FreeIsRam == Spec => []FreePagesAreRam
<1>1. ASSUME IInv, PInv, phase = "done", NEW n \in Allocatable
      PROVE  n >= LowPages /\ (Ram(n) \/ Misread(n)) /\ n \in Covered(pmm_bitmap_size)
  <2>1. n \in Clear
    BY <1>1, AllocatableClear
  <2>2. PICK i \in 1..Len(e820) :
           /\ Used(e820[i]) /\ e820[i] \in MapEntry
           /\ e820[i].base <= n * PageSize /\ (n + 1) * PageSize <= End(e820[i])
    BY <1>1, <2>1, FreePage
  <2>3. n \in Nat /\ n >= LowPages
    BY <1>1, <2>1, FreePage
  <2>4. PICK e, r : e = e820[i] /\ r = fw.map[i]
    OBVIOUS
  <2>5. stage = "kernel" /\ Len(e820) = Len(fw.map)
    <3>1. stage = "kernel"
      BY <1>1 DEF PInv, Running, Loop
    <3>. QED BY <1>1, <3>1, MapFound DEF Found_map
  <2>6. r \in MapEntry /\ (e = r \/ (/\ e = [r EXCEPT !.size = 0]
                                     /\ fw.map_ends = "zero" /\ i = Len(fw.map)))
    BY <1>1, <2>4, <2>5, EntryOf
  <2>7. e.base = r.base /\ End(e) = End(r) /\ Usable(r)
    BY <2>2, <2>4, <2>6, SizeLost DEF Used
  <2>8. Bytes(n) \subseteq BytesOf(r)
    <3>1. PICK a, b, c, d : a = n * PageSize /\ b = (n + 1) * PageSize /\ c = r.base /\ d = End(r)
      OBVIOUS
    <3>2. a \in Nat /\ b \in Nat
      BY <2>3, <3>1, PmmInitAssumption
    <3>3. c \in Nat /\ d \in Nat /\ r.length \in Nat
      BY <2>6, <3>1 DEF MapEntry, End
    <3>4. c <= a /\ b <= d
      BY <2>2, <2>4, <2>7, <3>1
    <3>5. Bytes(n) = a..(b - 1)
      BY <3>1 DEF Bytes
    <3>6. BytesOf(r) = c..(d - 1)
      BY <3>1, <3>3 DEF BytesOf, End
    <3>. QED BY <3>2, <3>3, <3>4, <3>5, <3>6
  <2>9. Ram(n) \/ Misread(n)
    <3>1. CASE ~Ignored(r)
      BY <2>4, <2>5, <2>7, <2>8, <3>1 DEF Ram
    <3>2. CASE Ignored(r)
      <4>1. e # r
        BY <2>2, <2>4, <3>2 DEF Used
      <4>. QED BY <2>4, <2>6, <2>8, <3>2, <4>1 DEF Misread
    <3>. QED BY <3>1, <3>2
  <2>. QED BY <2>1, <2>3, <2>9 DEF Clear
<1>2. IInv /\ PInv => FreePagesAreRam
  BY <1>1 DEF FreePagesAreRam
<1>. QED BY <1>2, PmmInitInductive, PTL

\* AllRamManaged holds for every sound memory map: of all RAM above the low
\* memory, only the last page can be out of the allocator's reach.
THEOREM RamIsManaged == Spec => []AllRamManaged
<1>1. ASSUME IInv, PInv, phase = "done", NEW n \in Bit, n >= LowPages, Ram(n),
             n \notin Allocatable, NEW m \in Bit, m > n, Ram(m)
      PROVE  FALSE
  <2>1. n \in Nat /\ m \in Nat /\ PageSize \in Nat \ {0, 1} /\ LowPages \in Nat
    BY PmmInitAssumption DEF Bit
  <2>2. n \in Clear /\ m >= LowPages
    BY <1>1, <2>1, RamIsFree
  <2>3. (m + 1) * PageSize <= highest_usable_address + 1
    BY <1>1, <2>1, <2>2, RamIsFree
  <2>4. highest_usable_address \in Nat
    BY <1>1 DEF PInv, Running, Highest_usable
  <2>5. PICK h, s, a, b : /\ h = highest_usable_address /\ s = PageSize
                          /\ a = n * PageSize /\ b = (m + 1) * PageSize
    OBVIOUS
  <2>6. a \in Nat /\ b \in Nat /\ ~(a < h - s)
    BY <1>1, <2>1, <2>2, <2>5 DEF Allocatable, Clear
  <2>7. a + 2 * s <= b
    <3>1. (n + 2) * s <= (m + 1) * s
      BY <1>1, <2>1, <2>5, LessByFactor
    <3>2. (n + 2) * s = n * s + 2 * s
      BY <2>1, <2>5
    <3>. QED BY <2>1, <2>5, <2>6, <3>1, <3>2
  <2>. QED BY <2>1, <2>3, <2>4, <2>5, <2>6, <2>7
<1>2. IInv /\ PInv => AllRamManaged
  BY <1>1 DEF AllRamManaged
<1>. QED BY <1>2, PmmInitInductive, PTL

\* The free pages are those the allocator can reach, and at most one more.
LEMMA OneOutOfReach ==
    ASSUME IInv, PInv, phase = "done"
    PROVE  /\ IsFiniteSet(Allocatable) /\ Cardinality(Allocatable) \in Nat
           /\ Cardinality(Clear) <= Cardinality(Allocatable) + 1
<1>1. Loop /\ highest_usable_address \in Nat
  BY DEF PInv, Running, Highest_usable
<1>2. IsFiniteSet(Clear) /\ Cardinality(Clear) \in Nat
  BY <1>1, BitmapReach
<1>3. Allocatable \subseteq Clear
  BY AllocatableClear
<1>4. IsFiniteSet(Allocatable) /\ Cardinality(Allocatable) \in Nat
  <2>1. IsFiniteSet(Allocatable)
    BY <1>2, <1>3, FS_Subset
  <2>. QED BY <2>1, FS_CardinalityType
<1>5. ASSUME NEW n \in Clear, n \notin Allocatable, NEW m \in Clear, m \notin Allocatable
      PROVE  ~(n < m)
  <2>1. PICK h, s, a, b : /\ h = highest_usable_address /\ s = PageSize
                          /\ a = n * PageSize /\ b = (m + 1) * PageSize
    OBVIOUS
  <2>2. n \in Nat /\ m \in Nat /\ s \in Nat \ {0, 1} /\ h \in Nat
    BY <1>1, <1>5, <2>1, FreePage, PmmInitAssumption
  <2>3. a \in Nat /\ b \in Nat
    BY <2>1, <2>2
  <2>4. ~(a < h - s)
    BY <1>5, <2>1 DEF Allocatable, Clear, Covered
  <2>5. b <= h + 1
    <3>1. PICK i \in 1..Len(e820) : /\ e820[i] \in MapEntry
                                    /\ b <= End(e820[i]) /\ End(e820[i]) <= h + 1
      BY <1>5, <2>1, FreePage
    <3>2. End(e820[i]) \in Nat
      BY <3>1 DEF MapEntry, End
    <3>. QED BY <2>2, <2>3, <3>1, <3>2
  <2>6. ASSUME n < m PROVE FALSE
    <3>1. (n + 2) * s <= (m + 1) * s
      BY <2>2, <2>6, LessByFactor
    <3>2. (n + 2) * s = n * s + 2 * s
      BY <2>2
    <3>. QED BY <2>1, <2>2, <2>3, <2>4, <2>5, <3>1, <3>2
  <2>. QED BY <2>6
<1>6. Cardinality(Clear) <= Cardinality(Allocatable) + 1
  <2>1. CASE Clear \subseteq Allocatable
    <3>1. Cardinality(Clear) <= Cardinality(Allocatable)
      BY <1>4, <2>1, FS_Subset
    <3>. QED BY <1>2, <1>4, <3>1
  <2>2. CASE ~(Clear \subseteq Allocatable)
    <3>1. PICK x : x \in Clear /\ x \notin Allocatable
      BY <2>2
    <3>2. Clear = Allocatable \cup {x}
      <4>1. SUFFICES ASSUME NEW n \in Clear, n \notin Allocatable PROVE n = x
        BY <1>3, <3>1
      <4>2. ~(n < x) /\ ~(x < n)
        BY <1>5, <3>1, <4>1
      <4>3. n \in Nat /\ x \in Nat
        BY <3>1, FreePage
      <4>. QED BY <4>2, <4>3
    <3>3. Cardinality(Allocatable \cup {x}) = Cardinality(Allocatable) + 1
      BY <1>4, <3>1, FS_AddElement
    <3>. QED BY <1>4, <3>2, <3>3
  <2>. QED BY <2>1, <2>2
<1>. QED BY <1>4, <1>6

\* BootsIntoPmm holds for every sound memory map with RAM above the low memory:
\* pmm_init ends in a state that Pmm may start from.
THEOREM PmmMayStart == Spec => []BootsIntoPmm
<1>1. ASSUME IInv, PInv, phase = "done", RamAbove
      PROVE  /\ 0 \in bitmap /\ PageSize <= highest_usable_address
             /\ highest_usable_address <= pmm_bitmap_size * BitsPerByte * PageSize
             /\ EstimateSound
  <2>1. Loop /\ Bits /\ Highest_usable /\ Counters /\ stage = "kernel"
    BY <1>1 DEF PInv, Running, Loop
  <2>2. PICK m \in Bit : m >= LowPages /\ Ram(m)
    BY <1>1 DEF RamAbove
  <2>3. m \in Nat /\ PageSize \in Nat \ {0, 1} /\ LowPages \in Nat \ {0} /\ BitsPerByte \in Nat
    BY PmmInitAssumption DEF Bit
  <2>4. m \in Clear /\ (m + 1) * PageSize <= highest_usable_address + 1
    BY <1>1, <2>2, <2>3, RamIsFree
  <2>5. 0 \in bitmap
    BY <1>1, <2>1, <2>3 DEF Bits
  <2>6. highest_usable_address \in Nat /\ highest_usable_address <= LastEnd /\ LastEnd \in Nat
    <3>1. LastEnd \in Nat
      BY <1>1, <2>1, MapFound DEF Found_map
    <3>. QED BY <2>1, <3>1 DEF Highest_usable
  <2>7. PageSize <= highest_usable_address
    <3>1. (m + 1) * PageSize = m * PageSize + PageSize /\ 1 * PageSize <= m * PageSize
      BY <2>2, <2>3, LessByFactor
    <3>2. m * PageSize \in Nat
      BY <2>3
    <3>. QED BY <2>3, <2>4, <2>6, <3>1, <3>2
  <2>8. highest_usable_address <= pmm_bitmap_size * BitsPerByte * PageSize
    <3>1. PICK w : w = pmm_bitmap_size * BitsPerByte
      OBVIOUS
    <3>2. Top \in Nat /\ LastEnd <= Top * PageSize /\ Top <= w /\ BitmapBytes \in Nat
      <4>1. pmm_bitmap_size = BitmapBytes
        BY <2>1 DEF Loop
      <4>. QED BY <1>1, <2>1, <3>1, <4>1, TopBounds
    <3>3. w \in Nat
      BY <2>1, <2>3, <3>1, <3>2 DEF Loop
    <3>4. Top * PageSize <= w * PageSize
      BY <2>3, <3>2, <3>3, LessByFactor
    <3>5. Top * PageSize \in Nat /\ w * PageSize \in Nat
      BY <2>3, <3>2, <3>3
    <3>. QED BY <2>6, <3>1, <3>2, <3>4, <3>5
  <2>9. EstimateSound
    <3>1. PICK c, a : c = Cardinality(Clear) /\ a = Cardinality(Allocatable)
      OBVIOUS
    <3>2. a \in Nat /\ c \in Nat /\ c <= a + 1
      BY <1>1, <2>1, <3>1, OneOutOfReach, BitmapReach
    <3>3. c # 0
      <4>1. IsFiniteSet(Clear)
        BY <1>1, <2>1, BitmapReach
      <4>. QED BY <2>4, <3>1, <4>1, FS_EmptySet
    <3>4. PICK d \in {0, 1} : total_pages - used_pages = c - d
      BY <1>1, <2>1, <3>1 DEF Counters, Counted
    <3>5. total_pages - used_pages \in 0..(a + 1)
      BY <3>2, <3>3, <3>4
    <3>. QED BY <3>1, <3>5 DEF EstimateSound
  <2>. QED BY <2>5, <2>7, <2>8, <2>9
<1>2. IInv /\ PInv => BootsIntoPmm
  BY <1>1 DEF BootsIntoPmm, RamAbove
<1>. QED BY <1>2, PmmInitInductive, PTL

=============================================================================
