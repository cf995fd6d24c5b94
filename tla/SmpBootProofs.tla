--------------------------- MODULE SmpBootProofs ---------------------------
(***************************************************************************)
(* Proofs about SmpBoot, and about Acpi and Apic under it, for all tables  *)
(* of the firmware, all sets of processors and every timeout.              *)
(***************************************************************************)
EXTENDS SmpBoot, SequenceTheorems, FiniteSetTheorems, WellFoundedInduction, TLAPS

-----------------------------------------------------------------------------
(* The inductive invariant.                                                *)

\* The phases of kmain: while the tables are looked up, and when apic_init has
\* gone through the MADT.
Early == {"acpi", "tables", "apic"}
Late == {"ioapic", "timer_install", "timer_program", "timer_unmask", "sci_install",
         "sci_program", "sci_unmask", "ready", "faulted"}

List == TablesOf(rsdp)

\* What init_fadt leaves for a FADT.
Loaded(t) ==
    /\ acpi_instance.fadt = t
    /\ acpi_instance.dsdt = IF t.revision >= 2 /\ t.x_dsdt # 0 THEN t.x_dsdt ELSE t.dsdt

IsInstance == \E x, f, d : acpi_instance = [xsdt |-> x, fadt |-> f, dsdt |-> d]

\* show_tables has loaded the FADT if it has come past it, from the list that
\* the firmware means.
Firmware ==
    /\ rsdp \in Rsdps
    /\ phase \in Early \cup Late \cup {"madt", "hung", "no_madt"}
    /\ IsInstance
    /\ phase # "acpi" => Root = List
    /\ shown \in 0..Len(List)
    /\ phase = "acpi" => shown = 0
    /\ phase \notin {"acpi", "tables"} => shown = Len(List)
    /\ \A i \in 1..shown : List[i].signature = "FACP" => Loaded(List[i])
    /\ phase = "faulted" => acpi_instance.fadt = NoTable

\* A usable processor in the entries of a MADT; the ones behind the first
\* among n entries, and up to one that ends the table; the ones that apic_init
\* has stored.
IsCpu(es, i) == es[i].type = "cpu" /\ es[i].enabled
Found(es, n) ==
    {es[i].apic_id : i \in {i \in 1..n : IsCpu(es, i) /\ \E j \in 1..(i - 1) : IsCpu(es, j)}}
Listed(es) ==
    {es[i].apic_id : i \in {i \in 1..Len(es) : /\ IsCpu(es, i)
                                               /\ \E j \in 1..(i - 1) : IsCpu(es, j)
                                               /\ \A j \in 1..i : es[j].length > 2}}
Stored == {cpus[k] : k \in 2..Len(cpus)}

\* The loop of apic_init stores the processors it has found.
Processors ==
    /\ cpus \in Seq(ApicIds)
    /\ madt # NoTable => madt \in Offered("APIC")
    /\ phase \in Late \cup {"madt"} => madt \in Offered("APIC")
    /\ phase = "no_madt" => Offered("APIC") = {}
    /\ next \in Nat \ {0}
    /\ phase \in Early => next = 1 /\ cpus = <<>>
    /\ phase = "madt" =>
          /\ next - 1 <= Len(madt.entries)
          /\ \A i \in 1..(next - 1) : madt.entries[i].length > 2
          /\ cpus = <<>> <=> \A i \in 1..(next - 1) : ~IsCpu(madt.entries, i)
          /\ Stored = Found(madt.entries, next - 1)
    /\ phase \in Late => Len(cpus) >= 1 /\ Stored = Listed(madt.entries)

\* Where smp_boot_ap is at work on Target; from the start-up message on, Target
\* may be running.
AtWork == {"init_sleep", "init_wait", "sipi", "sipi_sleep", "booted_wait"}
Sent == {"sipi_sleep", "booted_wait"}

ApStates == {"reset", "waiting", "trampoline", "alloc", "configure", "clear_idt",
             "fill_idt", "answer", "halted", "hung"}

\* smp_boot deals with one processor at a time: only the target may be
\* starting, and then cpu_booted is still clear. All before it have answered.
Startup ==
    /\ bsp \in AtWork \cup {"kmain", "init", "unmap", "done", "hung"}
    /\ bsp # "kmain" => phase = "ready"
    /\ bsp = "kmain" => current_cpu = 0
    /\ ap \in [ApicIds -> ApStates]
    /\ \A c \in ApicIds : ap[c] # "reset" => bsp # "kmain" /\ c \in Stored
    /\ bsp \in AtWork \cup {"init", "hung"} => low /\ current_cpu \in 1..(Len(cpus) - 1)
    /\ bsp = "unmap" => current_cpu = Len(cpus)
    /\ bsp = "done" => current_cpu = Len(cpus) \/ Len(cpus) = 1
    /\ bsp \in AtWork \ Sent => ~cpu_booted
    /\ \A c \in ApicIds : Starting(c) => bsp \in Sent \cup {"hung"} /\ c = Target /\ ~cpu_booted
    /\ bsp \in Sent /\ cpu_booted => ap[Target] = "halted"
    /\ bsp \in {"init", "unmap", "done"} =>
          \A k \in 2..current_cpu : ap[cpus[k]] = "halted"
    /\ bsp \in AtWork =>
          \A k \in 2..current_cpu : cpus[k] = Target \/ ap[cpus[k]] = "halted"

IInv == Firmware /\ Processors /\ Startup

-----------------------------------------------------------------------------
(* Tables and the MADT.                                                    *)

\* The boot starts in a state in which the inductive invariant holds.
LEMMA InitIInv == Init => IInv
<1>. SUFFICES ASSUME Init PROVE IInv
  OBVIOUS
<1>1. Firmware
  <2>1. IsInstance
    BY DEF Init, ApicInit, AcpiInit, IsInstance
  <2>. QED BY <2>1, AcpiAssumption DEF Init, ApicInit, AcpiInit, Firmware, Early, List
<1>2. Processors
  BY DEF Init, ApicInit, AcpiInit, Processors, Early, Late
<1>3. Startup
  BY DEF Init, ApicInit, AcpiInit, Startup, AtWork, Sent, ApStates, Starting
<1>. QED BY <1>1, <1>2, <1>3 DEF IInv

\* Until kmain calls smp_boot, the other processors have not been touched.
LEMMA KmainStep ==
    ASSUME IInv, phase # "ready", UNCHANGED smpVars
    PROVE  Startup'
<1>1. /\ bsp = "kmain" /\ \A c \in ApicIds : ap[c] = "reset"
      /\ UNCHANGED <<bsp, ap, current_cpu, cpu_booted, low>>
  BY DEF IInv, Startup, smpVars
<1>. QED BY <1>1 DEF IInv, Startup, AtWork, Sent, ApStates, Starting

\* acpi_init and show_tables, one table at a time.
LEMMA AcpiIInv ==
    ASSUME IInv, AcpiNext, UNCHANGED smpVars,
           UNCHANGED <<madt, next, cpus, ioapics, overrides, pins, idt, line>>
    PROVE  IInv'
<1>1. /\ rsdp' = rsdp /\ phase \in {"acpi", "tables"} /\ phase' \in {"tables", "apic"}
      /\ Len(List) \in Nat /\ List' = List
  BY AcpiAssumption DEF AcpiNext, AcpiStart, ShowTable, ShowEnd, acpiVars, List, IInv,
     Firmware
<1>2. Startup'
  BY <1>1, KmainStep
<1>3. Processors'
  BY <1>1 DEF IInv, Processors, Early, Late, Offered
<1>4. ASSUME AcpiStart PROVE Firmware'
  <2>1. PICK x, f, d : acpi_instance = [xsdt |-> x, fadt |-> f, dsdt |-> d]
    BY DEF IInv, Firmware, IsInstance
  <2>2. acpi_instance' = [xsdt |-> rsdp.revision # 0, fadt |-> f, dsdt |-> d]
    BY <1>4, <2>1 DEF AcpiStart
  <2>3. Root' = List
    BY <1>1, <2>2 DEF Root, List, TablesOf
  <2>4. shown' = 0 /\ phase' = "tables"
    BY <1>4 DEF AcpiStart, IInv, Firmware
  <2>5. IsInstance'
    BY <2>2 DEF IsInstance
  <2>. QED BY <1>1, <2>3, <2>4, <2>5 DEF IInv, Firmware, Early
<1>5. ASSUME ShowEnd PROVE Firmware'
  BY <1>1, <1>5 DEF ShowEnd, acpiVars, IInv, Firmware, IsInstance, Early, Root, Loaded
<1>6. ASSUME ShowTable PROVE Firmware'
  <2>1. /\ shown \in Nat /\ shown < Len(List) /\ shown' = shown + 1 /\ Root = List
        /\ phase = "tables" /\ phase' = "tables"
    BY <1>1, <1>6 DEF ShowTable, IInv, Firmware
  <2>2. CASE List[shown + 1].signature = "FACP"
    <3>1. \A i \in 1..shown : List[i].signature # "FACP"
      BY <1>1, <2>1, <2>2, AcpiAssumption DEF IInv, Firmware, List
    <3>2. PICK t : t = List[shown + 1]
      OBVIOUS
    <3>3. PICK x, f, d : acpi_instance = [xsdt |-> x, fadt |-> f, dsdt |-> d]
      BY DEF IInv, Firmware, IsInstance
    <3>4. acpi_instance' = [xsdt |-> x, fadt |-> t,
                            dsdt |-> IF t.revision >= 2 /\ t.x_dsdt # 0 THEN t.x_dsdt
                                     ELSE t.dsdt]
      BY <1>6, <2>1, <2>2, <3>2, <3>3 DEF ShowTable, init_fadt
    <3>5. \A i \in 1..(shown + 1) : List[i].signature = "FACP" => List[i] = t
      BY <2>1, <3>1, <3>2
    <3>6. Loaded(t)'
      BY <3>4 DEF Loaded
    <3>7. Root' = List
      BY <1>1, <2>1, <3>3, <3>4 DEF Root
    <3>8. IsInstance'
      BY <3>4 DEF IsInstance
    <3>. QED BY <1>1, <2>1, <3>5, <3>6, <3>7, <3>8 DEF IInv, Firmware, Early
  <2>3. CASE List[shown + 1].signature # "FACP"
    <3>1. acpi_instance' = acpi_instance
      BY <1>6, <2>1, <2>3 DEF ShowTable
    <3>2. Root' = List
      BY <1>1, <2>1, <3>1 DEF Root
    <3>3. IsInstance'
      BY <3>1 DEF IInv, Firmware, IsInstance
    <3>. QED BY <1>1, <2>1, <2>3, <3>1, <3>2, <3>3 DEF IInv, Firmware, Early, Loaded
  <2>. QED BY <2>2, <2>3
<1>7. Firmware'
  BY <1>4, <1>5, <1>6 DEF AcpiNext
<1>. QED BY <1>2, <1>3, <1>7 DEF IInv

\* A table that the firmware offers is at one place of its list, and the entries of
\* a MADT name processors of the machine.
LEMMA MadtIsKnown ==
    ASSUME rsdp \in Rsdps
    PROVE  /\ \A t, u \in Offered("APIC") : t = u
           /\ \A t \in Offered("APIC") :
                 /\ t # NoTable
                 /\ Len(t.entries) \in Nat
                 /\ \A n \in 1..Len(t.entries) :
                       t.entries[n].type = "cpu" => t.entries[n].apic_id \in ApicIds
<1>1. \A t, u \in Offered("APIC") : t = u
  BY AcpiAssumption DEF Offered
<1>2. \A t \in Offered("APIC") : t # NoTable
  BY DEF Offered, NoTable
<1>3. \A t \in Offered("APIC") :
         /\ Len(t.entries) \in Nat
         /\ \A n \in 1..Len(t.entries) :
               t.entries[n].type = "cpu" => t.entries[n].apic_id \in ApicIds
  BY SmpAssumption DEF Offered
<1>. QED BY <1>1, <1>2, <1>3

\* acpi_find_table comes to the MADT of the list: no other one is before it.
LEMMA OnlyPlace ==
    ASSUME rsdp \in Rsdps, NEW i \in 1..Len(TablesOf(rsdp)),
           TablesOf(rsdp)[i].signature = "APIC"
    PROVE  i \in Place(TablesOf(rsdp), "APIC", 0)
<1>1. PICK hits : hits = {k \in 1..Len(TablesOf(rsdp)) :
                            TablesOf(rsdp)[k].signature = "APIC"}
  OBVIOUS
<1>2. \A k \in hits : k = i
  BY <1>1, AcpiAssumption
<1>3. {k \in hits : k < i} = {}
  BY <1>2
<1>4. Cardinality({k \in hits : k < i}) = 0
  BY <1>3, FS_EmptySet
<1>. QED BY <1>1, <1>4 DEF Place

\* apic_init up to the loop.
LEMMA FindMadtIInv ==
    ASSUME IInv, FindMadt \/ NoArrays, UNCHANGED smpVars
    PROVE  IInv'
<1>1. /\ phase = "apic" /\ phase' \in {"madt", "hung", "no_madt"}
      /\ UNCHANGED <<rsdp, acpi_instance, shown, next, cpus>>
  BY DEF FindMadt, NoArrays, acpiVars
<1>2. Startup'
  BY <1>1, KmainStep
<1>3. Firmware'
  BY <1>1 DEF IInv, Firmware, Early, Late, List, Root, Loaded, IsInstance
<1>4. CASE NoArrays
  BY <1>1, <1>2, <1>3, <1>4 DEF NoArrays, IInv, Processors, Early, Late, Offered, NoTable
<1>5. CASE FindMadt /\ madt' = NoTable
  <2>1. Root = List /\ rsdp \in Rsdps /\ Offered("APIC")' = Offered("APIC")
    BY <1>1 DEF IInv, Firmware, Offered
  <2>2. \A i \in 1..Len(Root) : Root[i].signature = "APIC" => i \in Place(Root, "APIC", 0)
    BY <2>1, OnlyPlace DEF List
  <2>3. Place(Root, "APIC", 0) # {} => \E i \in 1..Len(Root) :
                                          Root[i].signature = "APIC" /\ madt' = Root[i]
    BY <1>5 DEF FindMadt, acpi_find_table, Place
  <2>4. Place(Root, "APIC", 0) = {}
    BY <1>5, <2>3 DEF NoTable
  <2>5. Offered("APIC") = {}
    BY <2>1, <2>2, <2>4 DEF Offered, List
  <2>. QED
    BY <1>1, <1>2, <1>3, <1>5, <2>1, <2>5 DEF FindMadt, IInv, Processors, Early, Late, NoTable
<1>6. CASE FindMadt /\ madt' # NoTable
  <2>1. Root = List /\ rsdp \in Rsdps
    BY <1>1 DEF IInv, Firmware
  <2>2. PICK place : place = Place(Root, "APIC", 0)
    OBVIOUS
  <2>3. place # {} /\ madt' = Root[CHOOSE i \in place : TRUE]
    BY <1>6, <2>2 DEF FindMadt, acpi_find_table
  <2>4. PICK i : i \in place /\ madt' = Root[i]
    BY <2>3
  <2>5. i \in 1..Len(Root) /\ Root[i].signature = "APIC"
    BY <2>2, <2>4 DEF Place
  <2>6. madt' \in Offered("APIC") /\ Offered("APIC")' = Offered("APIC")
    BY <1>1, <2>1, <2>4, <2>5 DEF Offered, List
  <2>7. Len(madt'.entries) \in Nat /\ phase' = "madt"
    BY <1>6, <2>1, <2>6, MadtIsKnown DEF FindMadt
  <2>8. next' = 1 /\ cpus' = <<>>
    BY <1>1 DEF IInv, Processors, Early
  <2>9. Stored' = {} /\ Found(madt.entries, 0)' = {}
    BY <2>8 DEF Stored, Found
  <2>. QED
    BY <1>2, <1>3, <2>6, <2>7, <2>8, <2>9 DEF IInv, Processors, Early, Late
<1>. QED BY <1>2, <1>3, <1>4, <1>5, <1>6 DEF IInv

\* What another entry of the MADT adds to the processors found.
LEMMA FoundMore ==
    ASSUME NEW es, NEW n \in Nat
    PROVE  Found(es, n + 1) = IF IsCpu(es, n + 1) /\ \E j \in 1..n : IsCpu(es, j)
                              THEN Found(es, n) \cup {es[n + 1].apic_id}
                              ELSE Found(es, n)
<1>1. 1..(n + 1) = 1..n \cup {n + 1} /\ (n + 1) - 1 = n
  OBVIOUS
<1>. QED BY <1>1 DEF Found

\* The loop of apic_init, one entry.
LEMMA ParseEntryIInv ==
    ASSUME IInv, ParseEntry, UNCHANGED smpVars
    PROVE  IInv'
<1>1. /\ phase = "madt" /\ phase' = "madt" /\ More /\ next' = next + 1
      /\ UNCHANGED <<rsdp, acpi_instance, shown, madt>>
  BY DEF ParseEntry, acpiVars
<1>2. Startup'
  BY <1>1, KmainStep
<1>3. Firmware'
  BY <1>1 DEF IInv, Firmware, Early, Late, List, Root, Loaded, IsInstance
<1>4. /\ madt \in Offered("APIC") /\ rsdp \in Rsdps /\ next \in Nat \ {0}
      /\ Len(madt.entries) \in Nat /\ next <= Len(madt.entries)
      /\ madt.entries[next].length > 2 /\ cpus \in Seq(ApicIds)
      /\ Offered("APIC")' = Offered("APIC")
  <2>1. madt \in Offered("APIC") /\ rsdp \in Rsdps /\ next \in Nat \ {0} /\ cpus \in Seq(ApicIds)
    BY <1>1 DEF IInv, Firmware, Processors
  <2>. QED BY <1>1, <2>1, MadtIsKnown DEF More, Entry, Offered
<1>5. /\ \A i \in 1..(next - 1) : madt.entries[i].length > 2
      /\ cpus = <<>> <=> \A i \in 1..(next - 1) : ~IsCpu(madt.entries, i)
      /\ Stored = Found(madt.entries, next - 1)
  BY <1>1 DEF IInv, Processors
<1>6. /\ next' - 1 = next /\ next - 1 \in Nat /\ next' \in Nat \ {0}
      /\ 1..next = 1..(next - 1) \cup {next} /\ (next - 1) + 1 = next
  BY <1>1, <1>4
<1>8. CASE IsCpu(madt.entries, next)
  <2>1. cpus' = Append(cpus, madt.entries[next].apic_id)
    BY <1>8 DEF ParseEntry, Entry, create_cpu, IsCpu
  <2>2. PICK a \in ApicIds : a = madt.entries[next].apic_id
    BY <1>4, <1>8, MadtIsKnown DEF IsCpu
  <2>3. cpus' \in Seq(ApicIds) /\ cpus' # <<>> /\ Len(cpus') = Len(cpus) + 1
        /\ Len(cpus) \in Nat
        /\ \A k \in 1..(Len(cpus) + 1) : cpus'[k] = IF k = Len(cpus) + 1 THEN a ELSE cpus[k]
    BY <1>4, <2>1, <2>2
  <2>4. cpus = <<>> <=> Len(cpus) = 0
    BY <1>4
  <2>5. Stored' = IF cpus = <<>> THEN {} ELSE Stored \cup {a}
    <3>1. CASE cpus = <<>>
      BY <2>3, <2>4, <3>1 DEF Stored
    <3>2. CASE cpus # <<>>
      <4>1. 2..(Len(cpus) + 1) = 2..Len(cpus) \cup {Len(cpus) + 1}
        BY <2>3, <2>4, <3>2
      <4>. QED BY <2>3, <2>4, <3>2, <4>1 DEF Stored
    <3>. QED BY <3>1, <3>2
  <2>6. Found(madt.entries, next) = IF cpus = <<>> THEN Found(madt.entries, next - 1)
                                    ELSE Found(madt.entries, next - 1) \cup {a}
    BY <1>5, <1>6, <1>8, <2>2, FoundMore
  <2>7. cpus = <<>> => Found(madt.entries, next - 1) = {}
    BY <1>5 DEF Found
  <2>8. Stored' = Found(madt.entries, next)
    BY <1>5, <2>5, <2>6, <2>7
  <2>9. ~ \A i \in 1..next : ~IsCpu(madt.entries, i)
    BY <1>6, <1>8
  <2>. QED
    BY <1>1, <1>2, <1>3, <1>4, <1>5, <1>6, <2>3, <2>8, <2>9
    DEF IInv, Processors, Early, Late, NoTable
<1>9. CASE ~IsCpu(madt.entries, next)
  <2>1. cpus' = cpus
    BY <1>9 DEF ParseEntry, Entry, create_cpu, IsCpu
  <2>2. Found(madt.entries, next) = Found(madt.entries, next - 1)
    BY <1>6, <1>9, FoundMore
  <2>3. Stored' = Found(madt.entries, next)
    BY <1>5, <2>1, <2>2 DEF Stored
  <2>. QED
    BY <1>1, <1>2, <1>3, <1>4, <1>5, <1>6, <1>9, <2>1, <2>3
    DEF IInv, Processors, Early, Late, NoTable
<1>. QED BY <1>8, <1>9

\* The end of the loop: what has been stored is what the firmware means.
LEMMA ParseEndIInv ==
    ASSUME IInv, ParseEnd, UNCHANGED smpVars
    PROVE  IInv'
<1>1. /\ phase = "madt" /\ phase' \in {"ioapic", "hung"} /\ ~More /\ next' \in {1, next}
      /\ UNCHANGED <<rsdp, acpi_instance, shown, madt, cpus>>
      /\ phase' = "ioapic" => cpus # <<>>
  BY DEF ParseEnd, acpiVars
<1>2. Startup'
  BY <1>1, KmainStep
<1>3. Firmware'
  BY <1>1 DEF IInv, Firmware, Early, Late, List, Root, Loaded, IsInstance
<1>4. /\ madt \in Offered("APIC") /\ rsdp \in Rsdps /\ next \in Nat \ {0}
      /\ Len(madt.entries) \in Nat /\ next - 1 <= Len(madt.entries)
      /\ cpus \in Seq(ApicIds) /\ Offered("APIC")' = Offered("APIC")
      /\ \A i \in 1..(next - 1) : madt.entries[i].length > 2
      /\ Stored = Found(madt.entries, next - 1)
  <2>1. madt \in Offered("APIC") /\ rsdp \in Rsdps /\ next \in Nat \ {0} /\ cpus \in Seq(ApicIds)
    BY <1>1 DEF IInv, Firmware, Processors
  <2>. QED BY <1>1, <2>1, MadtIsKnown DEF IInv, Processors, Offered
<1>6. Listed(madt.entries) = Found(madt.entries, next - 1)
  <2>1. \A i \in 1..Len(madt.entries) :
           (\A j \in 1..i : madt.entries[j].length > 2) <=> i \in 1..(next - 1)
    BY <1>1, <1>4 DEF More, Entry
  <2>2. \A i \in 1..(next - 1) : i \in 1..Len(madt.entries)
    BY <1>4
  <2>3. ASSUME NEW i
        PROVE  i \in 1..(next - 1) /\ IsCpu(madt.entries, i)
                  /\ (\E j \in 1..(i - 1) : IsCpu(madt.entries, j))
               <=> i \in 1..Len(madt.entries) /\ IsCpu(madt.entries, i)
                     /\ (\E j \in 1..(i - 1) : IsCpu(madt.entries, j))
                     /\ (\A j \in 1..i : madt.entries[j].length > 2)
    BY <2>1, <2>2, Zenon
  <2>. QED BY <2>3, Zenon DEF Listed, Found
<1>7. Listed(madt.entries)' = Listed(madt.entries) /\ Stored' = Stored
  BY <1>1 DEF Stored
<1>8. Len(cpus) \in Nat /\ (cpus # <<>> => Len(cpus) >= 1)
  BY <1>4
<1>9. Processors'
  <2>1. madt' = madt /\ cpus' = cpus /\ phase' \in {"ioapic", "hung"} /\ next' \in Nat \ {0}
    BY <1>1, <1>4
  <2>. QED BY <1>1, <1>4, <1>6, <1>7, <1>8, <2>1 DEF Processors, Early, Late, NoTable
<1>. QED BY <1>2, <1>3, <1>9 DEF IInv

\* ioapic_init, irq_configure and irq_unmask leave tables and processors alone.
LEMMA RoutingIInv ==
    ASSUME IInv, UNCHANGED smpVars, phase # "ready", phase \in Late, phase' \in Late,
           phase' = "faulted" => acpi_instance.fadt = NoTable,
           UNCHANGED <<rsdp, acpi_instance, shown, madt, cpus>>, next' \in {next, next + 1}
    PROVE  IInv'
<1>1. Startup'
  BY KmainStep
<1>2. Firmware'
  BY DEF IInv, Firmware, Early, Late, List, Root, Loaded, IsInstance
<1>3. /\ Processors /\ phase # "madt" /\ phase' \notin {"madt", "no_madt"}
      /\ phase \notin Early /\ phase' \notin Early
  BY DEF IInv, Early, Late
<1>4. Offered("APIC")' = Offered("APIC") /\ Stored' = Stored /\ NoTable' = NoTable
      /\ Early' = Early /\ Late' = Late
  BY DEF Offered, Stored, NoTable, Early, Late
<1>5. Processors'
  <2>1. next' \in Nat \ {0} /\ Len(cpus') = Len(cpus) /\ phase \in Late /\ phase' \in Late
    BY <1>3 DEF Processors
  <2>2. /\ cpus' \in Seq(ApicIds) /\ madt' \in Offered("APIC")'
        /\ Len(cpus') >= 1 /\ Stored' = Listed(madt.entries)'
    BY <1>3, <1>4, <2>1 DEF Processors
  <2>. QED BY <1>3, <1>4, <2>1, <2>2 DEF Processors
<1>. QED BY <1>1, <1>2, <1>5 DEF IInv

\* Every step of kmain before smp_boot.
LEMMA ApicIInv ==
    ASSUME IInv, ApicNext, UNCHANGED smpVars
    PROVE  IInv'
<1>. USE DEF Late, acpiVars
<1>1. CASE AcpiNext /\ UNCHANGED <<madt, next, cpus, ioapics, overrides, pins, idt, line>>
  BY <1>1, AcpiIInv
<1>2. CASE FindMadt \/ NoArrays
  BY <1>2, FindMadtIInv
<1>3. CASE ParseEntry
  BY <1>3, ParseEntryIInv
<1>4. CASE ParseEnd
  BY <1>4, ParseEndIInv
<1>5. CASE IoapicInit
  BY <1>5, RoutingIInv DEF IoapicInit
<1>6. CASE Install("timer", "timer_install", "timer_program", "timer_unmask")
  BY <1>6, RoutingIInv DEF Install
<1>7. CASE Program("timer", "timer_program", "timer_unmask")
  BY <1>7, RoutingIInv DEF Program
<1>8. CASE Unmask("timer", "timer_unmask", "sci_install")
  BY <1>8, RoutingIInv DEF Unmask
<1>9. CASE NoFadt
  BY <1>9, RoutingIInv DEF NoFadt
<1>10. CASE Install("sci", "sci_install", "sci_program", "sci_unmask")
  BY <1>10, RoutingIInv DEF Install
<1>11. CASE Program("sci", "sci_program", "sci_unmask")
  BY <1>11, RoutingIInv DEF Program
<1>12. CASE Unmask("sci", "sci_unmask", "ready")
  BY <1>12, RoutingIInv DEF Unmask
<1>. QED
  BY <1>1, <1>2, <1>3, <1>4, <1>5, <1>6, <1>7, <1>8, <1>9, <1>10, <1>11, <1>12 DEF ApicNext

-----------------------------------------------------------------------------
(* smp_boot and the processors it starts.                                  *)

\* Processors that are being started touch neither the tables nor what is known of the
\* processors.
LEMMA SameFirmware ==
    ASSUME IInv, UNCHANGED <<rsdp, acpi_instance, shown, phase, madt, next, cpus>>
    PROVE  Firmware' /\ Processors'
<1>1. Firmware'
  BY DEF IInv, Firmware, Early, Late, List, Root, Loaded, IsInstance
<1>2. Offered("APIC")' = Offered("APIC") /\ Stored' = Stored /\ NoTable' = NoTable
      /\ Early' = Early /\ Late' = Late
  BY DEF Offered, Stored, NoTable, Early, Late
<1>3. Processors'
  BY <1>2 DEF IInv, Processors
<1>. QED BY <1>1, <1>3

\* While smp_boot is at work, the processor it is at is one of the stored ones.
LEMMA TargetStored ==
    ASSUME IInv, bsp \in AtWork \cup {"init", "hung"}
    PROVE  /\ Len(cpus) \in Nat /\ current_cpu \in Nat \ {0} /\ current_cpu < Len(cpus)
           /\ Target \in Stored /\ Target \in ApicIds
<1>1. cpus \in Seq(ApicIds) /\ current_cpu \in 1..(Len(cpus) - 1)
  BY DEF IInv, Processors, Startup
<1>2. Len(cpus) \in Nat /\ current_cpu + 1 \in 2..Len(cpus)
  BY <1>1
<1>. QED BY <1>1, <1>2 DEF Target, Stored

\* A step of the boot processor in smp_boot.
LEMMA BspIInv ==
    ASSUME IInv,
           Prepare \/ SendInit \/ Sleep \/ InitDelivered \/ SendSipi \/ Wait \/ Answered
              \/ UnmapLow
    PROVE  IInv'
<1>1. UNCHANGED <<rsdp, acpi_instance, shown, phase, madt, next, cpus>>
  BY DEF Prepare, SendInit, Sleep, InitDelivered, SendSipi, Wait, Answered, UnmapLow,
         apicVars, acpiVars
<1>2. Firmware' /\ Processors'
  BY <1>1, SameFirmware
<1>3. Stored' = Stored /\ Len(cpus) \in Nat
  BY <1>1 DEF Stored, IInv, Processors
<1>4. CASE Prepare
  <2>1. \A c \in ApicIds : ap[c] = "reset"
    BY <1>4 DEF Prepare, IInv, Startup
  <2>2. Len(cpus) >= 1
    BY <1>4 DEF Prepare, IInv, Processors, Late
  <2>3. /\ bsp = "kmain" /\ current_cpu = 0 /\ phase = "ready" /\ UNCHANGED <<ap, cpu_booted>>
        /\ ap \in [ApicIds -> ApStates]
    BY <1>4 DEF Prepare, IInv, Startup
  <2>4. CASE Len(cpus) = 1
    <3>1. bsp' = "done" /\ UNCHANGED <<low, current_cpu>>
      BY <1>4, <2>4 DEF Prepare
    <3>2. Startup'
      BY <1>1, <1>3, <2>1, <2>3, <2>4, <3>1 DEF Startup, Starting, AtWork, Sent, ApStates
    <3>. QED BY <1>2, <3>2 DEF IInv
  <2>5. CASE Len(cpus) # 1
    <3>1. bsp' = "init" /\ low' = TRUE /\ current_cpu' = 1
      BY <1>4, <2>5 DEF Prepare
    <3>2. current_cpu' \in 1..(Len(cpus) - 1)
      <4>1. PICK n \in Nat : n = Len(cpus)
        BY <1>3
      <4>2. 1 \in 1..(n - 1)
        BY <2>2, <2>5, <4>1
      <4>. QED BY <3>1, <4>1, <4>2
    <3>3. Startup'
      BY <1>1, <1>3, <2>1, <2>3, <3>1, <3>2 DEF Startup, Starting, AtWork, Sent, ApStates
    <3>. QED BY <1>2, <3>3 DEF IInv
  <2>. QED BY <2>4, <2>5
<1>5. CASE SendInit
  <2>1. Startup'
    BY <1>1, <1>3, <1>5 DEF SendInit, At, IInv, Startup, Starting, AtWork, Sent, ApStates, Target
  <2>. QED BY <1>2, <2>1 DEF IInv
<1>6. CASE Sleep
  <2>1. Startup'
    BY <1>1, <1>3, <1>6 DEF Sleep, At, IInv, Startup, Starting, AtWork, Sent, ApStates, Target
  <2>. QED BY <1>2, <2>1 DEF IInv
<1>7. CASE InitDelivered
  <2>1. Startup'
    BY <1>1, <1>3, <1>7, TargetStored
    DEF InitDelivered, At, IInv, Startup, Starting, AtWork, Sent, ApStates, Target
  <2>. QED BY <1>2, <2>1 DEF IInv
<1>8. CASE SendSipi
  <2>1. Startup'
    BY <1>1, <1>3, <1>8, TargetStored
    DEF SendSipi, At, IInv, Startup, Starting, AtWork, Sent, ApStates, Target
  <2>. QED BY <1>2, <2>1 DEF IInv
<1>9. CASE Wait
  <2>1. Startup'
    BY <1>1, <1>3, <1>9
    DEF Wait, Waiting, IInv, Startup, Starting, AtWork, Sent, ApStates, Target
  <2>. QED BY <1>2, <2>1 DEF IInv
<1>10. CASE Answered
  <2>1. /\ current_cpu \in Nat \ {0} /\ current_cpu < Len(cpus) /\ ap[Target] = "halted"
        /\ bsp = "booted_wait" /\ cpu_booted /\ current_cpu' = current_cpu + 1
        /\ bsp' = IF current_cpu + 1 < Len(cpus) THEN "init" ELSE "unmap"
        /\ UNCHANGED <<cpu_booted, low, ap>>
    BY <1>10, TargetStored DEF Answered, Another, IInv, Startup, AtWork, Sent
  <2>2. \A k \in 2..(current_cpu + 1) : ap[cpus[k]] = "halted"
    BY <2>1 DEF IInv, Startup, AtWork, Target
  <2>3. \A c \in ApicIds : ~Starting(c)
    BY <2>1 DEF IInv, Startup
  <2>4. Startup'
    BY <1>1, <1>3, <2>1, <2>2, <2>3 DEF IInv, Startup, Starting, AtWork, Sent, ApStates
  <2>. QED BY <1>2, <2>4 DEF IInv
<1>11. CASE UnmapLow
  <2>1. Startup'
    BY <1>1, <1>3, <1>11
    DEF UnmapLow, At, IInv, Startup, Starting, AtWork, Sent, ApStates, Target
  <2>. QED BY <1>2, <2>1 DEF IInv
<1>. QED BY <1>4, <1>5, <1>6, <1>7, <1>8, <1>9, <1>10, <1>11

\* A processor that is starting goes on, or answers.
LEMMA ApIInv ==
    ASSUME IInv, NEW c \in ApicIds, ApStep(c)
    PROVE  IInv'
<1>1. UNCHANGED <<rsdp, acpi_instance, shown, phase, madt, next, cpus, bsp, current_cpu, low>>
  BY DEF ApStep, Trampoline, AllocStack, Configure, GdtFails, ClearIdt, FillIdt, Answer,
         apicVars, acpiVars
<1>2. Firmware' /\ Processors'
  BY <1>1, SameFirmware
<1>3. Stored' = Stored
  BY <1>1 DEF Stored
<1>4. Starting(c)
  BY DEF ApStep, Trampoline, AllocStack, Configure, GdtFails, ClearIdt, FillIdt, Answer,
         ApAt, Starting
<1>5. bsp \in Sent \cup {"hung"} /\ c = Target /\ ~cpu_booted /\ ap \in [ApicIds -> ApStates]
  BY <1>4 DEF IInv, Startup
<1>6. CASE Answer(c)
  <2>1. ap' = [ap EXCEPT ![c] = "halted"] /\ cpu_booted'
    BY <1>6 DEF Answer, ApAt
  <2>2. Startup'
    BY <1>1, <1>3, <1>4, <1>5, <2>1 DEF IInv, Startup, Starting, AtWork, Sent, ApStates, Target
  <2>. QED BY <1>2, <2>2 DEF IInv
<1>7. CASE ~Answer(c)
  <2>1. PICK s \in ApStates \ {"reset", "waiting", "halted"} :
           ap' = [ap EXCEPT ![c] = s] /\ cpu_booted' = cpu_booted
    BY <1>7 DEF ApStep, Trampoline, AllocStack, Configure, GdtFails, ClearIdt, FillIdt,
                ApAt, ApStates
  <2>2. Startup'
    BY <1>1, <1>3, <1>4, <1>5, <2>1 DEF IInv, Startup, Starting, AtWork, Sent, ApStates, Target
  <2>. QED BY <1>2, <2>2 DEF IInv
<1>. QED BY <1>6, <1>7

-----------------------------------------------------------------------------
(* The theorems.                                                           *)

\* Every state of the boot satisfies the inductive invariant.
THEOREM Inductive == Spec => []IInv
<1>1. ASSUME IInv, [Next]_vars PROVE IInv'
  <2>1. CASE ApicNext /\ UNCHANGED smpVars
    BY <1>1, <2>1, ApicIInv
  <2>2. CASE Prepare \/ SendInit \/ Sleep \/ InitDelivered \/ SendSipi \/ Wait \/ Answered
               \/ UnmapLow
    BY <1>1, <2>2, BspIInv
  <2>3. ASSUME NEW c \in ApicIds, ApStep(c) PROVE IInv'
    BY <1>1, <2>3, ApIInv
  <2>4. CASE UNCHANGED vars
    <3>1. /\ UNCHANGED <<rsdp, acpi_instance, shown, phase, madt, next, cpus>>
          /\ UNCHANGED <<bsp, current_cpu, cpu_booted, low, ap>>
      BY <2>4 DEF vars, apicVars, acpiVars, smpVars
    <3>2. Startup'
      BY <1>1, <3>1 DEF IInv, Startup, Stored, Starting, Target, AtWork, Sent, ApStates
    <3>. QED BY <1>1, <3>1, <3>2, SameFirmware DEF IInv
  <2>. QED BY <1>1, <2>1, <2>2, <2>3, <2>4 DEF Next, BspStep
<1>. QED BY <1>1, InitIInv, PTL DEF Spec

\* TablesFound: whatever tables the firmware has in its two lists, acpi_init and
\* apic_init work with those it means; the kernel stops in apic_init for want of a
\* MADT only where there is none, and faults in acpi_install_irq only where there
\* is no FADT.
THEOREM TablesAreFound == Spec => []TablesFound
<1>1. ASSUME IInv PROVE TablesFound
  <2>1. rsdp \in Rsdps
    BY <1>1 DEF IInv, Firmware
  <2>2. ASSUME phase \notin {"acpi", "tables"}, NEW t \in Offered("FACP")
        PROVE  /\ acpi_instance.fadt = t /\ t # NoTable
               /\ acpi_instance.dsdt \in {t.dsdt, t.x_dsdt} \ {0}
               /\ t.revision >= 2 /\ t.x_dsdt # 0 => acpi_instance.dsdt = t.x_dsdt
    <3>1. PICK i \in 1..Len(List) : t = List[i] /\ t.signature = "FACP"
      BY DEF Offered, List
    <3>2. Loaded(t)
      BY <1>1, <2>2, <3>1 DEF IInv, Firmware
    <3>3. t.dsdt # 0 \/ (t.revision >= 2 /\ t.x_dsdt # 0)
      BY <2>1, <3>1, AcpiAssumption DEF List
    <3>. QED BY <3>1, <3>2, <3>3 DEF Loaded, NoTable
  <2>3. phase = "faulted" => Offered("FACP") = {}
    BY <1>1, <2>2 DEF IInv, Firmware
  <2>4. /\ madt # NoTable => madt \in Offered("APIC")
        /\ phase \in {"madt", "ioapic", "ready"} => madt \in Offered("APIC")
        /\ phase = "no_madt" => Offered("APIC") = {}
    BY <1>1 DEF IInv, Processors, Late
  <2>. QED BY <2>2, <2>3, <2>4 DEF TablesFound
<1>. QED BY <1>1, Inductive, PTL

\* TrampolineSafe: however slow the processors are and whether or not smp_boot has given one
\* up, a starting processor is alone on the trampoline, with the low half mapped.
THEOREM TrampolineIsSafe == Spec => []TrampolineSafe
<1>1. ASSUME IInv PROVE TrampolineSafe
  <2>1. ASSUME NEW c \in ApicIds, Starting(c)
        PROVE  low /\ current_cpu < Len(cpus) /\ c = Target
    <3>1. bsp \in AtWork \cup {"init", "hung"} /\ c = Target
      BY <1>1, <2>1 DEF IInv, Startup, AtWork, Sent
    <3>. QED BY <1>1, <3>1, TargetStored DEF IInv, Startup
  <2>. QED BY <2>1 DEF TrampolineSafe
<1>. QED BY <1>1, Inductive, PTL

\* AllRunning: for every MADT, with any number of processors, when smp_boot returns, exactly the
\* usable processors have been started and have answered.
THEOREM AllAreRunning == Spec => []AllRunning
<1>1. ASSUME IInv, bsp = "done"
      PROVE  /\ {c \in ApicIds : ap[c] # "reset"} = Usable
             /\ \A c \in Usable : ap[c] = "halted"
  <2>1. /\ rsdp \in Rsdps /\ phase = "ready" /\ madt \in Offered("APIC")
        /\ cpus \in Seq(ApicIds) /\ Stored = Listed(madt.entries)
    BY <1>1 DEF IInv, Firmware, Processors, Startup, Late
  <2>2. (CHOOSE t \in Offered("APIC") : TRUE) = madt
    BY <2>1, MadtIsKnown
  <2>3. Usable = Stored
    BY <2>1, <2>2 DEF Usable, Listed, IsCpu
  <2>4. \A k \in 2..Len(cpus) : cpus[k] \in ApicIds /\ ap[cpus[k]] = "halted"
    BY <1>1, <2>1 DEF IInv, Startup
  <2>5. \A c \in Stored : c \in ApicIds /\ ap[c] = "halted"
    BY <2>4 DEF Stored
  <2>. QED BY <1>1, <2>3, <2>5 DEF IInv, Startup
<1>2. IInv => AllRunning
  BY <1>1 DEF AllRunning
<1>. QED BY <1>2, Inductive, PTL

-----------------------------------------------------------------------------
(* The interrupt lines of a machine that has its devices on the first I/O  *)
(* APIC, the only one whose pins the code numbers as the hardware does.    *)

\* The devices there are: the SCI comes with a FADT.
Present == {"timer"} \cup {d \in {"sci"} : Offered("FACP") # {}}

Lines(e) == e.gsi..(e.gsi + e.max)
Flags == SUBSET {"LEVEL", "ACTIVE_LOW"}

\* An I/O APIC of the MADT: its lines are its own and have vectors below the one
\* of spurious interrupts; if the line of a device is among them, it is the
\* first.
IoapicSound(es, i) ==
    /\ es[i].gsi \in Nat /\ es[i].max \in Nat
    /\ es[i].gsi + es[i].max + IRQ_BASE < SPURIOUS
    /\ \A j \in 1..Len(es) : \A g \in Lines(es[i]) :
          es[j].type = "ioapic" /\ g \in Lines(es[j]) => j = i
    /\ \A d \in Present : Wiring(d).gsi \in Lines(es[i]) => es[i].gsi = 0

\* No line has two overrides that differ, and a global line has a number that a
\* byte can hold.
OverrideSound(es, i) ==
    /\ es[i].gsi \in 0..255 /\ es[i].flags \in Flags
    /\ \A j \in 1..Len(es) : es[j].type = "override" /\ es[j].irq = es[i].irq =>
          es[j].gsi = es[i].gsi /\ es[j].flags = es[i].flags

\* The machines that LinesAreRouted is about; the two devices have lines of
\* their own.
SimpleWiring ==
    /\ \A t \in Offered("APIC") : \A i \in 1..Len(t.entries) :
          /\ t.entries[i].type = "ioapic" => IoapicSound(t.entries, i)
          /\ t.entries[i].type = "override" => OverrideSound(t.entries, i)
    /\ Present = Device => Wiring("timer").gsi # Wiring("sci").gsi

\* What apic_init has stored of the I/O APICs and overrides among the first n
\* entries of the table.
Stores(n, g) == g \in ioapics[n].gsi_start..ioapics[n].gsi_end
Chips(n) ==
    /\ \A k \in 1..Len(ioapics) : \E i \in 1..n :
          /\ madt.entries[i].type = "ioapic"
          /\ ioapics[k] = [gsi_start |-> madt.entries[i].gsi,
                           gsi_end |-> madt.entries[i].gsi + madt.entries[i].max]
    /\ \A k, l \in 1..Len(ioapics) : \A g \in Nat : Stores(k, g) /\ Stores(l, g) => k = l
Rec(e) == [source |-> e.irq, destination |-> e.gsi % 256, flags |-> e.flags]
Recs(n) == {Rec(madt.entries[i]) : i \in {i \in 1..n : madt.entries[i].type = "override"}}
ValidRecs == {Rec(e) : e \in {e \in Declared : e.type = "override"}}
StoredRecs == {overrides[k] : k \in 1..Len(overrides)}

\* The pins of each I/O APIC.
Pin == [vector : Nat, masked : BOOLEAN, flags : Flags, destination : {0}]
PinNumbers(k) == 0..(ioapics[k].gsi_end - ioapics[k].gsi_start)
PinTables ==
    /\ ioapics = [k \in 1..Len(ioapics) |-> ioapics[k]] /\ Len(ioapics) \in Nat
    /\ overrides = [k \in 1..Len(overrides) |-> overrides[k]] /\ Len(overrides) \in Nat
    /\ pins = [k \in 1..Len(ioapics) |-> pins[k]]
    /\ \A k \in 1..Len(ioapics) : pins[k] \in [PinNumbers(k) -> Pin]

\* Where kmain is behind irq_configure, before and after it has programmed the
\* pin, and behind irq_unmask.
Installed(d) == IF d = "timer" THEN Late \ {"ioapic", "timer_install"}
                ELSE {"sci_program", "sci_unmask", "ready"}
Programmed(d) == Installed(d) \ (IF d = "timer" THEN {"timer_program"} ELSE {"sci_program"})
Unmasked(d) == Programmed(d) \ (IF d = "timer" THEN {"timer_unmask"} ELSE {"sci_unmask"})

\* What the steps of a device leave behind.
Routed(d) ==
    phase \in Installed(d) =>
       /\ d \in Present /\ (d = "sci" => acpi_instance.fadt # NoTable)
       /\ line[d] = IF Wire(d) = {} THEN NoLine ELSE Wiring(d).gsi
       /\ Wire(d) # {} => idt[Wiring(d).gsi + IRQ_BASE] = d
       /\ \A w \in Wire(d) :
             /\ phase \in Programmed(d) => pins[w[1]][w[2]].flags = Wiring(d).flags
             /\ phase \in Unmasked(d) => ~pins[w[1]][w[2]].masked

\* All other pins stay masked; each has the vector of its line.
Quiet ==
    \A k \in 1..Len(ioapics) : \A n \in PinNumbers(k) :
       /\ ~pins[k][n].masked => \E d \in Present : phase \in Unmasked(d) /\ <<k, n>> \in Wire(d)
       /\ phase \in Late /\ (phase = "ioapic" => k < next) =>
             pins[k][n].vector = ioapics[k].gsi_start + IRQ_BASE + n

Routing ==
    /\ PinTables /\ Quiet
    /\ idt \in [Vector -> Device \cup {"none", "lapic_spurious", "pic0_spurious",
                                       "pic1_spurious"}]
    /\ line \in [Device -> Nat]
    /\ acpi_instance.fadt \in {NoTable} \cup Offered("FACP")
    /\ phase \in Early => ioapics = <<>> /\ overrides = <<>>
    /\ phase = "madt" => Chips(next - 1) /\ StoredRecs = Recs(next - 1)
    /\ phase \in Late => Chips(Len(madt.entries)) /\ StoredRecs = ValidRecs
    /\ \A d \in Device : Routed(d)

-----------------------------------------------------------------------------

\* A set of numbers that is not empty has a least one.
LEMMA LeastOf ==
    ASSUME NEW S \in SUBSET Nat, S # {}
    PROVE  Min(S) \in S
<1>. DEFINE R == {s \in Nat \X Nat : s[1] < s[2]}
<1>1. IsWellFoundedOn(R, Nat)
  BY NatLessThanWellFounded, Zenon DEF OpToRel
<1>. HIDE DEF R
<1>2. PICK x \in S : \A y \in S : ~(<<y, x>> \in R)
  BY <1>1, WFMin
<1>3. ASSUME NEW y \in S PROVE x <= y
  <2>1. ~(<<y, x>> \in R)
    BY <1>2
  <2>. QED BY <2>1 DEF R
<1>. QED BY <1>3 DEF Min

\* An element at the end of a sequence.
LEMMA AppendTo ==
    ASSUME NEW n \in Nat, NEW s, s = [k \in 1..n |-> s[k]], NEW x, NEW t, t = Append(s, x)
    PROVE  /\ Len(s) = n /\ Len(t) = n + 1 /\ t = [k \in 1..(n + 1) |-> t[k]]
           /\ t[n + 1] = x /\ \A k \in 1..n : t[k] = s[k]
<1>1. PICK S : S = {s[k] : k \in 1..n} \cup {x}
  OBVIOUS
<1>2. s \in [1..n -> S] /\ x \in S
  BY <1>1
<1>3. s \in Seq(S)
  BY <1>2, SeqDef
<1>4. Len(s) = n
  BY <1>2, <1>3, LenProperties
<1>. QED BY <1>2, <1>3, <1>4, AppendProperties, LenProperties

\* What irq_configure makes of a line: the override that the firmware declares for it, if any.
LEMMA OverriddenIs ==
    ASSUME Routing, phase \in Late, NEW irq, NEW flags, NEW hits,
           hits = {e \in Declared : e.type = "override" /\ e.irq = irq}
    PROVE  /\ hits = {} => Overridden(irq, flags) = [gsi |-> irq, flags |-> flags]
           /\ hits # {} => \E e \in hits :
                 Overridden(irq, flags) = [gsi |-> e.gsi % 256, flags |-> e.flags]
<1>1. PICK S : S = {i \in 1..Len(overrides) : overrides[i].source = irq}
  OBVIOUS
<1>2. StoredRecs = ValidRecs /\ S \in SUBSET Nat
  BY <1>1 DEF Routing
<1>3. Overridden(irq, flags) = IF S = {} THEN [gsi |-> irq, flags |-> flags]
                               ELSE [gsi |-> overrides[Min(S)].destination,
                                     flags |-> overrides[Min(S)].flags]
  BY <1>1 DEF Overridden
<1>4. ASSUME NEW i \in S PROVE \E e \in hits : overrides[i] = Rec(e)
  <2>1. overrides[i] \in ValidRecs /\ overrides[i].source = irq
    BY <1>1, <1>2, <1>4 DEF StoredRecs
  <2>2. PICK e \in Declared : e.type = "override" /\ overrides[i] = Rec(e)
    BY <2>1 DEF ValidRecs
  <2>. QED BY <2>1, <2>2 DEF Rec
<1>5. ASSUME NEW e \in hits PROVE \E i \in S : TRUE
  <2>1. Rec(e) \in StoredRecs
    BY <1>2 DEF ValidRecs
  <2>2. PICK i \in 1..Len(overrides) : overrides[i] = Rec(e)
    BY <2>1 DEF StoredRecs
  <2>. QED BY <1>1, <1>5, <2>2 DEF Rec
<1>6. CASE S = {}
  BY <1>3, <1>5, <1>6
<1>7. CASE S # {}
  <2>1. PICK m : m = Min(S) /\ m \in S
    BY <1>2, <1>7, LeastOf
  <2>2. PICK e \in hits : overrides[m] = Rec(e)
    BY <1>4, <2>1
  <2>. QED BY <1>3, <1>7, <2>1, <2>2 DEF Rec
<1>. QED BY <1>6, <1>7

\* The MADT in use is the one the firmware declares.
LEMMA MadtEntries ==
    ASSUME IInv, phase \in Late \cup {"madt"}
    PROVE  /\ rsdp \in Rsdps /\ madt \in Offered("APIC") /\ Len(madt.entries) \in Nat
           /\ \A e : e \in Declared <=> \E i \in 1..Len(madt.entries) :
                        e = madt.entries[i] /\ \A j \in 1..i : madt.entries[j].length > 2
<1>1. rsdp \in Rsdps /\ madt \in Offered("APIC")
  BY DEF IInv, Firmware, Processors
<1>2. Offered("APIC") = {madt} /\ Len(madt.entries) \in Nat
  BY <1>1, MadtIsKnown
<1>3. Declared = {madt.entries[i] : i \in {i \in 1..Len(madt.entries) :
                                            \A j \in 1..i : madt.entries[j].length > 2}}
  BY <1>2 DEF Declared
<1>. QED BY <1>1, <1>2, <1>3

\* So a device is programmed for the line that it is wired to.
LEMMA AskedIsWiring ==
    ASSUME IInv, SimpleWiring, Routing, phase \in Late, NEW d \in Present,
           d = "sci" => acpi_instance.fadt # NoTable
    PROVE  /\ Asked(d).gsi = Wiring(d).gsi /\ Asked(d).flags = Wiring(d).flags
           /\ Wiring(d).gsi \in Nat /\ Wiring(d).flags \in Flags
<1>. DEFINE irq == IF d = "timer" THEN 0 ELSE (CHOOSE t \in Offered("FACP") : TRUE).sci_irq
<1>1. PICK flags : flags = IF d = "timer" THEN {} ELSE {"LEVEL", "ACTIVE_LOW"}
  BY Zenon
<1>2. PICK hits : hits = {e \in Declared : e.type = "override" /\ e.irq = irq}
  OBVIOUS
<1>3. Asked(d) = Overridden(irq, flags) /\ irq \in Nat /\ flags \in Flags
  <2>1. CASE d = "timer"
    BY <1>1, <2>1 DEF Asked, Flags
  <2>2. CASE d # "timer"
    <3>1. d = "sci" /\ acpi_instance.fadt \in Offered("FACP")
      BY <2>2 DEF Present, Routing
    <3>2. rsdp \in Rsdps
      BY DEF IInv, Firmware
    <3>3. \A t, u \in Offered("FACP") : t = u
      BY <3>2, AcpiAssumption DEF Offered
    <3>4. (CHOOSE t \in Offered("FACP") : TRUE) = acpi_instance.fadt
      BY <3>1, <3>3
    <3>5. acpi_instance.fadt.sci_irq \in Nat
      <4>1. acpi_instance.fadt.sci_irq \in 0..254
        <5>1. PICK i \in 1..Len(TablesOf(rsdp)) : acpi_instance.fadt = TablesOf(rsdp)[i]
                                                  /\ TablesOf(rsdp)[i].signature = "FACP"
          BY <3>1 DEF Offered
        <5>. QED BY <3>2, <5>1, ApicAssumption
      <4>. QED BY <4>1
    <3>. QED BY <1>1, <3>1, <3>4, <3>5 DEF Asked, Flags
  <2>. QED BY <2>1, <2>2
<1>4. Wiring(d) = IF hits # {} THEN [gsi |-> (CHOOSE e \in hits : TRUE).gsi,
                                    flags |-> (CHOOSE e \in hits : TRUE).flags]
                  ELSE [gsi |-> irq, flags |-> flags]
  BY <1>1, <1>2 DEF Wiring
<1>. HIDE DEF irq
<1>5. CASE hits = {}
  BY <1>2, <1>3, <1>4, <1>5, OverriddenIs
<1>6. CASE hits # {}
  <2>1. PICK e \in hits : Overridden(irq, flags) = [gsi |-> e.gsi % 256, flags |-> e.flags]
    BY <1>2, <1>6, OverriddenIs
  <2>2. PICK u \in hits : u = CHOOSE x \in hits : TRUE
    BY <1>6
  <2>3. \A x \in hits : x.type = "override" /\ x.irq = irq
                        /\ \E i \in 1..Len(madt.entries) : x = madt.entries[i]
    BY <1>2, MadtEntries
  <2>4. u.gsi = e.gsi /\ u.flags = e.flags /\ e.gsi \in 0..255 /\ e.flags \in Flags
    <3>1. PICK i, j \in 1..Len(madt.entries) : e = madt.entries[i] /\ u = madt.entries[j]
      BY <2>3
    <3>2. OverrideSound(madt.entries, i)
      BY <2>3, <3>1, MadtEntries DEF SimpleWiring
    <3>. QED BY <2>3, <3>1, <3>2 DEF OverrideSound
  <2>5. e.gsi % 256 = e.gsi /\ e.gsi \in Nat
    BY <2>4
  <2>. QED BY <1>3, <1>4, <1>6, <2>1, <2>2, <2>4, <2>5
<1>. QED BY <1>5, <1>6

\* The line of a device is a pin of the first I/O APIC, and of no other, or belongs to none.
LEMMA WireIs ==
    ASSUME IInv, SimpleWiring, Routing, phase \in Late, NEW d \in Present,
           NEW g \in Nat, g = Wiring(d).gsi
    PROVE  \/ Wire(d) = {} /\ get_ioapic(g) = 0
           \/ \E k \in 1..Len(ioapics) :
                 /\ get_ioapic(g) = k /\ Wire(d) = {<<k, g>>} /\ g \in PinNumbers(k)
                 /\ ioapics[k].gsi_start = 0 /\ g + IRQ_BASE < SPURIOUS
<1>1. Chips(Len(madt.entries)) /\ PinTables
  BY DEF Routing
<1>2. ASSUME NEW k \in 1..Len(ioapics)
      PROVE  /\ ioapics[k].gsi_start \in Nat /\ ioapics[k].gsi_end \in Nat
             /\ ioapics[k].gsi_end + IRQ_BASE < SPURIOUS
             /\ Stores(k, g) => ioapics[k].gsi_start = 0
  <2>1. PICK i \in 1..Len(madt.entries) :
               /\ madt.entries[i].type = "ioapic"
               /\ ioapics[k] = [gsi_start |-> madt.entries[i].gsi,
                                gsi_end |-> madt.entries[i].gsi + madt.entries[i].max]
    BY <1>1 DEF Chips
  <2>2. IoapicSound(madt.entries, i)
    BY <2>1, MadtEntries DEF SimpleWiring
  <2>3. ioapics[k].gsi_start = madt.entries[i].gsi
        /\ ioapics[k].gsi_end = madt.entries[i].gsi + madt.entries[i].max
    BY <2>1
  <2>. QED BY <2>2, <2>3 DEF IoapicSound, Stores, Lines
<1>3. PICK hits : hits = {k \in 1..Len(ioapics) : Stores(k, g)}
  OBVIOUS
<1>4. get_ioapic(g) = IF hits = {} THEN 0 ELSE Min(hits)
  BY <1>3 DEF get_ioapic, Stores
<1>5. Len(pins) = Len(ioapics) /\ Len(ioapics) \in Nat
      /\ \A k \in 1..Len(ioapics) : DOMAIN pins[k] = PinNumbers(k)
  BY <1>1 DEF PinTables
<1>6. ASSUME NEW k \in 1..Len(ioapics), NEW n
      PROVE  (n \in PinNumbers(k) /\ ioapics[k].gsi_start + n = g) <=> k \in hits /\ n = g
  BY <1>2, <1>3 DEF PinNumbers, Stores
<1>7. Wire(d) = {<<k, g>> : k \in hits}
  <2>1. Wire(d) = {w \in UNION {{k} \X PinNumbers(k) : k \in 1..Len(ioapics)} :
                      ioapics[w[1]].gsi_start + w[2] = g}
    BY <1>5 DEF Wire
  <2>2. \A k, n : <<k, n>> \in Wire(d) <=> k \in hits /\ n = g
    BY <1>3, <1>6, <2>1
  <2>3. \A w \in Wire(d) : w = <<w[1], w[2]>>
    BY <2>1
  <2>. QED BY <2>2, <2>3
<1>8. CASE hits = {}
  BY <1>4, <1>7, <1>8
<1>9. CASE hits # {}
  <2>1. PICK k : k \in hits
    BY <1>9
  <2>2. hits = {k}
    BY <1>1, <1>3, <2>1 DEF Chips
  <2>3. Min(hits) = k /\ k \in 1..Len(ioapics)
    <3>1. hits \in SUBSET Nat
      BY <1>3
    <3>. QED BY <1>3, <1>9, <2>1, <2>2, <3>1, LeastOf
  <2>4. g \in PinNumbers(k) /\ ioapics[k].gsi_start = 0
    BY <1>2, <1>3, <1>6, <2>1, <2>3
  <2>5. g + IRQ_BASE < SPURIOUS
    BY <1>2, <2>3, <2>4, ApicAssumption DEF PinNumbers, SPURIOUS
  <2>. QED BY <1>4, <1>7, <1>9, <2>2, <2>3, <2>4, <2>5
<1>. QED BY <1>8, <1>9

\* p are the pins with v in a field of one entry.
Writes(p, k, g, field, v) ==
    /\ p = [j \in 1..Len(ioapics) |-> p[j]]
    /\ \A j \in 1..Len(ioapics) :
          /\ p[j] \in [PinNumbers(j) -> Pin]
          /\ \A n \in PinNumbers(j) :
                /\ p[j][n].vector = pins[j][n].vector
                /\ p[j][n].flags = IF j = k /\ n = g /\ field = "flags" THEN v
                                   ELSE pins[j][n].flags
                /\ p[j][n].masked = IF j = k /\ n = g /\ field = "masked" THEN v
                                    ELSE pins[j][n].masked

\* What a write to the entry of one pin changes.
LEMMA UpdatedPins ==
    ASSUME PinTables, NEW k \in 1..Len(ioapics), NEW g \in PinNumbers(k), get_ioapic(g) = k,
           NEW field \in {"flags", "masked"}, NEW v, field = "flags" => v \in Flags,
           field = "masked" => v = FALSE, NEW p, p = Updated(g, field, v)
    PROVE  Writes(p, k, g, field, v)
<1>1. /\ pins = [j \in 1..Len(ioapics) |-> pins[j]] /\ k # 0
      /\ DOMAIN pins[k] = PinNumbers(k)
      /\ \A j \in 1..Len(ioapics) : pins[j] \in [PinNumbers(j) -> Pin]
  BY DEF PinTables
<1>2. p = [pins EXCEPT ![k][g][field] = v]
  BY <1>1 DEF Updated, PinOf
<1>3. PICK x : x = [pins[k][g] EXCEPT ![field] = v]
  OBVIOUS
<1>4. /\ x \in Pin /\ x.vector = pins[k][g].vector
      /\ x.flags = IF field = "flags" THEN v ELSE pins[k][g].flags
      /\ x.masked = IF field = "masked" THEN v ELSE pins[k][g].masked
  <2>1. pins[k][g] \in Pin
    BY <1>1
  <2>2. CASE field = "flags"
    <3>1. x = [pins[k][g] EXCEPT !.flags = v]
      BY <1>3, <2>2
    <3>. QED BY <2>1, <2>2, <3>1 DEF Pin
  <2>3. CASE field = "masked"
    <3>1. x = [pins[k][g] EXCEPT !.masked = v]
      BY <1>3, <2>3
    <3>. QED BY <2>1, <2>3, <3>1 DEF Pin
  <2>. QED BY <2>2, <2>3
<1>5. p = [pins EXCEPT ![k] = [pins[k] EXCEPT ![g] = x]]
  BY <1>2, <1>3
<1>6. \A j \in 1..Len(ioapics) : j # k => p[j] = pins[j]
  BY <1>1, <1>5
<1>7. p[k] = [pins[k] EXCEPT ![g] = x]
  BY <1>1, <1>5
<1>8. p[k] \in [PinNumbers(k) -> Pin] /\ p[k][g] = x
      /\ \A n \in PinNumbers(k) : n # g => p[k][n] = pins[k][n]
  BY <1>1, <1>4, <1>7
<1>9. p = [j \in 1..Len(ioapics) |-> p[j]]
  BY <1>1, <1>5
<1>. QED BY <1>1, <1>4, <1>6, <1>8, <1>9 DEF Writes

-----------------------------------------------------------------------------

\* Wiring and tables are the firmware's.
LEMMA SameWiring ==
    ASSUME rsdp' = rsdp
    PROVE  /\ \A s : Offered(s)' = Offered(s)
           /\ Present' = Present /\ Declared' = Declared /\ ValidRecs' = ValidRecs
           /\ \A d : Wiring(d)' = Wiring(d)
           /\ SimpleWiring' = SimpleWiring
<1>1. \A s : Offered(s)' = Offered(s)
  BY DEF Offered
<1>2. Declared' = Declared /\ Present' = Present
  BY <1>1 DEF Declared, Present
<1>3. \A d : Wiring(d)' = Wiring(d)
  BY <1>1, <1>2 DEF Wiring
<1>4. ValidRecs' = ValidRecs
  BY <1>2 DEF ValidRecs
<1>5. SimpleWiring' = SimpleWiring
  <2>1. \A es, i : IoapicSound(es, i)' = IoapicSound(es, i)
    BY <1>2, <1>3 DEF IoapicSound
  <2>2. \A es, i : OverrideSound(es, i)' = OverrideSound(es, i)
    BY DEF OverrideSound
  <2>. QED BY <1>1, <1>2, <1>3, <2>1, <2>2 DEF SimpleWiring
<1>. QED BY <1>1, <1>2, <1>3, <1>4, <1>5

\* The pins of a line stay where they are.
LEMMA SameWire ==
    ASSUME rsdp' = rsdp, ioapics' = ioapics, PinTables, PinTables', NEW d
    PROVE  Wire(d)' = Wire(d)
<1>1. /\ Len(pins) = Len(ioapics) /\ Len(pins') = Len(ioapics)
      /\ \A k \in 1..Len(ioapics) :
            DOMAIN pins[k] = PinNumbers(k) /\ DOMAIN pins'[k] = PinNumbers(k)
  BY DEF PinTables, PinNumbers
<1>2. Wire(d) = {w \in UNION {{k} \X PinNumbers(k) : k \in 1..Len(ioapics)} :
                    ioapics[w[1]].gsi_start + w[2] = Wiring(d).gsi}
  BY <1>1 DEF Wire
<1>3. Wire(d)' = {w \in UNION {{k} \X PinNumbers(k) : k \in 1..Len(ioapics)} :
                    ioapics[w[1]].gsi_start + w[2] = Wiring(d).gsi}
  <2>1. Wiring(d)' = Wiring(d)
    BY SameWiring
  <2>. QED BY <1>1, <2>1 DEF Wire
<1>. QED BY <1>2, <1>3

\* At power-on, nothing has been stored or routed.
LEMMA InitRouting == Init => Routing
<1>. SUFFICES ASSUME Init PROVE Routing
  OBVIOUS
<1>1. /\ phase = "acpi" /\ ioapics = <<>> /\ overrides = <<>> /\ pins = <<>>
      /\ idt = [v \in Vector |-> "none"] /\ line = [d \in Device |-> NoLine]
      /\ acpi_instance.fadt = NoTable
  BY DEF Init, ApicInit, AcpiInit
<1>2. PinTables /\ Quiet
  BY <1>1 DEF PinTables, Quiet
<1>3. \A d : Routed(d)
  BY <1>1 DEF Routed, Installed, Late
<1>. QED BY <1>1, <1>2, <1>3 DEF Routing, Early, Late, NoLine

\* Nor before apic_init has a table.
LEMMA EarlyRouting ==
    ASSUME Routing, phase \in Early, phase' \in Early \cup {"madt", "hung", "no_madt"},
           UNCHANGED <<rsdp, ioapics, overrides, pins, idt, line>>,
           acpi_instance'.fadt \in {NoTable} \cup Offered("FACP"),
           phase' = "madt" => next' = 1
    PROVE  Routing'
<1>1. ioapics = <<>> /\ overrides = <<>> /\ Len(ioapics) = 0 /\ Len(overrides) = 0
  BY DEF Routing
<1>2. Offered("FACP")' = Offered("FACP")
  BY SameWiring
<1>3. phase' \notin Late /\ \A d : phase' \notin Installed(d)
  BY DEF Late, Early, Installed
<1>4. PinTables' /\ Quiet'
  BY <1>1 DEF Routing, PinTables, Quiet, PinNumbers
<1>5. phase' = "madt" => Chips(next - 1)' /\ StoredRecs' = Recs(next - 1)'
  <2>. SUFFICES ASSUME phase' = "madt"
                PROVE  Chips(next - 1)' /\ StoredRecs' = Recs(next - 1)'
    OBVIOUS
  <2>1. ioapics' = <<>> /\ Len(overrides') = 0 /\ next' - 1 = 0
    BY <1>1
  <2>2. StoredRecs' = {} /\ Recs(next - 1)' = {}
    BY <2>1 DEF StoredRecs, Recs
  <2>3. Chips(next - 1)'
    BY <2>1 DEF Chips
  <2>. QED BY <2>2, <2>3
<1>. QED BY <1>1, <1>2, <1>3, <1>4, <1>5 DEF Routing, Routed

\* show_tables keeps a FADT that the firmware offers.
LEMMA AcpiRouting ==
    ASSUME IInv, Routing, AcpiNext,
           UNCHANGED <<madt, next, cpus, ioapics, overrides, pins, idt, line>>
    PROVE  Routing'
<1>1. /\ phase \in Early /\ phase' \in Early /\ rsdp' = rsdp /\ phase' # "madt"
  BY DEF AcpiNext, AcpiStart, ShowTable, ShowEnd, acpiVars, Early
<1>2. acpi_instance.fadt \in {NoTable} \cup Offered("FACP")
  BY DEF Routing
<1>3. PICK x, f, d : acpi_instance = [xsdt |-> x, fadt |-> f, dsdt |-> d]
  BY DEF IInv, Firmware, IsInstance
<1>4. acpi_instance'.fadt \in {NoTable} \cup Offered("FACP")
  <2>1. CASE AcpiStart
    <3>1. acpi_instance' = [xsdt |-> rsdp.revision # 0, fadt |-> f, dsdt |-> d]
      BY <1>3, <2>1 DEF AcpiStart
    <3>. QED BY <1>2, <1>3, <3>1
  <2>2. CASE ShowEnd
    BY <1>2, <2>2 DEF ShowEnd, acpiVars
  <2>3. CASE ShowTable
    <3>1. Root = List /\ shown' = shown + 1 /\ shown \in Nat /\ shown < Len(List)
          /\ Len(List) \in Nat
      BY <2>3, AcpiAssumption DEF ShowTable, IInv, Firmware, List
    <3>2. CASE List[shown'].signature = "FACP"
      <4>1. PICK t : t = List[shown']
        OBVIOUS
      <4>2. t \in Offered("FACP")
        BY <3>1, <3>2, <4>1 DEF Offered, List
      <4>3. acpi_instance' = [xsdt |-> x, fadt |-> t,
                              dsdt |-> IF t.revision >= 2 /\ t.x_dsdt # 0 THEN t.x_dsdt
                                       ELSE t.dsdt]
        BY <1>3, <2>3, <3>1, <3>2, <4>1 DEF ShowTable, init_fadt
      <4>. QED BY <4>2, <4>3
    <3>3. CASE List[shown'].signature # "FACP"
      BY <1>2, <2>3, <3>1, <3>3 DEF ShowTable
    <3>. QED BY <3>2, <3>3
  <2>. QED BY <2>1, <2>2, <2>3 DEF AcpiNext
<1>. QED BY <1>1, <1>4, EarlyRouting

\* The search for the MADT leaves lines alone.
LEMMA FindMadtRouting ==
    ASSUME IInv, Routing, FindMadt \/ NoArrays
    PROVE  Routing'
<1>1. /\ phase = "apic" /\ phase' \in {"madt", "hung", "no_madt"} /\ next' = next
      /\ UNCHANGED <<rsdp, acpi_instance, ioapics, overrides, pins, idt, line>>
  BY DEF FindMadt, NoArrays, acpiVars
<1>2. next = 1
  BY <1>1 DEF IInv, Processors, Early
<1>3. acpi_instance'.fadt \in {NoTable} \cup Offered("FACP")
  BY <1>1 DEF Routing
<1>. QED BY <1>1, <1>2, <1>3, EarlyRouting DEF Early

\* Another I/O APIC of the table: its pins are masked, its lines its own.
LEMMA IoapicStored ==
    ASSUME IInv, SimpleWiring, Routing, ParseEntry, Entry.type = "ioapic"
    PROVE  PinTables' /\ Quiet' /\ Chips(next - 1)'
<1>1. PICK n, m, e : n = next /\ m = Len(ioapics) /\ e = madt.entries[next]
  OBVIOUS
<1>2. /\ phase = "madt" /\ phase' = "madt" /\ next' = n + 1 /\ e.type = "ioapic"
      /\ rsdp' = rsdp /\ madt' = madt /\ overrides' = overrides /\ n <= Len(madt.entries)
  BY <1>1 DEF ParseEntry, acpiVars, Entry, More
<1>3. n \in Nat \ {0} /\ Len(madt.entries) \in Nat /\ n \in 1..Len(madt.entries)
  <2>1. n \in Nat \ {0} /\ Len(madt.entries) \in Nat
    BY <1>1, <1>2, MadtEntries DEF IInv, Processors
  <2>. QED BY <1>2, <2>1
<1>4. PinTables /\ Quiet /\ Chips(n - 1) /\ m \in Nat
  BY <1>1, <1>2 DEF Routing, PinTables
<1>5. IoapicSound(madt.entries, n)
  BY <1>1, <1>2, <1>3, MadtEntries DEF SimpleWiring
<1>6. PICK c, t : /\ c = [gsi_start |-> e.gsi, gsi_end |-> e.gsi + e.max]
                  /\ t = [i \in 0..e.max |-> AfterReset]
  OBVIOUS
<1>7. ioapics' = Append(ioapics, c) /\ pins' = Append(pins, t)
  BY <1>1, <1>2, <1>6 DEF ParseEntry, Entry, create_ioapic
<1>8. /\ e.gsi \in Nat /\ e.max \in Nat /\ c.gsi_start = e.gsi /\ c.gsi_end = e.gsi + e.max
  BY <1>1, <1>5, <1>6 DEF IoapicSound
<1>9. /\ Len(ioapics') = m + 1 /\ ioapics' = [k \in 1..(m + 1) |-> ioapics'[k]]
      /\ ioapics'[m + 1] = c /\ \A k \in 1..m : ioapics'[k] = ioapics[k]
  <2>1. ioapics = [k \in 1..m |-> ioapics[k]]
    BY <1>1, <1>4 DEF PinTables
  <2>. QED BY <1>4, <1>7, <2>1, AppendTo
<1>10. /\ pins' = [k \in 1..(m + 1) |-> pins'[k]]
       /\ pins'[m + 1] = t /\ \A k \in 1..m : pins'[k] = pins[k]
  BY <1>1, <1>4, <1>7, AppendTo DEF PinTables
<1>11. /\ \A k \in 1..m : PinNumbers(k)' = PinNumbers(k)
       /\ PinNumbers(m + 1)' = 0..e.max
  BY <1>8, <1>9 DEF PinNumbers
<1>12. \A k \in 1..(m + 1) : k \in 1..m \/ k = m + 1
  BY <1>4
<1>13. AfterReset \in Pin /\ AfterReset.masked = TRUE
  BY DEF AfterReset, Pin, Flags
<1>14. PinTables'
  <2>1. ASSUME NEW k \in 1..(m + 1) PROVE pins'[k] \in [PinNumbers(k)' -> Pin]
    <3>1. CASE k \in 1..m
      <4>1. pins[k] \in [PinNumbers(k) -> Pin]
        BY <1>1, <1>4, <3>1 DEF PinTables
      <4>2. pins'[k] = pins[k]
        BY <1>10, <3>1
      <4>3. PinNumbers(k)' = PinNumbers(k)
        BY <1>11, <3>1
      <4>4. PICK P, Q : P = PinNumbers(k)' /\ Q = pins'[k]
        OBVIOUS
      <4>5. Q \in [P -> Pin]
        BY <4>1, <4>2, <4>3, <4>4
      <4>. QED BY <4>4, <4>5
    <3>2. CASE k = m + 1
      <4>1. PinNumbers(k)' = 0..e.max
        BY <1>8, <1>9, <3>2 DEF PinNumbers
      <4>2. pins'[k] \in [0..e.max -> Pin]
        BY <1>6, <1>10, <1>13, <3>2
      <4>. QED BY <4>1, <4>2
    <3>. QED BY <1>12, <3>1, <3>2
  <2>. QED BY <1>2, <1>4, <1>9, <1>10, <2>1 DEF PinTables
<1>15. Quiet'
  <2>1. phase \notin Late /\ phase' \notin Late /\ \A d : phase \notin Unmasked(d)
    BY <1>2 DEF Late, Unmasked, Programmed, Installed
  <2>2. \A k \in 1..m : \A i \in PinNumbers(k) : pins[k][i].masked
    BY <1>1, <1>4, <2>1 DEF Quiet
  <2>3. \A k \in 1..(m + 1) : \A i \in PinNumbers(k)' : pins'[k][i].masked
    <3>. TAKE k \in 1..(m + 1)
    <3>1. CASE k \in 1..m
      BY <1>10, <1>11, <2>2, <3>1
    <3>2. CASE k = m + 1
      BY <1>6, <1>10, <1>11, <1>13, <3>2
    <3>. QED BY <1>12, <3>1, <3>2
  <2>. QED BY <1>9, <2>1, <2>3 DEF Quiet
<1>16. Chips(next - 1)'
  <2>1. next' - 1 = n /\ \A i \in 1..(n - 1) : i \in 1..n
    BY <1>2, <1>3
  <2>2. \A k \in 1..m : \E i \in 1..(n - 1) :
          /\ madt.entries[i].type = "ioapic"
          /\ ioapics[k] = [gsi_start |-> madt.entries[i].gsi,
                           gsi_end |-> madt.entries[i].gsi + madt.entries[i].max]
    BY <1>1, <1>4 DEF Chips
  <2>3. \A k \in 1..(m + 1) : \E i \in 1..n :
          /\ madt.entries[i].type = "ioapic"
          /\ ioapics'[k] = [gsi_start |-> madt.entries[i].gsi,
                            gsi_end |-> madt.entries[i].gsi + madt.entries[i].max]
    <3>1. n \in 1..n
      BY <1>3
    <3>. TAKE k \in 1..(m + 1)
    <3>2. CASE k \in 1..m
      BY <1>9, <2>1, <2>2, <3>2
    <3>3. CASE k = m + 1
      <4>1. ioapics'[k] = [gsi_start |-> madt.entries[n].gsi,
                           gsi_end |-> madt.entries[n].gsi + madt.entries[n].max]
        BY <1>1, <1>6, <1>9, <3>3
      <4>. QED BY <1>1, <1>2, <3>1, <4>1
    <3>. QED BY <1>12, <3>2, <3>3
  <2>4. ASSUME NEW k \in 1..m, NEW g \in Nat, Stores(k, g), g \in e.gsi..(e.gsi + e.max)
        PROVE  FALSE
    <3>1. PICK i \in 1..(n - 1) :
                 /\ madt.entries[i].type = "ioapic"
                 /\ ioapics[k] = [gsi_start |-> madt.entries[i].gsi,
                                  gsi_end |-> madt.entries[i].gsi + madt.entries[i].max]
      BY <2>2
    <3>2. i \in 1..Len(madt.entries) /\ i # n
      BY <1>3
    <3>3. g \in Lines(madt.entries[i]) /\ g \in Lines(madt.entries[n])
      BY <1>1, <2>4, <3>1 DEF Stores, Lines
    <3>. QED BY <1>5, <3>1, <3>2, <3>3 DEF IoapicSound
  <2>5. \A k \in 1..m : \A g : Stores(k, g)' <=> Stores(k, g)
    BY <1>9 DEF Stores
  <2>6. \A g : Stores(m + 1, g)' <=> g \in e.gsi..(e.gsi + e.max)
    BY <1>8, <1>9 DEF Stores
  <2>7. \A k, l \in 1..(m + 1) : \A g \in Nat : Stores(k, g)' /\ Stores(l, g)' => k = l
    <3>. SUFFICES ASSUME NEW k \in 1..(m + 1), NEW l \in 1..(m + 1), NEW g \in Nat,
                         Stores(k, g)', Stores(l, g)'
                  PROVE  k = l
      OBVIOUS
    <3>1. k \in 1..m /\ l \in 1..m => k = l
      BY <1>1, <1>4, <2>5 DEF Chips
    <3>. QED BY <1>12, <2>4, <2>5, <2>6, <3>1
  <2>. QED BY <1>2, <1>9, <2>1, <2>3, <2>7 DEF Chips
<1>. QED BY <1>14, <1>15, <1>16

\* Another entry of the table adds its override, if it is one.
LEMMA RecsMore ==
    ASSUME NEW n \in Nat \ {0}
    PROVE  Recs(n) = IF madt.entries[n].type = "override"
                     THEN Recs(n - 1) \cup {Rec(madt.entries[n])} ELSE Recs(n - 1)
<1>1. 1..n = 1..(n - 1) \cup {n}
  OBVIOUS
<1>. QED BY <1>1 DEF Recs

\* The loop of apic_init stores I/O APICs and overrides as the table has them.
LEMMA ParseEntryRouting ==
    ASSUME IInv, SimpleWiring, Routing, ParseEntry
    PROVE  Routing'
<1>1. PICK n, e : n = next /\ e = madt.entries[next]
  OBVIOUS
<1>2. /\ phase = "madt" /\ phase' = "madt" /\ next' = n + 1 /\ n <= Len(madt.entries)
      /\ UNCHANGED <<rsdp, acpi_instance, madt, idt, line>>
  BY <1>1 DEF ParseEntry, acpiVars, Entry, More
<1>3. n \in Nat \ {0} /\ Len(madt.entries) \in Nat
  BY <1>1, <1>2, MadtEntries DEF IInv, Processors
<1>4. /\ PinTables /\ Quiet /\ Chips(n - 1) /\ StoredRecs = Recs(n - 1)
  BY <1>1, <1>2 DEF Routing
<1>5. PinTables' /\ Quiet' /\ Chips(next - 1)'
  <2>1. CASE e.type = "ioapic"
    BY <1>1, <2>1, IoapicStored DEF Entry
  <2>2. CASE e.type # "ioapic"
    <3>1. UNCHANGED <<ioapics, pins>>
      BY <1>1, <2>2 DEF ParseEntry, Entry
    <3>2. PinTables'
      <4>1. overrides' = [k \in 1..Len(overrides') |-> overrides'[k]] /\ Len(overrides') \in Nat
        <5>1. CASE e.type = "override"
          <6>1. overrides' = Append(overrides, Rec(e))
            BY <1>1, <5>1 DEF ParseEntry, Entry, create_override, Rec
          <6>2. PICK m : m = Len(overrides)
            OBVIOUS
          <6>3. m \in Nat /\ overrides = [k \in 1..m |-> overrides[k]]
            BY <1>4, <6>2 DEF PinTables
          <6>. QED BY <6>1, <6>3, AppendTo
        <5>2. CASE e.type # "override"
          BY <1>1, <1>4, <2>2, <5>2 DEF ParseEntry, Entry, PinTables
        <5>. QED BY <5>1, <5>2
      <4>. QED BY <1>4, <3>1, <4>1 DEF PinTables, PinNumbers
    <3>3. Quiet'
      <4>1. phase \notin Late /\ phase' \notin Late /\ \A d : phase \notin Unmasked(d)
        BY <1>2 DEF Late, Unmasked, Programmed, Installed
      <4>. QED BY <1>4, <3>1, <4>1 DEF Quiet, PinNumbers
    <3>4. Chips(next - 1)'
      <4>1. next' - 1 = n /\ \A i \in 1..(n - 1) : i \in 1..n
        BY <1>2, <1>3
      <4>. QED BY <1>2, <1>4, <3>1, <4>1 DEF Chips, Stores
    <3>. QED BY <3>2, <3>3, <3>4
  <2>. QED BY <2>1, <2>2
<1>6. StoredRecs' = Recs(next - 1)'
  <2>1. Recs(next - 1)' = Recs(n)
    <3>1. next' - 1 = n
      BY <1>2, <1>3
    <3>. QED BY <1>2, <3>1 DEF Recs
  <2>2. CASE e.type = "override"
    <3>1. overrides' = Append(overrides, Rec(e))
      BY <1>1, <2>2 DEF ParseEntry, Entry, create_override, Rec
    <3>2. PICK m : m = Len(overrides)
      OBVIOUS
    <3>3. m \in Nat /\ overrides = [k \in 1..m |-> overrides[k]]
      BY <1>4, <3>2 DEF PinTables
    <3>4. /\ Len(overrides') = m + 1 /\ overrides'[m + 1] = Rec(e)
          /\ \A k \in 1..m : overrides'[k] = overrides[k]
      BY <3>1, <3>3, AppendTo
    <3>5. 1..(m + 1) = 1..m \cup {m + 1}
      BY <3>3
    <3>6. StoredRecs' = StoredRecs \cup {Rec(e)}
      BY <3>2, <3>4, <3>5 DEF StoredRecs
    <3>7. Recs(n) = Recs(n - 1) \cup {Rec(e)}
      BY <1>1, <1>3, <2>2, RecsMore
    <3>. QED BY <1>4, <2>1, <3>6, <3>7
  <2>3. CASE e.type # "override"
    <3>1. overrides' = overrides
      BY <1>1, <2>3 DEF ParseEntry, Entry
    <3>2. Recs(n) = Recs(n - 1)
      BY <1>1, <1>3, <2>3, RecsMore
    <3>. QED BY <1>4, <2>1, <3>1, <3>2 DEF StoredRecs
  <2>. QED BY <2>2, <2>3
<1>7. Offered("FACP")' = Offered("FACP")
  BY <1>2, SameWiring
<1>8. \A d : Routed(d)'
  BY <1>2 DEF Routed, Installed, Late
<1>. QED BY <1>2, <1>5, <1>6, <1>7, <1>8 DEF Routing, Early, Late

\* At the end of the table, all overrides that count are stored.
LEMMA ParseEndRouting ==
    ASSUME IInv, SimpleWiring, Routing, ParseEnd
    PROVE  Routing'
<1>1. PICK n : n = next
  OBVIOUS
<1>2. /\ phase = "madt" /\ phase' \in {"ioapic", "hung"}
      /\ (phase' = "ioapic" => next' = 1)
      /\ UNCHANGED <<rsdp, acpi_instance, madt, ioapics, overrides, pins, line>>
  BY DEF ParseEnd, acpiVars
<1>3. /\ n \in Nat \ {0} /\ Len(madt.entries) \in Nat /\ n - 1 <= Len(madt.entries)
      /\ \A i \in 1..(n - 1) : madt.entries[i].length > 2
      /\ ~(n <= Len(madt.entries) /\ madt.entries[n].length > 2)
  <2>1. n \in Nat \ {0} /\ Len(madt.entries) \in Nat /\ n - 1 <= Len(madt.entries)
        /\ \A i \in 1..(n - 1) : madt.entries[i].length > 2
    BY <1>1, <1>2, MadtEntries DEF IInv, Processors
  <2>2. ~(n <= Len(madt.entries) /\ madt.entries[n].length > 2)
    BY <1>1 DEF ParseEnd, More, Entry
  <2>. QED BY <2>1, <2>2
<1>4. PinTables /\ Quiet /\ Chips(n - 1) /\ StoredRecs = Recs(n - 1)
  BY <1>1, <1>2 DEF Routing
<1>5. ValidRecs' = ValidRecs /\ Offered("FACP")' = Offered("FACP")
  BY <1>2, SameWiring
<1>6. ValidRecs = Recs(n - 1)
  <2>1. \A i \in 1..Len(madt.entries) :
           (\A j \in 1..i : madt.entries[j].length > 2) <=> i \in 1..(n - 1)
    <3>. TAKE i \in 1..Len(madt.entries)
    <3>1. CASE i \in 1..(n - 1)
      <4>1. \A j \in 1..i : j \in 1..(n - 1)
        BY <1>3, <3>1
      <4>. QED BY <1>3, <3>1, <4>1
    <3>2. CASE i \notin 1..(n - 1)
      <4>1. n \in 1..i /\ n <= Len(madt.entries)
        BY <1>3, <3>2
      <4>2. ~(madt.entries[n].length > 2)
        BY <1>3, <4>1
      <4>3. ~(\A j \in 1..i : madt.entries[j].length > 2)
        BY <4>1, <4>2, Zenon
      <4>. QED BY <3>2, <4>3
    <3>. QED BY <3>1, <3>2
  <2>2. \A i \in 1..(n - 1) : i \in 1..Len(madt.entries)
    BY <1>3
  <2>3. \A e : e \in Declared <=> \E i \in 1..(n - 1) : e = madt.entries[i]
    BY <1>2, <2>1, <2>2, MadtEntries
  <2>. QED BY <2>3 DEF ValidRecs, Recs
<1>7. PinTables'
  BY <1>2, <1>4 DEF PinTables, PinNumbers
<1>8. Quiet'
  <2>1. phase \notin Late /\ (\A d : phase \notin Unmasked(d)) /\ \A d : phase' \notin Unmasked(d)
    BY <1>2 DEF Late, Unmasked, Programmed, Installed
  <2>2. \A k \in 1..Len(ioapics) : ~(phase' = "ioapic" /\ k < next')
    BY <1>2
  <2>3. phase' \in Late => phase' = "ioapic"
    BY <1>2 DEF Late
  <2>. QED BY <1>2, <1>4, <2>1, <2>2, <2>3 DEF Quiet, PinNumbers
<1>9. Chips(Len(madt.entries))'
  <2>1. \A i \in 1..(n - 1) : i \in 1..Len(madt.entries)
    BY <1>3
  <2>. QED BY <1>2, <1>4, <2>1 DEF Chips, Stores
<1>10. idt' \in [Vector -> Device \cup {"none", "lapic_spurious", "pic0_spurious",
                                       "pic1_spurious"}]
  <2>1. CASE idt' = idt
    BY <2>1 DEF Routing
  <2>2. CASE idt' = [v \in Vector |->
                         IF v = SPURIOUS THEN "lapic_spurious"
                         ELSE IF madt.pcat /\ v = PIC_BASE + 7 THEN "pic0_spurious"
                         ELSE IF madt.pcat /\ v = PIC_BASE + 15 THEN "pic1_spurious"
                         ELSE idt[v]]
    BY <2>2 DEF Routing
  <2>. QED BY <2>1, <2>2 DEF ParseEnd
<1>11. \A d : Routed(d)'
  BY <1>2 DEF Routed, Installed, Late
<1>12. StoredRecs' = StoredRecs
  BY <1>2 DEF StoredRecs
<1>. QED BY <1>2, <1>4, <1>5, <1>6, <1>7, <1>8, <1>9, <1>10, <1>11, <1>12 DEF Routing, Early, Late

\* ioapic_init gives the pins of one I/O APIC their vectors.
LEMMA IoapicInitRouting ==
    ASSUME IInv, SimpleWiring, Routing, IoapicInit
    PROVE  Routing'
<1>1. PICK t : t = [i \in PinNumbers(next) |->
                      [vector |-> ioapics[next].gsi_start + IRQ_BASE + i,
                       masked |-> TRUE, flags |-> {}, destination |-> 0]]
  OBVIOUS
<1>2. /\ phase = "ioapic" /\ next' = next + 1
      /\ phase' = IF next = Len(ioapics) THEN "timer_install" ELSE phase
      /\ pins' = [pins EXCEPT ![next] =
                    [i \in DOMAIN pins[next] |->
                      [vector |-> ioapics[next].gsi_start + IRQ_BASE + i,
                       masked |-> TRUE, flags |-> {}, destination |-> 0]]]
      /\ UNCHANGED <<rsdp, acpi_instance, madt, ioapics, overrides, idt, line>>
  BY DEF IoapicInit, acpiVars
<1>3. next \in Nat \ {0} /\ Len(madt.entries) \in Nat
  BY <1>2, MadtEntries DEF IInv, Processors, Late
<1>4. /\ PinTables /\ Quiet /\ Chips(Len(madt.entries)) /\ Len(ioapics) \in Nat
  BY <1>2 DEF Routing, Late, PinTables
<1>5. ASSUME NEW k \in 1..Len(ioapics)
      PROVE  /\ ioapics[k].gsi_start \in Nat
             /\ pins'[k] = IF k = next THEN t ELSE pins[k]
             /\ pins'[k] \in [PinNumbers(k) -> Pin]
  <2>1. PICK e \in 1..Len(madt.entries) :
               /\ madt.entries[e].type = "ioapic"
               /\ ioapics[k] = [gsi_start |-> madt.entries[e].gsi,
                                gsi_end |-> madt.entries[e].gsi + madt.entries[e].max]
    BY <1>4 DEF Chips
  <2>2. IoapicSound(madt.entries, e)
    BY <1>2, <2>1, MadtEntries DEF SimpleWiring, Late
  <2>3. ioapics[k].gsi_start \in Nat
    BY <2>1, <2>2 DEF IoapicSound
  <2>4. pins = [j \in 1..Len(ioapics) |-> pins[j]] /\ pins[k] \in [PinNumbers(k) -> Pin]
    BY <1>4 DEF PinTables
  <2>5. pins'[k] = IF k = next THEN t ELSE pins[k]
    BY <1>1, <1>2, <2>4
  <2>6. k = next => t \in [PinNumbers(k) -> Pin]
    <3>1. IRQ_BASE \in Nat
      BY ApicAssumption
    <3>2. \A p \in PinNumbers(k) : ioapics[k].gsi_start + IRQ_BASE + p \in Nat
      BY <2>3, <3>1 DEF PinNumbers
    <3>. QED BY <1>1, <3>2 DEF Pin, Flags
  <2>. QED BY <2>3, <2>4, <2>5, <2>6
<1>6. PinTables'
  <2>1. pins' = [k \in 1..Len(ioapics) |-> pins'[k]]
    BY <1>2, <1>4 DEF PinTables
  <2>. QED BY <1>2, <1>4, <1>5, <2>1 DEF PinTables, PinNumbers
<1>7. \A d : phase \notin Unmasked(d) /\ phase \notin Installed(d) /\ phase' \notin Installed(d)
  <2>1. phase' \in {"ioapic", "timer_install"}
    BY <1>2
  <2>. QED BY <1>2, <2>1 DEF Unmasked, Programmed, Installed, Late
<1>8. Quiet'
  <2>1. SUFFICES ASSUME NEW k \in 1..Len(ioapics), NEW i \in PinNumbers(k)
                 PROVE  /\ pins'[k][i].masked
                        /\ (phase' = "ioapic" => k < next') =>
                              pins'[k][i].vector = ioapics[k].gsi_start + IRQ_BASE + i
    BY <1>2 DEF Quiet, PinNumbers
  <2>2. CASE k = next
    BY <1>1, <1>5, <2>1, <2>2
  <2>3. CASE k # next
    <3>1. pins[k][i].masked
      BY <1>4, <1>7, <2>1 DEF Quiet
    <3>2. (phase' = "ioapic" => k < next') => k < next
      <4>1. CASE next = Len(ioapics)
        BY <1>3, <1>4, <2>3, <4>1
      <4>2. CASE next # Len(ioapics)
        BY <1>2, <1>3, <2>3, <4>2
      <4>. QED BY <4>1, <4>2
    <3>3. k < next => pins[k][i].vector = ioapics[k].gsi_start + IRQ_BASE + i
      BY <1>2, <1>4, <2>1 DEF Quiet, Late
    <3>. QED BY <1>5, <2>3, <3>1, <3>2, <3>3
  <2>. QED BY <2>2, <2>3
<1>9. /\ ValidRecs' = ValidRecs /\ Offered("FACP")' = Offered("FACP") /\ StoredRecs' = StoredRecs
      /\ Chips(Len(madt.entries))'
  <2>1. Chips(Len(madt.entries))'
    BY <1>2, <1>4 DEF Chips, Stores
  <2>. QED BY <1>2, <2>1, SameWiring DEF StoredRecs
<1>10. \A d : Routed(d)'
  BY <1>7 DEF Routed
<1>11. phase \in Late /\ phase' \in Late /\ phase' \notin Early /\ phase' # "madt"
  BY <1>2 DEF Late, Early
<1>. QED BY <1>2, <1>6, <1>8, <1>9, <1>10, <1>11 DEF Routing

-----------------------------------------------------------------------------
(* The devices. Of the two, d takes a step and the other one, o, does not. *)

\* Where kmain is in the list of o's steps does not change.
SameStage(o) ==
    /\ phase' \in Installed(o) <=> phase \in Installed(o)
    /\ phase' \in Programmed(o) <=> phase \in Programmed(o)
    /\ phase' \in Unmasked(o) <=> phase \in Unmasked(o)

DeviceStep(d, o) ==
    /\ d \in Device /\ o \in Device /\ Device = {d, o}
    /\ phase \in Late \ {"ioapic"} /\ phase' \in Late \ {"ioapic"}
    /\ UNCHANGED <<rsdp, acpi_instance, madt, ioapics, overrides>>
    /\ SameStage(o)

\* A device whose line is installed keeps it, its vector and its place on the I/O APIC.
LEMMA InstalledWire ==
    ASSUME IInv, SimpleWiring, Routing, NEW d \in Device, phase \in Installed(d),
           NEW g, g = Wiring(d).gsi
    PROVE  /\ d \in Present /\ g \in Nat /\ phase \in Late
           /\ Asked(d).flags = Wiring(d).flags /\ Wiring(d).flags \in Flags
           /\ \/ Wire(d) = {} /\ line[d] = NoLine
              \/ \E k \in 1..Len(ioapics) :
                    /\ get_ioapic(g) = k /\ Wire(d) = {<<k, g>>} /\ g \in PinNumbers(k)
                    /\ line[d] = g /\ g + IRQ_BASE < SPURIOUS /\ idt[g + IRQ_BASE] = d
<1>1. /\ d \in Present /\ (d = "sci" => acpi_instance.fadt # NoTable)
      /\ line[d] = IF Wire(d) = {} THEN NoLine ELSE g
      /\ Wire(d) # {} => idt[g + IRQ_BASE] = d
  BY DEF Routing, Routed
<1>2. phase \in Late
  BY DEF Installed, Late
<1>3. g \in Nat /\ Asked(d).flags = Wiring(d).flags /\ Wiring(d).flags \in Flags
  BY <1>1, <1>2, AskedIsWiring
<1>4. \/ Wire(d) = {}
      \/ \E k \in 1..Len(ioapics) :
            /\ get_ioapic(g) = k /\ Wire(d) = {<<k, g>>} /\ g \in PinNumbers(k)
            /\ g + IRQ_BASE < SPURIOUS
  BY <1>1, <1>2, <1>3, WireIs
<1>. QED BY <1>1, <1>2, <1>3, <1>4

\* Lines and vectors of the two devices differ.
LEMMA OwnLines ==
    ASSUME SimpleWiring, PinTables, NEW d \in Present, NEW o \in Present, Device = {d, o}, d # o
    PROVE  Wiring(d).gsi # Wiring(o).gsi /\ \A w : ~(w \in Wire(d) /\ w \in Wire(o))
<1>1. Present = Device
  BY DEF Present, Device
<1>2. Wiring(d).gsi # Wiring(o).gsi
  BY <1>1 DEF SimpleWiring, Device
<1>. QED BY <1>2 DEF Wire

\* What is left to show of such a step.
LEMMA DeviceRouting ==
    ASSUME SimpleWiring, Routing, NEW d, NEW o, DeviceStep(d, o), PinTables', Quiet',
           idt' \in [Vector -> Device \cup {"none", "lapic_spurious", "pic0_spurious",
                                            "pic1_spurious"}],
           line' \in [Device -> Nat], Routed(d)', Routed(o)'
    PROVE  Routing'
<1>1. /\ ValidRecs' = ValidRecs /\ Offered("FACP")' = Offered("FACP")
      /\ StoredRecs' = StoredRecs /\ StoredRecs = ValidRecs
      /\ acpi_instance'.fadt \in {NoTable} \cup Offered("FACP")
  BY SameWiring DEF DeviceStep, StoredRecs, Routing
<1>2. Chips(Len(madt.entries))'
  BY DEF DeviceStep, Routing, Chips, Stores
<1>3. phase' \in Late /\ phase' \notin Early /\ phase' # "madt"
  BY DEF DeviceStep, Late, Early
<1>4. \A e \in Device : Routed(e)'
  BY DEF DeviceStep
<1>. QED BY <1>1, <1>2, <1>3, <1>4 DEF Routing

\* irq_configure installs the handler at the vector of the device's line.
LEMMA InstallRouting ==
    ASSUME IInv, SimpleWiring, Routing, NEW d, NEW o, d # o, DeviceStep(d, o),
           d = "sci" => acpi_instance.fadt # NoTable,
           NEW here, NEW program, NEW unmask, Install(d, here, program, unmask),
           program \notin Programmed(d), unmask \notin Unmasked(d), here \notin Unmasked(d)
    PROVE  Routing'
<1>1. d \in Present
  BY DEF DeviceStep, Routing, Present, Device
<1>2. PICK g : g = Wiring(d).gsi
  OBVIOUS
<1>3. Asked(d).gsi = g /\ g \in Nat /\ phase \in Late /\ IRQ_BASE \in Nat
  BY <1>1, <1>2, AskedIsWiring, ApicAssumption DEF DeviceStep
<1>4. \/ Wire(d) = {} /\ get_ioapic(g) = 0
      \/ \E k \in 1..Len(ioapics) :
            /\ get_ioapic(g) = k /\ Wire(d) = {<<k, g>>} /\ g \in PinNumbers(k)
            /\ g + IRQ_BASE < SPURIOUS
  BY <1>1, <1>2, <1>3, WireIs
<1>5. /\ pins' = pins /\ ioapics' = ioapics /\ rsdp' = rsdp
      /\ PinTables /\ PinTables' /\ acpi_instance' = acpi_instance
  BY DEF Install, DeviceStep, Routing, PinTables, PinNumbers
<1>6. \A e : Wire(e)' = Wire(e) /\ Wiring(e)' = Wiring(e)
  BY <1>5, SameWire, SameWiring
<1>7. Present' = Present
  BY <1>5, SameWiring
<1>8. /\ line' = [line EXCEPT ![d] = IF Wire(d) = {} THEN NoLine ELSE g]
      /\ idt' = IF Wire(d) = {} THEN idt ELSE [idt EXCEPT ![g + IRQ_BASE] = d]
      /\ phase' = IF Wire(d) = {} THEN unmask ELSE program
      /\ phase = here
  <2>1. CASE get_ioapic(g) = 0
    <3>1. Wire(d) = {}
      BY <1>4, <2>1
    <3>. QED BY <1>3, <2>1, <3>1 DEF Install
  <2>2. CASE get_ioapic(g) # 0
    <3>1. Wire(d) # {}
      BY <1>4, <2>2
    <3>. QED BY <1>3, <2>2, <3>1 DEF Install, idt_install
  <2>. QED BY <2>1, <2>2
<1>9. idt \in [Vector -> Device \cup {"none", "lapic_spurious", "pic0_spurious",
                                     "pic1_spurious"}]
      /\ line \in [Device -> Nat] /\ d \in Device /\ o \in Device
  BY DEF Routing, DeviceStep
<1>10. Wire(d) # {} => g + IRQ_BASE \in Vector
  BY <1>3, <1>4 DEF Vector, SPURIOUS
<1>11. Quiet'
  <2>1. ASSUME NEW e \in Present, phase \in Unmasked(e) PROVE phase' \in Unmasked(e)
    <3>1. e # d
      BY <1>8, <2>1
    <3>2. e = o
      BY <3>1 DEF DeviceStep, Present, Device
    <3>. QED BY <2>1, <3>2 DEF DeviceStep, SameStage
  <2>2. phase \in Late /\ phase # "ioapic"
    BY DEF DeviceStep
  <2>3. ASSUME NEW k \in 1..Len(ioapics), NEW n \in PinNumbers(k)
        PROVE  /\ ~pins[k][n].masked =>
                     \E e \in Present : phase' \in Unmasked(e) /\ <<k, n>> \in Wire(e)
               /\ pins[k][n].vector = ioapics[k].gsi_start + IRQ_BASE + n
    BY <2>1, <2>2, <2>3 DEF Routing, Quiet
  <2>. QED BY <1>5, <1>6, <1>7, <2>3 DEF Quiet, PinNumbers
<1>12. Routed(d)'
  <2>1. line'[d] = IF Wire(d) = {} THEN NoLine ELSE g
    BY <1>8, <1>9
  <2>2. Wire(d) # {} => idt'[g + IRQ_BASE] = d
    BY <1>8, <1>9, <1>10
  <2>3. Wire(d) # {} => phase' \notin Programmed(d) /\ phase' \notin Unmasked(d)
    BY <1>8 DEF Unmasked, Programmed
  <2>. QED BY <1>1, <1>2, <1>5, <1>6, <1>7, <2>1, <2>2, <2>3 DEF Routed, Unmasked
<1>13. Routed(o)'
  <2>. SUFFICES ASSUME phase' \in Installed(o) PROVE Routed(o)'
    BY DEF Routed
  <2>1. phase \in Installed(o) /\ SameStage(o)
    BY DEF DeviceStep, SameStage
  <2>2. PICK h : h = Wiring(o).gsi
    OBVIOUS
  <2>3. o \in Present /\ h \in Nat
    BY <1>9, <2>1, <2>2, InstalledWire
  <2>4. g # h
    BY <1>1, <1>2, <1>5, <2>2, <2>3, OwnLines DEF DeviceStep
  <2>5. line'[o] = line[o] /\ idt'[h + IRQ_BASE] = idt[h + IRQ_BASE]
    <3>1. g + IRQ_BASE # h + IRQ_BASE
      BY <1>3, <2>3, <2>4
    <3>. QED BY <1>8, <1>9, <3>1
  <2>6. /\ (o = "sci" => acpi_instance.fadt # NoTable)
        /\ line[o] = IF Wire(o) = {} THEN NoLine ELSE h
        /\ Wire(o) # {} => idt[h + IRQ_BASE] = o
        /\ \A w \in Wire(o) :
             /\ phase \in Programmed(o) => pins[w[1]][w[2]].flags = Wiring(o).flags
             /\ phase \in Unmasked(o) => ~pins[w[1]][w[2]].masked
    BY <1>9, <2>1, <2>2 DEF Routing, Routed
  <2>. QED BY <1>5, <1>6, <1>7, <2>1, <2>2, <2>3, <2>5, <2>6 DEF Routed, SameStage
<1>14. line' \in [Device -> Nat]
  BY <1>3, <1>8, <1>9 DEF NoLine
<1>15. idt' \in [Vector -> Device \cup {"none", "lapic_spurious", "pic0_spurious",
                                       "pic1_spurious"}]
  BY <1>8, <1>9
<1>. QED BY <1>5, <1>11, <1>12, <1>13, <1>14, <1>15, DeviceRouting

\* The number that stands for no line belongs to no I/O APIC.
LEMMA NoPin ==
    ASSUME IInv, SimpleWiring, Routing, phase \in Late
    PROVE  get_ioapic(NoLine) = 0
<1>1. ASSUME NEW k \in 1..Len(ioapics)
      PROVE  NoLine \notin ioapics[k].gsi_start..ioapics[k].gsi_end
  <2>1. PICK i \in 1..Len(madt.entries) :
               /\ madt.entries[i].type = "ioapic"
               /\ ioapics[k] = [gsi_start |-> madt.entries[i].gsi,
                                gsi_end |-> madt.entries[i].gsi + madt.entries[i].max]
    BY DEF Routing, Chips
  <2>2. IoapicSound(madt.entries, i)
    BY <2>1, MadtEntries DEF SimpleWiring
  <2>3. ioapics[k].gsi_start = madt.entries[i].gsi
        /\ ioapics[k].gsi_end = madt.entries[i].gsi + madt.entries[i].max
    BY <2>1
  <2>4. IRQ_BASE \in Nat
    BY ApicAssumption
  <2>. QED BY <2>2, <2>3, <2>4 DEF IoapicSound, NoLine, SPURIOUS
<1>. QED BY <1>1 DEF get_ioapic

\* irq_configure and irq_unmask write the entry of the device's pin, if it has one.
LEMMA WriteRouting ==
    ASSUME IInv, SimpleWiring, Routing, NEW d, NEW o, d # o, DeviceStep(d, o),
           phase \in Installed(d), phase' \in Installed(d), UNCHANGED <<idt, line>>,
           NEW field \in {"flags", "masked"}, NEW v, field = "flags" => v = Asked(d).flags,
           field = "masked" => v = FALSE, pins' = Updated(line[d], field, v),
           phase' \in Programmed(d) => phase \in Programmed(d) \/ field = "flags",
           phase' \in Unmasked(d) <=> phase \in Unmasked(d) \/ field = "masked"
    PROVE  Routing'
<1>1. /\ d \in Device /\ o \in Device /\ PinTables /\ Quiet
      /\ ioapics' = ioapics /\ rsdp' = rsdp /\ acpi_instance' = acpi_instance
  BY DEF DeviceStep, Routing
<1>2. PICK g : g = Wiring(d).gsi
  OBVIOUS
<1>3. /\ d \in Present /\ g \in Nat /\ phase \in Late
      /\ Asked(d).flags = Wiring(d).flags /\ Wiring(d).flags \in Flags
      /\ \/ Wire(d) = {} /\ line[d] = NoLine
         \/ \E k \in 1..Len(ioapics) :
               /\ get_ioapic(g) = k /\ Wire(d) = {<<k, g>>} /\ g \in PinNumbers(k)
               /\ line[d] = g /\ g + IRQ_BASE < SPURIOUS /\ idt[g + IRQ_BASE] = d
  BY <1>1, <1>2, InstalledWire
<1>4. v = IF field = "flags" THEN Wiring(d).flags ELSE FALSE
  BY <1>3
<1>5. /\ pins' = [j \in 1..Len(ioapics) |-> pins'[j]]
      /\ \A j \in 1..Len(ioapics) :
            /\ pins'[j] \in [PinNumbers(j) -> Pin]
            /\ \A n \in PinNumbers(j) :
                  /\ pins'[j][n].vector = pins[j][n].vector
                  /\ pins'[j][n].flags = IF <<j, n>> \in Wire(d) /\ field = "flags" THEN v
                                         ELSE pins[j][n].flags
                  /\ pins'[j][n].masked = IF <<j, n>> \in Wire(d) /\ field = "masked" THEN v
                                          ELSE pins[j][n].masked
  <2>1. CASE Wire(d) = {} /\ line[d] = NoLine
    <3>1. get_ioapic(NoLine) = 0
      BY <1>1, <1>3, NoPin
    <3>2. pins' = pins
      BY <2>1, <3>1 DEF Updated
    <3>. QED BY <1>1, <2>1, <3>2 DEF PinTables
  <2>2. CASE \E k \in 1..Len(ioapics) :
               /\ get_ioapic(g) = k /\ Wire(d) = {<<k, g>>} /\ g \in PinNumbers(k)
               /\ line[d] = g /\ g + IRQ_BASE < SPURIOUS /\ idt[g + IRQ_BASE] = d
    <3>1. PICK k \in 1..Len(ioapics) :
               /\ get_ioapic(g) = k /\ Wire(d) = {<<k, g>>} /\ g \in PinNumbers(k)
               /\ line[d] = g
      BY <2>2
    <3>2. /\ pins' = Updated(g, field, v) /\ field \in {"flags", "masked"}
          /\ (field = "flags" => v \in Flags) /\ (field = "masked" => v = FALSE)
      BY <1>3, <1>4, <3>1
    <3>3. PICK p : p = pins' /\ p = Updated(g, field, v)
      BY <3>2
    <3>4. Writes(p, k, g, field, v)
      <4>1. PinTables /\ k \in 1..Len(ioapics) /\ g \in PinNumbers(k) /\ get_ioapic(g) = k
        BY <1>1, <3>1
      <4>. QED BY <4>1, <3>2, <3>3, UpdatedPins
    <3>5. \A j, n : <<j, n>> \in Wire(d) <=> j = k /\ n = g
      BY <3>1
    <3>. QED BY <3>3, <3>4, <3>5 DEF Writes
  <2>. QED BY <1>3, <2>1, <2>2
<1>6. PinTables'
  BY <1>1, <1>5 DEF PinTables, PinNumbers, DeviceStep
<1>7. \A e : Wire(e)' = Wire(e) /\ Wiring(e)' = Wiring(e)
  BY <1>1, <1>6, SameWire, SameWiring
<1>8. Present' = Present
  BY <1>1, SameWiring
<1>9. ASSUME NEW e \in Device, NEW w \in Wire(e)
      PROVE  /\ w[1] \in 1..Len(ioapics) /\ w[2] \in PinNumbers(w[1]) /\ w = <<w[1], w[2]>>
  <2>1. /\ Len(pins) = Len(ioapics)
        /\ \A k \in 1..Len(ioapics) : DOMAIN pins[k] = PinNumbers(k)
    BY <1>1 DEF PinTables
  <2>. QED BY <1>9, <2>1 DEF Wire
<1>10. Quiet'
  <2>1. ASSUME NEW e \in Present, phase \in Unmasked(e) PROVE phase' \in Unmasked(e)
    <3>1. e = d \/ e = o
      BY DEF DeviceStep, Present, Device
    <3>. QED BY <2>1, <3>1 DEF DeviceStep, SameStage
  <2>2. phase \in Late /\ phase # "ioapic"
    BY DEF DeviceStep
  <2>3. ASSUME NEW k \in 1..Len(ioapics), NEW n \in PinNumbers(k)
        PROVE  /\ ~pins'[k][n].masked =>
                     \E e \in Present : phase' \in Unmasked(e) /\ <<k, n>> \in Wire(e)
               /\ pins'[k][n].vector = ioapics[k].gsi_start + IRQ_BASE + n
    <3>1. pins'[k][n].vector = ioapics[k].gsi_start + IRQ_BASE + n
      BY <1>1, <1>5, <2>2, <2>3 DEF Quiet
    <3>2. CASE <<k, n>> \in Wire(d) /\ field = "masked"
      <4>1. phase' \in Unmasked(d)
        BY <3>2
      <4>. QED BY <1>3, <3>1, <3>2, <4>1
    <3>3. CASE ~(<<k, n>> \in Wire(d) /\ field = "masked")
      <4>1. pins'[k][n].masked = pins[k][n].masked
        BY <1>5, <2>3, <3>3
      <4>2. ~pins[k][n].masked => \E e \in Present : phase \in Unmasked(e) /\ <<k, n>> \in Wire(e)
        BY <1>1, <2>3 DEF Quiet
      <4>. QED BY <2>1, <3>1, <4>1, <4>2
    <3>. QED BY <3>2, <3>3
  <2>. QED BY <1>1, <1>7, <1>8, <2>3 DEF Quiet, PinNumbers
<1>11. /\ phase \in Installed(d) => Routed(d)
       /\ Routed(o)
  BY <1>1 DEF Routing
<1>12. Routed(d)'
  <2>1. /\ d \in Present /\ (d = "sci" => acpi_instance.fadt # NoTable)
        /\ line[d] = IF Wire(d) = {} THEN NoLine ELSE g
        /\ Wire(d) # {} => idt[g + IRQ_BASE] = d
    BY <1>2, <1>11 DEF Routed
  <2>2. ASSUME NEW w \in Wire(d)
        PROVE  /\ phase' \in Programmed(d) => pins'[w[1]][w[2]].flags = Wiring(d).flags
               /\ phase' \in Unmasked(d) => ~pins'[w[1]][w[2]].masked
    <3>1. /\ w[1] \in 1..Len(ioapics) /\ w[2] \in PinNumbers(w[1]) /\ <<w[1], w[2]>> \in Wire(d)
      BY <1>1, <1>9, <2>2
    <3>2. /\ phase \in Programmed(d) => pins[w[1]][w[2]].flags = Wiring(d).flags
          /\ phase \in Unmasked(d) => ~pins[w[1]][w[2]].masked
      BY <1>11, <2>2 DEF Routed
    <3>3. pins'[w[1]][w[2]].flags = IF field = "flags" THEN Wiring(d).flags
                                    ELSE pins[w[1]][w[2]].flags
      BY <1>4, <1>5, <3>1
    <3>4. pins'[w[1]][w[2]].masked = IF field = "masked" THEN FALSE
                                     ELSE pins[w[1]][w[2]].masked
      BY <1>4, <1>5, <3>1
    <3>5. phase' \in Programmed(d) => pins'[w[1]][w[2]].flags = Wiring(d).flags
      BY <3>2, <3>3
    <3>6. phase' \in Unmasked(d) => ~pins'[w[1]][w[2]].masked
      BY <3>2, <3>4
    <3>. QED BY <3>5, <3>6
  <2>. QED BY <1>1, <1>2, <1>7, <1>8, <2>1, <2>2 DEF Routed
<1>13. Routed(o)'
  <2>. SUFFICES ASSUME phase' \in Installed(o) PROVE Routed(o)'
    BY DEF Routed
  <2>1. phase \in Installed(o) /\ SameStage(o)
    BY DEF DeviceStep, SameStage
  <2>2. /\ o \in Present /\ (o = "sci" => acpi_instance.fadt # NoTable)
        /\ line[o] = IF Wire(o) = {} THEN NoLine ELSE Wiring(o).gsi
        /\ Wire(o) # {} => idt[Wiring(o).gsi + IRQ_BASE] = o
    BY <1>11, <2>1 DEF Routed
  <2>3. ASSUME NEW w \in Wire(o)
        PROVE  /\ phase' \in Programmed(o) => pins'[w[1]][w[2]].flags = Wiring(o).flags
               /\ phase' \in Unmasked(o) => ~pins'[w[1]][w[2]].masked
    <3>1. /\ w[1] \in 1..Len(ioapics) /\ w[2] \in PinNumbers(w[1]) /\ w = <<w[1], w[2]>>
      BY <1>1, <1>9, <2>3
    <3>2. w \notin Wire(d)
      BY <1>1, <1>3, <2>2, <2>3, OwnLines DEF DeviceStep
    <3>3. /\ pins'[w[1]][w[2]].flags = pins[w[1]][w[2]].flags
          /\ pins'[w[1]][w[2]].masked = pins[w[1]][w[2]].masked
      BY <1>5, <3>1, <3>2
    <3>4. /\ phase \in Programmed(o) => pins[w[1]][w[2]].flags = Wiring(o).flags
          /\ phase \in Unmasked(o) => ~pins[w[1]][w[2]].masked
      BY <1>11, <2>1, <2>3 DEF Routed
    <3>. QED BY <2>1, <3>3, <3>4 DEF SameStage
  <2>. QED BY <1>1, <1>7, <1>8, <2>2, <2>3 DEF Routed
<1>14. /\ line' \in [Device -> Nat]
       /\ idt' \in [Vector -> Device \cup {"none", "lapic_spurious", "pic0_spurious",
                                           "pic1_spurious"}]
  BY DEF Routing
<1>. QED BY <1>6, <1>10, <1>12, <1>13, <1>14, DeviceRouting

\* Without a FADT kmain stops before it has asked for the line of the SCI.
LEMMA NoFadtRouting ==
    ASSUME IInv, SimpleWiring, Routing, NoFadt
    PROVE  Routing'
<1>1. /\ phase = "sci_install" /\ phase' = "faulted"
      /\ UNCHANGED <<rsdp, acpi_instance, madt, ioapics, overrides, pins, idt, line>>
  BY DEF NoFadt, acpiVars
<1>2. SameStage("timer") /\ SameStage("sci") /\ phase' \notin Installed("sci")
  BY <1>1 DEF SameStage, Unmasked, Programmed, Installed, Late
<1>3. DeviceStep("sci", "timer")
  BY <1>1, <1>2 DEF DeviceStep, Device, Late
<1>4. PinTables /\ Quiet /\ PinTables' /\ Routed("timer")
  BY <1>1 DEF Routing, PinTables, PinNumbers, Device
<1>5. \A e : Wire(e)' = Wire(e) /\ Wiring(e)' = Wiring(e)
  BY <1>1, <1>4, SameWire, SameWiring
<1>6. Present' = Present
  BY <1>1, SameWiring
<1>7. Routed("timer")'
  BY <1>1, <1>2, <1>4, <1>5, <1>6 DEF Routed, SameStage
<1>8. Routed("sci")'
  BY <1>2 DEF Routed
<1>9. Quiet'
  <2>1. \A e \in Present : phase' \in Unmasked(e) <=> phase \in Unmasked(e)
    BY <1>2 DEF Present, SameStage
  <2>2. phase \in Late /\ phase # "ioapic" /\ phase' # "ioapic"
    BY <1>1 DEF Late
  <2>. QED BY <1>1, <1>4, <1>5, <1>6, <2>1, <2>2 DEF Quiet, PinNumbers
<1>10. /\ line' \in [Device -> Nat]
       /\ idt' \in [Vector -> Device \cup {"none", "lapic_spurious", "pic0_spurious",
                                           "pic1_spurious"}]
  BY <1>1 DEF Routing
<1>. QED BY <1>3, <1>4, <1>7, <1>8, <1>9, <1>10, DeviceRouting

\* Later, only the vector of spurious interrupts is written, which belongs to no line.
LEMMA SpuriousRouting ==
    ASSUME IInv, SimpleWiring, Routing,
           UNCHANGED <<rsdp, acpi_instance, phase, madt, next, ioapics, overrides, pins, line>>,
           NEW x \in {"none", "lapic_spurious"},
           idt' = idt \/ idt' = [idt EXCEPT ![SPURIOUS] = x]
    PROVE  Routing'
<1>1. PinTables /\ Quiet /\ PinTables'
  BY DEF Routing, PinTables, PinNumbers
<1>2. \A e : Wire(e)' = Wire(e) /\ Wiring(e)' = Wiring(e)
  BY <1>1, SameWire, SameWiring
<1>3. /\ Present' = Present /\ ValidRecs' = ValidRecs /\ Offered("FACP")' = Offered("FACP")
      /\ StoredRecs' = StoredRecs
  BY SameWiring DEF StoredRecs
<1>4. Quiet'
  BY <1>1, <1>2, <1>3 DEF Quiet, PinNumbers
<1>5. /\ line' \in [Device -> Nat]
      /\ idt' \in [Vector -> Device \cup {"none", "lapic_spurious", "pic0_spurious",
                                          "pic1_spurious"}]
  BY DEF Routing
<1>6. ASSUME NEW d \in Device, phase \in Installed(d) PROVE Routed(d)'
  <2>1. Routed(d)
    BY <1>6 DEF Routing
  <2>2. PICK g : g = Wiring(d).gsi
    OBVIOUS
  <2>3. Wire(d) # {} => idt'[g + IRQ_BASE] = d
    <3>1. Wire(d) # {} => g + IRQ_BASE < SPURIOUS /\ idt[g + IRQ_BASE] = d /\ g \in Nat
      BY <1>6, <2>2, InstalledWire
    <3>2. IRQ_BASE \in Nat /\ idt \in [Vector -> Device \cup {"none", "lapic_spurious",
                                                              "pic0_spurious", "pic1_spurious"}]
      BY ApicAssumption DEF Routing
    <3>3. Wire(d) # {} => g + IRQ_BASE \in Vector /\ g + IRQ_BASE # SPURIOUS
      <4>. SUFFICES ASSUME Wire(d) # {}
                    PROVE  g + IRQ_BASE \in Vector /\ g + IRQ_BASE # SPURIOUS
        OBVIOUS
      <4>1. g \in Nat /\ IRQ_BASE \in Nat /\ g + IRQ_BASE < 255
        BY <3>1, <3>2 DEF SPURIOUS
      <4>. QED BY <4>1 DEF Vector, SPURIOUS
    <3>. QED BY <3>1, <3>2, <3>3
  <2>. QED BY <1>2, <1>3, <1>6, <2>1, <2>2, <2>3 DEF Routed
<1>7. \A d \in Device : Routed(d)'
  <2>. TAKE d \in Device
  <2>1. CASE phase \in Installed(d)
    BY <1>6, <2>1
  <2>2. CASE phase \notin Installed(d)
    BY <2>2 DEF Routed
  <2>. QED BY <2>1, <2>2
<1>8. /\ phase \in Early => ioapics' = <<>> /\ overrides' = <<>>
      /\ phase = "madt" => Chips(next - 1)' /\ StoredRecs' = Recs(next - 1)'
      /\ phase \in Late => Chips(Len(madt.entries))' /\ StoredRecs' = ValidRecs'
  <2>1. phase \in Early => ioapics' = <<>> /\ overrides' = <<>>
    BY DEF Routing
  <2>2. phase = "madt" => Chips(next - 1)' /\ StoredRecs' = Recs(next - 1)'
    BY <1>3 DEF Routing, Chips, Stores, Recs
  <2>3. phase \in Late => Chips(Len(madt.entries))' /\ StoredRecs' = ValidRecs'
    BY <1>3 DEF Routing, Chips, Stores
  <2>. QED BY <2>1, <2>2, <2>3
<1>9. acpi_instance'.fadt \in {NoTable} \cup Offered("FACP")
  BY DEF Routing
<1>. QED BY <1>1, <1>3, <1>4, <1>5, <1>7, <1>8, <1>9 DEF Routing

\* The steps of kmain.
LEMMA ApicRouting ==
    ASSUME IInv, SimpleWiring, Routing, ApicNext
    PROVE  Routing'
<1>. USE DEF Device, Late, acpiVars
<1>1. CASE AcpiNext /\ UNCHANGED <<madt, next, cpus, ioapics, overrides, pins, idt, line>>
  BY <1>1, AcpiRouting
<1>2. CASE FindMadt \/ NoArrays
  BY <1>2, FindMadtRouting
<1>3. CASE ParseEntry
  BY <1>3, ParseEntryRouting
<1>4. CASE ParseEnd
  BY <1>4, ParseEndRouting
<1>5. CASE IoapicInit
  BY <1>5, IoapicInitRouting
<1>6. CASE Install("timer", "timer_install", "timer_program", "timer_unmask")
  <2>1. DeviceStep("timer", "sci")
    BY <1>6 DEF Install, DeviceStep, SameStage, Unmasked, Programmed, Installed
  <2>2. /\ "timer_program" \notin Programmed("timer") /\ "timer_unmask" \notin Unmasked("timer")
        /\ "timer_install" \notin Unmasked("timer")
    BY DEF Unmasked, Programmed, Installed
  <2>. QED BY <1>6, <2>1, <2>2, InstallRouting
<1>7. CASE Program("timer", "timer_program", "timer_unmask")
  <2>1. DeviceStep("timer", "sci")
    BY <1>7 DEF Program, DeviceStep, SameStage, Unmasked, Programmed, Installed
  <2>2. /\ phase \in Installed("timer") /\ phase' \in Installed("timer")
        /\ phase \notin Unmasked("timer") /\ phase' \notin Unmasked("timer")
    BY <1>7 DEF Program, Unmasked, Programmed, Installed
  <2>3. UNCHANGED <<idt, line>> /\ pins' = Updated(line["timer"], "flags", Asked("timer").flags)
    BY <1>7 DEF Program
  <2>. QED BY <2>1, <2>2, <2>3, WriteRouting
<1>8. CASE Unmask("timer", "timer_unmask", "sci_install")
  <2>1. DeviceStep("timer", "sci")
    BY <1>8 DEF Unmask, DeviceStep, SameStage, Unmasked, Programmed, Installed
  <2>2. /\ phase \in Installed("timer") /\ phase' \in Installed("timer")
        /\ phase \in Programmed("timer") /\ phase' \in Unmasked("timer")
    BY <1>8 DEF Unmask, Unmasked, Programmed, Installed
  <2>3. UNCHANGED <<idt, line>> /\ pins' = Updated(line["timer"], "masked", FALSE)
    BY <1>8 DEF Unmask
  <2>. QED BY <2>1, <2>2, <2>3, WriteRouting
<1>9. CASE NoFadt
  BY <1>9, NoFadtRouting
<1>10. CASE /\ acpi_instance.fadt # NoTable
            /\ Install("sci", "sci_install", "sci_program", "sci_unmask")
  <2>1. DeviceStep("sci", "timer")
    BY <1>10 DEF Install, DeviceStep, SameStage, Unmasked, Programmed, Installed
  <2>2. /\ "sci_program" \notin Programmed("sci") /\ "sci_unmask" \notin Unmasked("sci")
        /\ "sci_install" \notin Unmasked("sci")
    BY DEF Unmasked, Programmed, Installed
  <2>. QED BY <1>10, <2>1, <2>2, InstallRouting
<1>11. CASE Program("sci", "sci_program", "sci_unmask")
  <2>1. DeviceStep("sci", "timer")
    BY <1>11 DEF Program, DeviceStep, SameStage, Unmasked, Programmed, Installed
  <2>2. /\ phase \in Installed("sci") /\ phase' \in Installed("sci")
        /\ phase \notin Unmasked("sci") /\ phase' \notin Unmasked("sci")
    BY <1>11 DEF Program, Unmasked, Programmed, Installed
  <2>3. UNCHANGED <<idt, line>> /\ pins' = Updated(line["sci"], "flags", Asked("sci").flags)
    BY <1>11 DEF Program
  <2>. QED BY <2>1, <2>2, <2>3, WriteRouting
<1>12. CASE Unmask("sci", "sci_unmask", "ready")
  <2>1. DeviceStep("sci", "timer")
    BY <1>12 DEF Unmask, DeviceStep, SameStage, Unmasked, Programmed, Installed
  <2>2. /\ phase \in Installed("sci") /\ phase' \in Installed("sci")
        /\ phase \in Programmed("sci") /\ phase' \in Unmasked("sci")
    BY <1>12 DEF Unmask, Unmasked, Programmed, Installed
  <2>3. UNCHANGED <<idt, line>> /\ pins' = Updated(line["sci"], "masked", FALSE)
    BY <1>12 DEF Unmask
  <2>. QED BY <2>1, <2>2, <2>3, WriteRouting
<1>. QED
  BY <1>1, <1>2, <1>3, <1>4, <1>5, <1>6, <1>7, <1>8, <1>9, <1>10, <1>11, <1>12 DEF ApicNext

\* No step of smp_boot and of the processors it starts changes a line.
LEMMA SmpStepRouting ==
    ASSUME IInv, SimpleWiring, Routing,
           Prepare \/ SendInit \/ Sleep \/ InitDelivered \/ SendSipi \/ Wait \/ Answered
           \/ UnmapLow \/ (\E c \in ApicIds : ApStep(c)) \/ UNCHANGED vars
    PROVE  Routing'
<1>1. UNCHANGED <<rsdp, acpi_instance, phase, madt, next, ioapics, overrides, pins, line>>
  BY DEF Prepare, SendInit, Sleep, InitDelivered, SendSipi, Wait, Answered, UnmapLow,
         ApStep, Trampoline, AllocStack, Configure, GdtFails, ClearIdt, FillIdt, Answer,
         vars, apicVars, acpiVars
<1>2. \/ idt' = idt \/ idt' = [idt EXCEPT ![SPURIOUS] = "none"]
      \/ idt' = [idt EXCEPT ![SPURIOUS] = "lapic_spurious"]
  BY DEF Prepare, SendInit, Sleep, InitDelivered, SendSipi, Wait, Answered, UnmapLow,
         ApStep, Trampoline, AllocStack, Configure, GdtFails, ClearIdt, FillIdt, Answer,
         vars, apicVars, idt_install
<1>. QED BY <1>1, <1>2, SpuriousRouting

\* So the lines are routed.
LEMMA RoutingIsEnough ==
    ASSUME IInv, SimpleWiring, Routing
    PROVE  LinesRouted
<1>1. /\ PinTables /\ Quiet
      /\ Len(pins) = Len(ioapics)
      /\ \A k \in 1..Len(ioapics) : DOMAIN pins[k] = PinNumbers(k)
  BY DEF Routing, PinTables
<1>2. \A d \in Device : d \in Enabled <=> phase \in Unmasked(d)
  BY DEF Enabled, Device, Unmasked, Programmed, Installed, Late
<1>3. ASSUME NEW d \in Enabled, NEW w \in Wire(d)
      PROVE  /\ pins[w[1]][w[2]].flags = Wiring(d).flags
             /\ ~pins[w[1]][w[2]].masked /\ idt[pins[w[1]][w[2]].vector] = d
             /\ pins[w[1]][w[2]].destination = 0
  <2>1. d \in Device /\ phase \in Unmasked(d) /\ phase \in Programmed(d) /\ phase \in Installed(d)
    BY <1>2 DEF Enabled, Unmasked, Programmed
  <2>2. PICK g : g = Wiring(d).gsi
    OBVIOUS
  <2>3. PICK k \in 1..Len(ioapics) :
               /\ get_ioapic(g) = k /\ Wire(d) = {<<k, g>>} /\ g \in PinNumbers(k)
               /\ idt[g + IRQ_BASE] = d
    BY <1>3, <2>1, <2>2, InstalledWire
  <2>4. w[1] = k /\ w[2] = g
    BY <1>3, <2>3
  <2>5. pins[k][g].vector = ioapics[k].gsi_start + IRQ_BASE + g
    <3>1. phase \in Late /\ phase # "ioapic"
      BY <2>1 DEF Installed, Late
    <3>. QED BY <1>1, <2>3, <3>1 DEF Quiet
  <2>6. d \in Present /\ g \in Nat /\ phase \in Late
    BY <2>1, <2>2, InstalledWire
  <2>7. ioapics[k].gsi_start = 0
    <3>1. k # 0
      OBVIOUS
    <3>. QED BY <2>2, <2>3, <2>6, <3>1, WireIs
  <2>8. ioapics[k].gsi_start + IRQ_BASE + g = g + IRQ_BASE
    <3>1. IRQ_BASE \in Nat
      BY ApicAssumption
    <3>. QED BY <2>6, <2>7, <3>1
  <2>9. pins[w[1]][w[2]].flags = Wiring(d).flags /\ ~pins[w[1]][w[2]].masked
    BY <1>3, <2>1 DEF Routing, Routed
  <2>10. pins[k][g].destination = 0
    <3>1. pins[k] \in [PinNumbers(k) -> Pin]
      BY <1>1, <2>3 DEF PinTables
    <3>2. pins[k][g] \in Pin
      BY <2>3, <3>1
    <3>. QED BY <3>2 DEF Pin
  <2>. QED BY <2>3, <2>4, <2>5, <2>8, <2>9, <2>10
<1>4. \A d \in Enabled : Wire(d) # {} => Runs(d)
  BY <1>3 DEF Runs
<1>5. ASSUME NEW k \in 1..Len(pins), NEW n \in DOMAIN pins[k], ~pins[k][n].masked
      PROVE  \E d \in Enabled : <<k, n>> \in Wire(d)
  <2>1. PICK d \in Present : phase \in Unmasked(d) /\ <<k, n>> \in Wire(d)
    BY <1>1, <1>5 DEF Quiet
  <2>2. d \in Device
    BY DEF Present, Device
  <2>. QED BY <1>2, <2>1, <2>2
<1>. QED BY <1>3, <1>4, <1>5 DEF LinesRouted

\* The firmware's root pointer is never written.
LEMMA RsdpStays == [Next]_vars => rsdp' = rsdp
BY DEF Next, BspStep, Prepare, SendInit, Sleep, InitDelivered, SendSipi, Wait, Answered,
       UnmapLow, ApStep, Trampoline, AllocStack, Configure, GdtFails, ClearIdt, FillIdt, Answer,
       ApicNext, AcpiNext, AcpiStart, ShowTable, ShowEnd, FindMadt, NoArrays, ParseEntry,
       ParseEnd, IoapicInit, Install, Program, Unmask, NoFadt, vars, apicVars, acpiVars

\* The interrupts of timer and SCI reach their handlers, with the firmware's
\* trigger mode and polarity, and no other line is open (LinesRouted), on every
\* machine with simple wiring: any MADT, any entries in any order, any number
\* of I/O APICs. irq_configure takes the number of a line for that of a pin,
\* so that without this hypothesis it is false.
THEOREM LinesAreRouted == Spec /\ SimpleWiring => []LinesRouted
<1>. DEFINE Inv == SimpleWiring /\ Routing
<1>1. Init /\ SimpleWiring => Inv
  BY InitRouting
<1>2. IInv /\ Inv /\ [Next]_vars => Inv'
  <2>. SUFFICES ASSUME IInv, Inv, [Next]_vars PROVE Inv'
    OBVIOUS
  <2>1. CASE ApicNext
    <3>1. Routing'
      BY <2>1, ApicRouting
    <3>2. rsdp' = rsdp
      BY <2>1, RsdpStays
    <3>. QED BY <3>1, <3>2, SameWiring
  <2>2. CASE Prepare \/ SendInit \/ Sleep \/ InitDelivered \/ SendSipi \/ Wait \/ Answered
             \/ UnmapLow \/ (\E c \in ApicIds : ApStep(c)) \/ UNCHANGED vars
    <3>1. Routing'
      BY <2>2, SmpStepRouting
    <3>2. rsdp' = rsdp
      BY RsdpStays
    <3>. QED BY <3>1, <3>2, SameWiring
  <2>. QED BY <2>1, <2>2 DEF Next, BspStep
<1>3. IInv /\ Inv => LinesRouted
  BY RoutingIsEnough
<1>. HIDE DEF Inv
<1>4. Spec /\ SimpleWiring => []Inv
  BY <1>1, <1>2, Inductive, PTL DEF Spec
<1>. QED BY <1>3, <1>4, Inductive, PTL

=============================================================================
