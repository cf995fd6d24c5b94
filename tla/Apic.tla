-------------------------------- MODULE Apic --------------------------------
(***************************************************************************)
(* Interrupt lines: from the MADT, the firmware's table of processors,     *)
(* I/O APICs and line overrides, to redirection entries and handlers.      *)
(* apic_init, create_cpu, create_ioapic and create_override of             *)
(* src/kernel/src/apic/apic.c; ioapic_init, get_ioapic, irq_configure and  *)
(* irq_unmask of apic/ioapic.c; lapic_configure; idt_install; and their    *)
(* two users, pit_init for the timer and acpi_install_irq for the SCI.     *)
(*                                                                         *)
(* The boot processor runs all of it, in the order kmain gives; the MADT   *)
(* and the line of the SCI come from the tables that Acpi has found. A     *)
(* line of an I/O APIC is one of its pins; global line g is the pin        *)
(* g - gsi_start of the I/O APIC whose range it is in (hardware). The      *)
(* flags of a line are a set of "LEVEL" and "ACTIVE_LOW".                  *)
(***************************************************************************)
EXTENDS Acpi

CONSTANT IRQ_BASE   \* vector of global line 0

\* The constants of apic.h, and 0xFF, which irq_configure returns for an error.
PIC_BASE == IRQ_BASE - 16
SPURIOUS == 255
NoLine == 255
Vector == 0..255

ASSUME ApicAssumption ==
    /\ IRQ_BASE \in 16..255
    /\ \A r \in Rsdps : \A i \in 1..Len(TablesOf(r)) :
          TablesOf(r)[i].signature = "FACP" => TablesOf(r)[i].sci_irq \in 0..254

VARIABLES
    madt, next,     \* the table, and the entry the loop of apic_init is at
    cpus,           \* the APIC numbers of the processors that may be started
    ioapics,        \* gsi_start and gsi_end of each I/O APIC
    overrides,      \* source, destination and flags of each override
    pins,           \* pins[i][n]: redirection entry of pin n of I/O APIC i
    idt,            \* the handler of each vector, "none" if not present
    line            \* line[d]: what irq_configure returned for device d

apicVars == <<acpiVars, phase, madt, next, cpus, ioapics, overrides, pins, idt, line>>

Device == {"timer", "sci"}

ApicInit ==
    /\ AcpiInit
    /\ madt = NoTable
    /\ next = 1
    /\ cpus = <<>> /\ ioapics = <<>> /\ overrides = <<>>
    /\ pins = <<>>
    /\ idt = [v \in Vector |-> "none"]
    /\ line = [d \in Device |-> NoLine]

\* The vectors that idt_install(vector, handler) leaves.
idt_install(vector, handler) == [idt EXCEPT ![vector] = handler]

-----------------------------------------------------------------------------
(* apic_init: the loop over the table.                                     *)

\* apic_init up to the loop: no memory for the arrays, or no MADT: while(1),
\* "no_madt" behind the message for the latter.
FindMadt ==
    /\ phase = "apic"
    /\ madt' = acpi_find_table("APIC", 0)
    /\ phase' = IF madt' = NoTable THEN "no_madt" ELSE "madt"
    /\ UNCHANGED <<acpiVars, next, cpus, ioapics, overrides, pins, idt, line>>

NoArrays ==
    /\ phase = "apic"
    /\ phase' = "hung"
    /\ UNCHANGED <<acpiVars, madt, next, cpus, ioapics, overrides, pins, idt, line>>

Entry == madt.entries[next]

\* An entry that is too short for its own header ends the loop.
More == next <= Len(madt.entries) /\ Entry.length > 2

\* Mutant: create_cpu does not look at the flag.
create_cpuAny(e) == cpus' = Append(cpus, e.apic_id)

create_cpu(e) == cpus' = IF e.enabled THEN Append(cpus, e.apic_id) ELSE cpus

\* A pin of the hardware before ioapic_init: masked, as after reset.
AfterReset == [vector |-> 0, masked |-> TRUE, flags |-> {}, destination |-> 0]

create_ioapic(e) ==
    /\ ioapics' = Append(ioapics, [gsi_start |-> e.gsi, gsi_end |-> e.gsi + e.max])
    /\ pins' = Append(pins, [n \in 0..e.max |-> AfterReset])

\* The destination is kept in a byte.
create_override(e) ==
    overrides' = Append(overrides, [source |-> e.irq, destination |-> e.gsi % 256,
                                    flags |-> e.flags])

ParseEntry ==
    /\ phase = "madt"
    /\ More
    /\ next' = next + 1
    /\ \/ Entry.type = "cpu" /\ create_cpu(Entry)
          /\ UNCHANGED <<ioapics, pins, overrides>>
       \/ Entry.type = "ioapic" /\ create_ioapic(Entry) /\ UNCHANGED <<cpus, overrides>>
       \/ Entry.type = "override" /\ create_override(Entry)
          /\ UNCHANGED <<cpus, ioapics, pins>>
       \/ Entry.type \notin {"cpu", "ioapic", "override"}
          /\ UNCHANGED <<cpus, ioapics, pins, overrides>>
    /\ UNCHANGED <<acpiVars, madt, phase, idt, line>>

\* Without an I/O APIC or a processor the kernel stops. Otherwise the
\* handlers of spurious interrupts are installed (lapic_configure).
ParseEnd ==
    /\ phase = "madt"
    /\ ~More
    /\ IF ioapics = <<>> \/ cpus = <<>>
       THEN phase' = "hung" /\ UNCHANGED <<next, idt>>
       ELSE /\ phase' = "ioapic"
            /\ next' = 1
            /\ idt' = [v \in Vector |->
                         IF v = SPURIOUS THEN "lapic_spurious"
                         ELSE IF madt.pcat /\ v = PIC_BASE + 7 THEN "pic0_spurious"
                         ELSE IF madt.pcat /\ v = PIC_BASE + 15 THEN "pic1_spurious"
                         ELSE idt[v]]
    /\ UNCHANGED <<acpiVars, madt, cpus, ioapics, overrides, pins, line>>

\* ioapic_init, one I/O APIC: a vector for every pin, the mask, and the
\* processor with local APIC number 0 as destination.
IoapicInit ==
    /\ phase = "ioapic"
    /\ pins' = [pins EXCEPT ![next] =
                  [n \in DOMAIN pins[next] |->
                      [vector |-> ioapics[next].gsi_start + IRQ_BASE + n,
                       masked |-> TRUE, flags |-> {}, destination |-> 0]]]
    /\ next' = next + 1
    /\ phase' = IF next = Len(ioapics) THEN "timer_install" ELSE phase
    /\ UNCHANGED <<acpiVars, madt, cpus, ioapics, overrides, idt, line>>

-----------------------------------------------------------------------------
(* irq_configure and irq_unmask.                                           *)

\* Mutant: an override is used the wrong way round.
OverriddenSwapped(irq, flags) ==
    LET hits == {i \in 1..Len(overrides) : overrides[i].destination = irq}
    IN  IF hits = {} THEN [gsi |-> irq, flags |-> flags]
        ELSE [gsi |-> overrides[Min(hits)].source, flags |-> overrides[Min(hits)].flags]

\* The first override of a line gives its global number and its flags.
Overridden(irq, flags) ==
    LET hits == {i \in 1..Len(overrides) : overrides[i].source = irq}
    IN  IF hits = {} THEN [gsi |-> irq, flags |-> flags]
        ELSE [gsi |-> overrides[Min(hits)].destination, flags |-> overrides[Min(hits)].flags]

\* The I/O APIC of a global line; 0 stands for the 0xFF of "not available".
get_ioapic(gsi) ==
    LET hits == {i \in 1..Len(ioapics) :
                    gsi \in ioapics[i].gsi_start..ioapics[i].gsi_end}
    IN  IF hits = {} THEN 0 ELSE Min(hits)

\* The pin whose registers the code addresses for a global line: it takes the
\* number of the line itself. Registers behind the last pin do not exist.
PinOf(gsi) == gsi

\* Pins after an update of the entry of a global line.
Updated(gsi, field, val) ==
    LET i == get_ioapic(gsi)
    IN  IF i # 0 /\ PinOf(gsi) \in DOMAIN pins[i]
        THEN [pins EXCEPT ![i][PinOf(gsi)][field] = val]
        ELSE pins

\* What the two callers ask for.
Asked(d) == IF d = "timer" THEN Overridden(0, {})
            ELSE Overridden(acpi_instance.fadt.sci_irq, {"LEVEL", "ACTIVE_LOW"})

\* irq_configure up to idt_install; no I/O APIC, no line.
Install(d, here, program, unmask) ==
    /\ phase = here
    /\ IF get_ioapic(Asked(d).gsi) = 0
       THEN /\ line' = [line EXCEPT ![d] = NoLine]
            /\ phase' = unmask
            /\ UNCHANGED idt
       ELSE /\ line' = [line EXCEPT ![d] = Asked(d).gsi]
            /\ idt' = idt_install(Asked(d).gsi + IRQ_BASE, d)
            /\ phase' = program
    /\ UNCHANGED <<acpiVars, madt, next, cpus, ioapics, overrides, pins>>

\* The rest of irq_configure: trigger mode and polarity of the line.
Program(d, here, there) ==
    /\ phase = here
    /\ pins' = Updated(line[d], "flags", Asked(d).flags)
    /\ phase' = there
    /\ UNCHANGED <<acpiVars, madt, next, cpus, ioapics, overrides, idt, line>>

\* irq_unmask.
Unmask(d, here, there) ==
    /\ phase = here
    /\ pins' = Updated(line[d], "masked", FALSE)
    /\ phase' = there
    /\ UNCHANGED <<acpiVars, madt, next, cpus, ioapics, overrides, idt, line>>

\* acpi_install_irq reads fadt->sci_irq, and nobody has checked the pointer.
NoFadt ==
    /\ phase = "sci_install"
    /\ acpi_instance.fadt = NoTable
    /\ phase' = "faulted"
    /\ UNCHANGED <<acpiVars, madt, next, cpus, ioapics, overrides, pins, idt, line>>

\* kmain: acpi_init, apic_init, timer_init (pit_init), acpi_install_irq.
ApicNext ==
    \/ AcpiNext /\ UNCHANGED <<madt, next, cpus, ioapics, overrides, pins, idt, line>>
    \/ FindMadt \/ NoArrays \/ ParseEntry \/ ParseEnd \/ IoapicInit
    \/ Install("timer", "timer_install", "timer_program", "timer_unmask")
    \/ Program("timer", "timer_program", "timer_unmask")
    \/ Unmask("timer", "timer_unmask", "sci_install")
    \/ NoFadt
    \/ acpi_instance.fadt # NoTable /\ Install("sci", "sci_install", "sci_program", "sci_unmask")
    \/ Program("sci", "sci_program", "sci_unmask")
    \/ Unmask("sci", "sci_unmask", "ready")

-----------------------------------------------------------------------------
(* Properties.                                                             *)

ApicTypeOK ==
    /\ next \in Nat \ {0}
    /\ idt \in [Vector -> Device \cup {"none", "lapic_spurious", "pic0_spurious",
                                       "pic1_spurious"}]
    /\ line \in [Device -> 0..NoLine]

\* Entries of the firmware's MADT, up to one that ends it.
Declared ==
    UNION {{t.entries[i] : i \in {i \in 1..Len(t.entries) :
                                    \A j \in 1..i : t.entries[j].length > 2}} :
           t \in Offered("APIC")}

\* How the hardware has wired a device, as the firmware's tables say: its
\* global line, and trigger mode and polarity. (No line has two overrides.)
Wiring(d) ==
    LET irq == IF d = "timer" THEN 0 ELSE (CHOOSE t \in Offered("FACP") : TRUE).sci_irq
        hits == {e \in Declared : e.type = "override" /\ e.irq = irq}
    IN  IF hits # {} THEN LET e == CHOOSE e \in hits : TRUE IN [gsi |-> e.gsi, flags |-> e.flags]
        ELSE [gsi |-> irq, flags |-> IF d = "timer" THEN {} ELSE {"LEVEL", "ACTIVE_LOW"}]

\* The pin of that line, as a set of one <<I/O APIC, pin>> or none.
Wire(d) ==
    {w \in UNION {{i} \X DOMAIN pins[i] : i \in 1..Len(pins)} :
        ioapics[w[1]].gsi_start + w[2] = Wiring(d).gsi}

\* An interrupt of the device reaches its handler, on the boot processor: its
\* local APIC has number 0.
Runs(d) ==
    \E w \in Wire(d) : /\ ~pins[w[1]][w[2]].masked
                        /\ pins[w[1]][w[2]].destination = 0
                        /\ idt[pins[w[1]][w[2]].vector] = d

\* Devices whose irq_unmask is behind kmain.
Enabled == {d \in Device : \/ phase = "ready"
                           \/ d = "timer" /\ phase \in {"sci_install", "sci_program",
                                                        "sci_unmask", "faulted"}}

\* TablesFound: the kernel works with the tables the firmware means it to use,
\* although it passes over acpi_init's result and an RSDT may list others: the
\* FADT, the DSDT at its 64-bit address where there is one, and the MADT. It
\* stops for want of a MADT, or faults for want of a FADT, only where the
\* firmware has none.
TablesFound ==
    /\ phase \notin {"acpi", "tables"} => \A t \in Offered("FACP") :
          /\ acpi_instance.fadt = t
          /\ acpi_instance.dsdt \in {t.dsdt, t.x_dsdt} \ {0}
          /\ t.revision >= 2 /\ t.x_dsdt # 0 => acpi_instance.dsdt = t.x_dsdt
    /\ madt # NoTable => madt \in Offered("APIC")
    /\ phase \in {"madt", "ioapic", "ready"} => madt \in Offered("APIC")
    /\ phase = "no_madt" => Offered("APIC") = {}
    /\ phase = "faulted" => Offered("FACP") = {}

\* LinesRouted: once pit_init or acpi_install_irq is done, the interrupts of
\* the device reach its handler, with the trigger mode and polarity that the
\* firmware declares, unless its line belongs to no I/O APIC. Every other
\* line stays masked, so that no interrupt comes without a handler.
LinesRouted ==
    /\ \A d \in Enabled : Wire(d) # {} => Runs(d)
    /\ \A d \in Enabled : \A w \in Wire(d) : pins[w[1]][w[2]].flags = Wiring(d).flags
    /\ \A i \in 1..Len(pins) : \A n \in DOMAIN pins[i] :
          ~pins[i][n].masked => \E d \in Enabled : <<i, n>> \in Wire(d)

=============================================================================
