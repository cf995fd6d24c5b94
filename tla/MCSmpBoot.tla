----------------------------- MODULE MCSmpBoot -----------------------------
(* Values for Acpi, Apic and SmpBoot. Tables with one processor, with      *)
(* three and a disabled one between them, without an I/O APIC, without a   *)
(* processor, with an entry of no length in the middle, and with a timer   *)
(* override to a line that does not exist. Where there are two I/O APICs,  *)
(* the lines of timer and SCI are on the first. The tables hang off an     *)
(* RSDT, or off an XSDT beside an RSDT with older tables.                  *)
EXTENDS SmpBoot

Cpu(id, on) == [type |-> "cpu", length |-> 8, apic_id |-> id, enabled |-> on]
Ioapic(gsi, max) == [type |-> "ioapic", length |-> 12, gsi |-> gsi, max |-> max]
Override(irq, gsi, flags) ==
    [type |-> "override", length |-> 10, irq |-> irq, gsi |-> gsi, flags |-> flags]
Other == [type |-> "nmi", length |-> 6]
Short == [type |-> "cpu", length |-> 2, apic_id |-> 4, enabled |-> TRUE]

Madt(pcat, entries) == [signature |-> "APIC", pcat |-> pcat, entries |-> entries]

MCMadts ==
    {Madt(TRUE, <<Cpu(0, TRUE), Cpu(1, TRUE), Cpu(2, FALSE), Cpu(3, TRUE), Cpu(4, TRUE),
                  Ioapic(0, 5), Ioapic(6, 3), Override(0, 2, {}),
                  Override(4, 4, {"LEVEL"}), Other>>),
     Madt(FALSE, <<Cpu(0, TRUE), Cpu(1, TRUE), Ioapic(0, 5), Override(0, 9, {})>>),
     Madt(TRUE, <<Cpu(0, TRUE), Ioapic(0, 5), Override(0, 2, {}), Short, Cpu(3, TRUE)>>),
     Madt(TRUE, <<Cpu(0, TRUE), Cpu(1, TRUE)>>),
     Madt(TRUE, <<Cpu(0, FALSE), Ioapic(0, 5)>>)}

Fadt(revision, irq, dsdt, x_dsdt) ==
    [signature |-> "FACP", revision |-> revision, sci_irq |-> irq,
     dsdt |-> dsdt, x_dsdt |-> x_dsdt]
Ssdt == [signature |-> "SSDT"]

\* What firmware keeps for old systems: no overrides, one processor, no DSDT of
\* its own beyond 4 GB.
OldMadt == Madt(TRUE, <<Cpu(0, TRUE), Ioapic(0, 5)>>)
OldFadt == Fadt(1, 5, 1, 0)

Old(tables) == [revision |-> 0, rsdt |-> tables, xsdt |-> <<>>]
New(tables) == [revision |-> 2, rsdt |-> <<OldFadt, OldMadt>>, xsdt |-> tables]

\* The tables in either order, behind other ones, or missing.
MCRsdps ==
    UNION {{New(<<Ssdt, Fadt(4, irq, 1, wide), m>>), Old(<<m, Ssdt, Fadt(1, irq, 1, 0)>>)} :
              m \in MCMadts, irq \in {3, 4}, wide \in {0, 2}}
    \cup {New(<<m, Ssdt>>) : m \in MCMadts}
    \cup {New(<<Ssdt, Fadt(4, 3, 1, 2)>>), New(<<>>)}

\* A machine whose second I/O APIC serves lines 6 to 9, and the SCI is one.
MCTwoIoapics ==
    {Old(<<Fadt(1, irq, 1, 0),
           Madt(TRUE, <<Cpu(0, TRUE), Ioapic(0, 5), Ioapic(6, 3), Override(0, 2, {})>>)>>) :
        irq \in {3, 7}}

=============================================================================
