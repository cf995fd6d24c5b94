-------------------------------- MODULE Acpi --------------------------------
(***************************************************************************)
(* The tables of the firmware: acpi_init, show_tables and init_fadt        *)
(* (src/kernel/src/acpi/init.c) and acpi_find_table (acpi/tables.c). The   *)
(* RSDP, which the boot manager has found, names a list of tables with     *)
(* 32-bit addresses, the RSDT, and from ACPI 2.0 on one with 64-bit        *)
(* addresses, the XSDT; old firmware interfaces live on in the RSDT, so    *)
(* the two may differ. kmain ignores what acpi_init returns.               *)
(*                                                                         *)
(* MAP_MEMORY adds a constant and never yields NULL, so the error returns  *)
(* of these functions are dead code. The address of a table is abstracted  *)
(* to its content.                                                         *)
(***************************************************************************)
EXTENDS Integers, Sequences, FiniteSets, FiniteSetsExt

CONSTANT Rsdps      \* what firmware may offer: `revision`, `rsdt` and `xsdt`

TablesOf(r) == IF r.revision # 0 THEN r.xsdt ELSE r.rsdt

\* The firmware's list has one MADT and one FADT at most, and the FADT has a
\* DSDT.
ASSUME AcpiAssumption ==
    \A r \in Rsdps :
        LET list == TablesOf(r) IN
        /\ r.revision \in Nat /\ Len(list) \in Nat
        /\ \A s \in {"APIC", "FACP"} : \A i, k \in 1..Len(list) :
              list[i].signature = s /\ list[k].signature = s => i = k
        /\ \A i \in 1..Len(list) : list[i].signature = "FACP" =>
              list[i].dsdt # 0 \/ (list[i].revision >= 2 /\ list[i].x_dsdt # 0)

VARIABLES
    rsdp,
    acpi_instance,  \* whether there is an XSDT, the FADT and the DSDT
    shown,          \* tables that show_tables has seen
    phase           \* how far kmain has come

acpiVars == <<rsdp, acpi_instance, shown>>

NoTable == [signature |-> "none"]

AcpiInit ==
    /\ rsdp \in Rsdps
    /\ acpi_instance = [xsdt |-> FALSE, fadt |-> NoTable, dsdt |-> 0]
    /\ shown = 0
    /\ phase = "acpi"

\* The root table in use.
Root == IF acpi_instance.xsdt THEN rsdp.xsdt ELSE rsdp.rsdt

\* The place, in a list, of the table of a signature with `index` such tables
\* before it: a set of one or none.
Place(list, signature, index) ==
    LET hits == {i \in 1..Len(list) : list[i].signature = signature}
    IN  {i \in hits : Cardinality({k \in hits : k < i}) = index}

\* Mutant: the RSDT is searched whatever there is.
acpi_find_tableOld(signature, index) ==
    LET place == Place(rsdp.rsdt, signature, index)
    IN  IF place = {} THEN NoTable ELSE rsdp.rsdt[CHOOSE i \in place : TRUE]

acpi_find_table(signature, index) ==
    LET place == Place(Root, signature, index)
    IN  IF place = {} THEN NoTable ELSE Root[CHOOSE i \in place : TRUE]

\* acpi_init.
AcpiStart ==
    /\ phase = "acpi"
    /\ acpi_instance' = [acpi_instance EXCEPT !.xsdt = rsdp.revision # 0]
    /\ phase' = "tables"
    /\ UNCHANGED <<rsdp, shown>>

\* The DSDT is where the 64-bit address says, if there is one.
init_fadt(t) ==
    acpi_instance' = [acpi_instance EXCEPT
        !.fadt = t, !.dsdt = IF t.revision >= 2 /\ t.x_dsdt # 0 THEN t.x_dsdt ELSE t.dsdt]

\* show_tables: the next table of the list.
ShowTable ==
    /\ phase = "tables"
    /\ shown < Len(Root)
    /\ shown' = shown + 1
    /\ IF Root[shown'].signature = "FACP" THEN init_fadt(Root[shown'])
       ELSE UNCHANGED acpi_instance
    /\ UNCHANGED <<rsdp, phase>>

ShowEnd ==
    /\ phase = "tables"
    /\ shown = Len(Root)
    /\ phase' = "apic"
    /\ UNCHANGED acpiVars

AcpiNext == AcpiStart \/ ShowTable \/ ShowEnd

-----------------------------------------------------------------------------

\* The tables of a signature that the firmware means the kernel to use.
Offered(signature) ==
    {t \in {TablesOf(rsdp)[i] : i \in 1..Len(TablesOf(rsdp))} : t.signature = signature}

=============================================================================
