------------------------------ MODULE SmpBoot ------------------------------
(***************************************************************************)
(* The start of the application processors: smp_boot, smp_boot_ap and      *)
(* smp_kmain of src/kernel/src/apic/smpboot.c, the trampoline              *)
(* asm/smpboot.a16 and smp_trampoline of asm/startup.asm, continuing the   *)
(* boot where Apic leaves it (kmain).                                      *)
(*                                                                         *)
(* The boot processor wakes the others one after the other and waits for   *)
(* each: they share the page at 0x1000 that holds the trampoline with its  *)
(* stack, and they need the low half of memory mapped, which the boot      *)
(* processor undoes at the end. It measures time with timer_sleep, that    *)
(* is, with the timer interrupt that Apic has set up. A processor may be   *)
(* slow or never answer at all.                                            *)
(***************************************************************************)
EXTENDS Apic

CONSTANTS
    ApicIds,        \* local APIC numbers of the processors in the machine
    Timeout         \* TIMER_FREQUENCY * 2: the milliseconds a processor has

ASSUME SmpAssumption ==
    /\ Timeout \in Nat
    /\ \A r \in Rsdps : \A i \in 1..Len(TablesOf(r)) : TablesOf(r)[i].signature = "APIC" =>
          LET es == TablesOf(r)[i].entries IN
          /\ Len(es) \in Nat
          /\ \A n \in 1..Len(es) : es[n].type = "cpu" => es[n].apic_id \in ApicIds

VARIABLES
    bsp,            \* where the boot processor is in smp_boot
    ticks,          \* i and j of smp_boot_ap
    current_cpu, cpu_booted,
    low,            \* pml4[0] maps the low half
    ap,             \* ap[c]: where processor c is
    stack           \* stack[c]: what rsp of processor c points into

smpVars == <<bsp, ticks, current_cpu, cpu_booted, low, ap, stack>>
vars == <<apicVars, smpVars>>

Init ==
    /\ ApicInit
    /\ bsp = "kmain"
    /\ ticks = 0
    /\ current_cpu = 0
    /\ cpu_booted = FALSE
    /\ low = FALSE
    /\ ap = [c \in ApicIds |-> "reset"]
    /\ stack = [c \in ApicIds |-> "none"]

-----------------------------------------------------------------------------
(* The boot processor.                                                     *)

\* The processor that smp_boot_ap wakes.
Target == cpus[current_cpu + 1]

At(here, there) == bsp = here /\ bsp' = there

\* smp_boot: nothing to do for a single processor; else the trampoline is put
\* in place and the low half is mapped.
Prepare ==
    /\ phase = "ready"
    /\ bsp = "kmain"
    /\ IF Len(cpus) = 1
       THEN bsp' = "done" /\ UNCHANGED <<low, current_cpu>>
       ELSE bsp' = "init" /\ low' = TRUE /\ current_cpu' = 1
    /\ UNCHANGED <<apicVars, ticks, cpu_booted, ap, stack>>

\* Mutant: smp_boot_ap without its `cpu_booted = 0`.
SendInitStale ==
    /\ At("init", "init_sleep")
    /\ ticks' = 0
    /\ UNCHANGED <<apicVars, current_cpu, cpu_booted, low, ap, stack>>

SendInit ==
    /\ At("init", "init_sleep")
    /\ cpu_booted' = FALSE
    /\ ticks' = 0
    /\ UNCHANGED <<apicVars, current_cpu, low, ap, stack>>

\* timer_ticks advances (timer_irq).
TimerRuns == Runs("timer")

\* timer_sleep(1) after each of the two messages.
Sleep ==
    /\ At("init_sleep", "init_wait") \/ At("sipi_sleep", "booted_wait")
    /\ TimerRuns
    /\ UNCHANGED <<apicVars, ticks, current_cpu, cpu_booted, low, ap, stack>>

\* The INIT message is delivered: the processor waits for a start-up message.
InitDelivered ==
    /\ At("init_wait", "sipi")
    /\ ap' = [ap EXCEPT ![Target] = "waiting"]
    /\ UNCHANGED <<apicVars, ticks, current_cpu, cpu_booted, low, stack>>

SendSipi ==
    /\ At("sipi", "sipi_sleep")
    /\ ap' = [ap EXCEPT ![Target] = "trampoline"]
    /\ ticks' = 0
    /\ UNCHANGED <<apicVars, current_cpu, cpu_booted, low, stack>>

Waiting == bsp = "init_wait" \/ (bsp = "booted_wait" /\ ~cpu_booted)

\* Mutant: the wait loops do not count.
WaitForever ==
    /\ Waiting
    /\ TimerRuns
    /\ UNCHANGED vars

\* One turn of a wait loop: another millisecond, or the end of patience.
Wait ==
    /\ Waiting
    /\ TimerRuns
    /\ ticks' = ticks + 1
    /\ bsp' = IF ticks' > Timeout THEN "hung" ELSE bsp
    /\ UNCHANGED <<apicVars, current_cpu, cpu_booted, low, ap, stack>>

\* The loop of smp_boot goes on.
Another == current_cpu + 1 < Len(cpus)

Answered ==
    /\ bsp = "booted_wait"
    /\ cpu_booted
    /\ current_cpu' = current_cpu + 1
    /\ bsp' = IF Another THEN "init" ELSE "unmap"
    /\ UNCHANGED <<apicVars, ticks, cpu_booted, low, ap, stack>>

\* pml4[0] = 0, and smp_boot returns.
UnmapLow ==
    /\ At("unmap", "done")
    /\ low' = FALSE
    /\ UNCHANGED <<apicVars, ticks, current_cpu, cpu_booted, ap, stack>>

-----------------------------------------------------------------------------
(* Another processor.                                                      *)

ApAt(c, here, there) == ap[c] = here /\ ap' = [ap EXCEPT ![c] = there]

\* smpboot.a16: from real mode to long mode, with cr3 and the entry point
\* that smp_boot has left at address 0, onto the temporary stack.
Trampoline(c) ==
    /\ ApAt(c, "trampoline", "alloc")
    /\ stack' = [stack EXCEPT ![c] = "temporary"]
    /\ UNCHANGED <<apicVars, bsp, ticks, current_cpu, cpu_booted, low>>

\* smp_trampoline: the result of kmalloc is not checked, and NULL + KSTACK is
\* an address in the low half.
AllocStack(c) ==
    /\ ApAt(c, "alloc", "configure")
    /\ \E s \in {"own", "low"} : stack' = [stack EXCEPT ![c] = s]
    /\ UNCHANGED <<apicVars, bsp, ticks, current_cpu, cpu_booted, low>>

\* smp_configure_cpu.
Configure(c) ==
    /\ ApAt(c, "configure", "clear_idt")
    /\ UNCHANGED <<apicVars, bsp, ticks, current_cpu, cpu_booted, low, stack>>

\* ... but gdt_init stops the processor when it gets no memory.
GdtFails(c) ==
    /\ ApAt(c, "configure", "hung")
    /\ UNCHANGED <<apicVars, bsp, ticks, current_cpu, cpu_booted, low, stack>>

\* load_idt and lapic_configure: idt_install writes the entry of spurious
\* interrupts again, in the table all processors use; it clears it first.
ClearIdt(c) ==
    /\ ApAt(c, "clear_idt", "fill_idt")
    /\ idt' = idt_install(SPURIOUS, "none")
    /\ UNCHANGED <<acpiVars, phase, madt, next, cpus, ioapics, overrides, pins, line,
                   bsp, ticks, current_cpu, cpu_booted, low, stack>>

FillIdt(c) ==
    /\ ApAt(c, "fill_idt", "answer")
    /\ idt' = idt_install(SPURIOUS, "lapic_spurious")
    /\ UNCHANGED <<acpiVars, phase, madt, next, cpus, ioapics, overrides, pins, line,
                   bsp, ticks, current_cpu, cpu_booted, low, stack>>

\* smp_kmain answers, and halts with interrupts enabled.
Answer(c) ==
    /\ ApAt(c, "answer", "halted")
    /\ cpu_booted' = TRUE
    /\ UNCHANGED <<apicVars, bsp, ticks, current_cpu, low, stack>>

-----------------------------------------------------------------------------

BspStep ==
    \/ ApicNext /\ UNCHANGED smpVars
    \/ Prepare \/ SendInit \/ Sleep \/ InitDelivered \/ SendSipi \/ Wait \/ Answered
    \/ UnmapLow

ApStep(c) ==
    \/ Trampoline(c) \/ AllocStack(c) \/ Configure(c) \/ GdtFails(c) \/ ClearIdt(c) \/ FillIdt(c)
    \/ Answer(c)

Next == BspStep \/ \E c \in ApicIds : ApStep(c)

(***************************************************************************)
(* The boot processor executes and its timer ticks. Nothing is assumed of  *)
(* the others: they may be slow or dead.                                   *)
(***************************************************************************)
Spec == Init /\ [][Next]_vars

FairSpec == Spec /\ WF_vars(BspStep)

-----------------------------------------------------------------------------
(* Properties.                                                             *)

TypeOK ==
    /\ ApicTypeOK
    /\ ticks \in 0..(Timeout + 1)
    /\ current_cpu \in 0..Len(cpus)
    /\ cpu_booted \in BOOLEAN /\ low \in BOOLEAN

\* Started and not yet halted: the processor fetches from the trampoline or
\* runs on a stack in the low half, or has just left it.
Starting(c) == ap[c] \notin {"reset", "waiting", "halted"}

\* TrampolineSafe: a processor that is being started finds the low half
\* mapped all the time and is the only one, and current_cpu is its index
\* (smp_kmain reads it), however long it takes and whether or not smp_boot
\* has given it up.
TrampolineSafe ==
    \A c \in ApicIds : Starting(c) => low /\ current_cpu < Len(cpus) /\ c = Target

\* The processors that the firmware's MADT declares usable, but for the first,
\* which is the boot processor.
Usable ==
    LET es == (CHOOSE t \in Offered("APIC") : TRUE).entries
        cpu(i) == es[i].type = "cpu" /\ es[i].enabled
    IN  {es[i].apic_id : i \in {i \in 1..Len(es) : /\ cpu(i)
                                                   /\ \E j \in 1..(i - 1) : cpu(j)
                                                   /\ \A j \in 1..i : es[j].length > 2}}

\* AllRunning: when smp_boot returns to kmain, exactly the processors that
\* the MADT declares usable have been started, and each has answered.
AllRunning ==
    bsp = "done" => /\ {c \in ApicIds : ap[c] # "reset"} = Usable
                    /\ \A c \in Usable : ap[c] = "halted"

\* BootEnds: smp_boot returns or reports a processor that does not respond,
\* whatever the others do, unless the firmware's table left the timer
\* without a line (then the first timer_sleep never ends).
BootEnds ==
    <>(\/ phase \in {"hung", "no_madt", "faulted"}
       \/ bsp \in {"done", "hung"}
       \/ bsp = "init_sleep" /\ Wire("timer") = {})

=============================================================================
