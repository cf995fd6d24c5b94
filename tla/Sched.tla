------------------------------- MODULE Sched -------------------------------
(***************************************************************************)
(* The scheduler: src/kernel/src/sys/sched.c, the timer interrupt that     *)
(* drives it (timer_irq_stub of asm/isr.asm, timer_irq of                  *)
(* firmware/timer.c) and load_context of asm/context.asm.                  *)
(*                                                                         *)
(* Only the boot processor schedules (resched and find_idle name cpus[0]), *)
(* so one context executes at a time, the one in the registers `reg`. It   *)
(* executes sched_init's create_process at boot, and afterwards whatever   *)
(* the kernel threads do: here, calls of create_thread and create_process. *)
(* Interrupts are enabled in all of them: between any two steps the timer  *)
(* may fire. Its handler runs with interrupts disabled, in one action.     *)
(*                                                                         *)
(* A context is what load_context restores: a stack, named by the thread   *)
(* it was allocated for; a program point; the local variables pid and tid. *)
(* A use of memory that has been freed or was never allocated, or an iretq *)
(* without a stack, is an exception, and handle_exception stops the CPU.   *)
(***************************************************************************)
EXTENDS Integers, FiniteSets

CONSTANTS
    MaxProcesses,   \* MAX_PROCESSES
    MaxThreads,     \* MAX_THREADS
    TickPeriod,     \* 10 in timer_irq: one tick in ten does not reschedule
    MayFail         \* the allocations that may fail; "boot" for those of sched_init

Sites == {"cr3", "table", "thread", "stack", "boot"}

ASSUME SchedAssumption ==
    /\ MaxProcesses \in Nat \ {0}
    /\ MaxThreads \in Nat \ {0}
    /\ TickPeriod \in Nat \ {0, 1}
    /\ MayFail \subseteq Sites

Pid == 0..(MaxProcesses - 1)
Tid == 0..(MaxThreads - 1)

NONE == 0
IDLE == 1
BUSY == 2

VARIABLES
    processes,      \* valid, cr3, thread_count and the array `threads`
    thread,         \* thread[i][j]: the pointer threads[j] and what it points to
    running_processes,
    sched_mutex,
    sys_ready,      \* sched_init is done
    cpu,            \* cpus[0]: pid, tid, sys_ready
    timer_ticks,    \* modulo TickPeriod
    reg,            \* the context the CPU executes
    dead,           \* pmm_alloc_page has failed and kept pmm_mutex (Pmm)
    fault           \* the CPU is in handle_exception, for good

tables == <<processes, thread, running_processes>>
clock == <<cpu, timer_ticks>>
vars == <<processes, thread, running_processes, sched_mutex, sys_ready, cpu,
          timer_ticks, reg, dead, fault>>

\* Stacks that are no thread's: the boot stack, and rsp = 0.
Boot == <<-1, -1>>
NoStack == <<>>

\* A context of zeros, and the state of a thread slot after kcalloc.
NoContext == [stack |-> NoStack, at |-> "null", i |-> 0, j |-> 0]
NoThread == [ptr |-> "null", status |-> NONE, ctx |-> NoContext]
Calloced == [ptr |-> "ok", status |-> NONE, ctx |-> NoContext]

\* sched_init has its table of processes and calls create_process.
Init ==
    /\ processes = [i \in Pid |-> [valid |-> FALSE, cr3 |-> "null",
                                   threads |-> "null", thread_count |-> 0]]
    /\ thread = [i \in Pid |-> [j \in Tid |-> NoThread]]
    /\ running_processes = 0
    /\ sched_mutex = 0
    /\ sys_ready = FALSE
    /\ cpu = [pid |-> 0, tid |-> 0, sys_ready |-> FALSE]
    /\ timer_ticks = 0
    /\ reg = [stack |-> Boot, at |-> "process_lock", i |-> 0, j |-> 0]
    /\ dead = FALSE
    /\ fault = FALSE

-----------------------------------------------------------------------------
(* Steps of the context that has the CPU.                                  *)

From(here, there) == ~fault /\ reg.at = here /\ reg' = [reg EXCEPT !.at = there]

\* A memory allocation that fails. It may have used up the last page; once
\* that has happened vmm_alloc refuses before it needs pmm_mutex.
Fails(site) ==
    /\ dead \/ (site \in MayFail /\ (reg.stack = Boot => "boot" \in MayFail))
    /\ dead' \in BOOLEAN
    /\ dead => dead'
Succeeds == ~dead /\ UNCHANGED dead

\* A kernel thread calls create_thread or create_process.
Call ==
    /\ From("run", "thread_lock") \/ From("run", "process_lock")
    /\ UNCHANGED <<tables, sched_mutex, sys_ready, clock, dead, fault>>

Acquire ==
    /\ From("thread_lock", "thread_find") \/ From("process_lock", "process_find")
    /\ sched_mutex = 0
    /\ sched_mutex' = 1
    /\ UNCHANGED <<tables, sys_ready, clock, dead, fault>>

\* release(), and the return to the thread or to sched_init; the locals go.
Release ==
    /\ ~fault /\ reg.at = "release"
    /\ reg' = [stack |-> reg.stack, i |-> 0, j |-> 0,
               at |-> IF reg.stack = Boot THEN "sched_init" ELSE "run"]
    /\ sched_mutex' = 0
    /\ UNCHANGED <<tables, sys_ready, clock, dead, fault>>

\* The rest of sched_init, whatever create_process returned; kmain spins.
SchedReady ==
    /\ From("sched_init", "kmain")
    /\ sys_ready' = TRUE
    /\ UNCHANGED <<tables, sched_mutex, clock, dead, fault>>

-----------------------------------------------------------------------------
(* create_thread.                                                          *)

\* find_thread's loop ends at slot j, or faults there.
Ends(j) == LET t == thread[0][j]
           IN  t.ptr = "null" \/ t.ptr = "freed" \/ t.status = NONE

\* Mutant: the loop over the slots runs one too far.
FreeSlotPastEnd ==
    {j \in 0..MaxThreads : /\ j \in Tid => Ends(j)
                           /\ \A k \in Tid : k < j => ~Ends(k)}

FreeSlot == {j \in Tid : Ends(j) /\ \A k \in Tid : k < j => ~Ends(k)}

\* find_thread looks at the table of process 0, whatever its argument.
FindThread ==
    /\ IF FreeSlot = {} THEN From("thread_find", "release") /\ UNCHANGED fault
       ELSE LET j == CHOOSE j \in FreeSlot : TRUE IN
            IF j \in Tid /\ thread[0][j].ptr = "freed"
            THEN From("thread_find", "thread_find") /\ fault' = TRUE
            ELSE /\ ~fault /\ reg.at = "thread_find"
                 /\ reg' = [reg EXCEPT !.at = "thread_alloc", !.i = cpu.pid, !.j = j]
                 /\ UNCHANGED fault
    /\ UNCHANGED <<tables, sched_mutex, sys_ready, clock, dead>>

\* threads[tid] = kcalloc(...)
AllocThread ==
    /\ From("thread_alloc", "thread_stack")
    /\ Succeeds
    /\ thread' = [thread EXCEPT ![reg.i][reg.j] = Calloced]
    /\ UNCHANGED <<processes, running_processes, sched_mutex, sys_ready, clock, fault>>

\* Mutant: the error path of create_thread returns without release().
AllocThreadFailsLocked ==
    /\ From("thread_alloc", "run")
    /\ Fails("thread")
    /\ thread' = [thread EXCEPT ![reg.i][reg.j] = NoThread]
    /\ UNCHANGED <<processes, running_processes, sched_mutex, sys_ready, clock, fault>>

AllocThreadFails ==
    /\ From("thread_alloc", "release")
    /\ Fails("thread")
    /\ thread' = [thread EXCEPT ![reg.i][reg.j] = NoThread]
    /\ UNCHANGED <<processes, running_processes, sched_mutex, sys_ready, clock, fault>>

\* A stack, for the threads of process 0 only.
AllocStack ==
    /\ From("thread_stack", "thread_entry")
    /\ IF reg.i = 0
       THEN Succeeds /\ thread' = [thread EXCEPT ![0][reg.j].ctx.stack = <<0, reg.j>>]
       ELSE UNCHANGED <<thread, dead>>
    /\ UNCHANGED <<processes, running_processes, sched_mutex, sys_ready, clock, fault>>

AllocStackFails ==
    /\ From("thread_stack", "thread_undo")
    /\ reg.i = 0
    /\ Fails("stack")
    /\ UNCHANGED <<tables, sched_mutex, sys_ready, clock, fault>>

\* kfree(thread), and threads[tid] keeps pointing there.
UndoThread ==
    /\ From("thread_undo", "release")
    /\ ~dead
    /\ thread' = [thread EXCEPT ![reg.i][reg.j].ptr = "freed"]
    /\ UNCHANGED <<processes, running_processes, sched_mutex, sys_ready, clock,
                   dead, fault>>

\* thread->rip = entry
SetEntry ==
    /\ From("thread_entry", "thread_idle")
    /\ thread' = [thread EXCEPT ![reg.i][reg.j].ctx.at = "run"]
    /\ UNCHANGED <<processes, running_processes, sched_mutex, sys_ready, clock,
                   dead, fault>>

\* thread->status = THREAD_IDLE, in create_thread and in create_process.
MarkIdle ==
    /\ From("thread_idle", "thread_count") \/ From("process_idle", "process_valid")
    /\ thread' = [thread EXCEPT ![reg.i][reg.j].status = IDLE]
    /\ UNCHANGED <<processes, running_processes, sched_mutex, sys_ready, clock,
                   dead, fault>>

\* Mutant: create_thread does not count the thread.
CountThreadMissing ==
    /\ From("thread_count", "release")
    /\ UNCHANGED <<tables, sched_mutex, sys_ready, clock, dead, fault>>

CountThread ==
    /\ From("thread_count", "release")
    /\ processes' = [processes EXCEPT ![reg.i].thread_count = @ + 1]
    /\ UNCHANGED <<thread, running_processes, sched_mutex, sys_ready, clock,
                   dead, fault>>

-----------------------------------------------------------------------------
(* create_process.                                                         *)

FreeProcess == {i \in Pid : /\ ~processes[i].valid
                            /\ \A k \in Pid : k < i => processes[k].valid}

FindProcess ==
    /\ IF FreeProcess = {} THEN From("process_find", "release")
       ELSE /\ ~fault /\ reg.at = "process_find"
            /\ reg' = [reg EXCEPT !.at = "process_cr3", !.j = 0,
                                  !.i = CHOOSE i \in FreeProcess : TRUE]
    /\ UNCHANGED <<tables, sched_mutex, sys_ready, clock, dead, fault>>

\* A field of the process being created.
SetProcess(field, val) == processes' = [processes EXCEPT ![reg.i][field] = val]

\* processes[pid].cr3 = pmm_alloc_page(), with the kernel's entries.
AllocCr3 ==
    /\ From("process_cr3", "process_table")
    /\ Succeeds
    /\ SetProcess("cr3", "ok")
    /\ UNCHANGED <<thread, running_processes, sched_mutex, sys_ready, clock, fault>>

\* pmm_alloc_page fails only by keeping its lock, which it has to get first.
AllocCr3Fails ==
    /\ From("process_cr3", "release")
    /\ ~dead
    /\ Fails("cr3")
    /\ dead'
    /\ SetProcess("cr3", "null")
    /\ UNCHANGED <<thread, running_processes, sched_mutex, sys_ready, clock, fault>>

\* thread_count = 1, and an array of null pointers.
AllocTable ==
    /\ From("process_table", "process_alloc")
    /\ Succeeds
    /\ processes' = [processes EXCEPT ![reg.i].thread_count = 1, ![reg.i].threads = "ok"]
    /\ thread' = [thread EXCEPT ![reg.i] = [j \in Tid |-> NoThread]]
    /\ UNCHANGED <<running_processes, sched_mutex, sys_ready, clock, fault>>

AllocTableFails ==
    /\ From("process_table", "process_undo")
    /\ Fails("table")
    /\ processes' = [processes EXCEPT ![reg.i].thread_count = 1, ![reg.i].threads = "null"]
    /\ UNCHANGED <<thread, running_processes, sched_mutex, sys_ready, clock, fault>>

\* threads[0], with its entry point.
AllocMain ==
    /\ From("process_alloc", "process_stack")
    /\ Succeeds
    /\ thread' = [thread EXCEPT ![reg.i][0] = [Calloced EXCEPT !.ctx.at = "run"]]
    /\ UNCHANGED <<processes, running_processes, sched_mutex, sys_ready, clock, fault>>

AllocMainFails ==
    /\ From("process_alloc", "process_undo")
    /\ Fails("thread")
    /\ UNCHANGED <<tables, sched_mutex, sys_ready, clock, fault>>

\* A stack and segments, for the first process only.
AllocMainStack ==
    /\ From("process_stack", "process_idle")
    /\ IF running_processes = 0
       THEN Succeeds /\ thread' = [thread EXCEPT ![reg.i][0].ctx.stack = <<reg.i, 0>>]
       ELSE UNCHANGED <<thread, dead>>
    /\ UNCHANGED <<processes, running_processes, sched_mutex, sys_ready, clock, fault>>

AllocMainStackFails ==
    /\ From("process_stack", "process_undo")
    /\ running_processes = 0
    /\ Fails("stack")
    /\ UNCHANGED <<tables, sched_mutex, sys_ready, clock, fault>>

\* The error paths free what was allocated; the pointers keep their values.
UndoProcess ==
    LET freed(x) == IF x = "ok" THEN "freed" ELSE x IN
    /\ From("process_undo", "release")
    /\ ~dead
    /\ processes' = [processes EXCEPT ![reg.i].cr3 = "freed",
                                      ![reg.i].threads = freed(@)]
    /\ thread' = [thread EXCEPT ![reg.i][0].ptr = freed(@)]
    /\ UNCHANGED <<running_processes, sched_mutex, sys_ready, clock, dead, fault>>

SetValid ==
    /\ From("process_valid", "process_count")
    /\ processes' = [processes EXCEPT ![reg.i].valid = TRUE, ![reg.i].thread_count = 1]
    /\ UNCHANGED <<thread, running_processes, sched_mutex, sys_ready, clock,
                   dead, fault>>

CountProcess ==
    /\ From("process_count", "release")
    /\ running_processes' = running_processes + 1
    /\ UNCHANGED <<processes, thread, sched_mutex, sys_ready, clock, dead, fault>>

-----------------------------------------------------------------------------
(* The timer interrupt.                                                    *)

Tick == ~fault /\ timer_ticks' = (timer_ticks + 1) % TickPeriod

Rescheds == sys_ready /\ timer_ticks' # 0

\* timer_irq does not call resched; the stub returns to the same context.
TickOnly ==
    /\ Tick
    /\ ~Rescheds
    /\ UNCHANGED <<tables, sched_mutex, sys_ready, cpu, reg, dead, fault>>

\* resched returns at once: there is a single thread.
Alone ==
    /\ cpu.sys_ready
    /\ running_processes = 1
    /\ processes[0].thread_count = 1

TickAlone ==
    /\ Tick
    /\ Rescheds
    /\ Alone
    /\ UNCHANGED <<tables, sched_mutex, sys_ready, cpu, reg, dead, fault>>

\* The thread that resched saves into, if there is one to save.
Current == <<cpu.pid, cpu.tid>>

Exists(i, j) ==
    /\ processes[i].threads = "ok"
    /\ j \in Tid
    /\ thread[i][j].ptr = "ok"

SaveFaults == cpu.sys_ready /\ ~Exists(cpu.pid, cpu.tid)

\* Mutant: the registers of the thread are not saved.
SavedStale ==
    IF cpu.sys_ready
    THEN [thread EXCEPT ![cpu.pid][cpu.tid].status = IDLE]
    ELSE thread

\* The threads after resched has saved the registers.
Saved ==
    IF cpu.sys_ready
    THEN [thread EXCEPT ![cpu.pid][cpu.tid].ctx = reg,
                        ![cpu.pid][cpu.tid].status = IDLE]
    ELSE thread

\* Mutant: the search starts at the thread that has just run.
StartSame == cpu.tid

\* The thread find_idle starts from: cpus[0].tid, which resched has advanced.
Start == IF cpu.sys_ready THEN cpu.tid + 1 ELSE cpu.tid

\* Mutant: find_idle does not look at `valid`.
StopsAnyway(t) ==
    \/ processes[t[1]].threads = "freed"
    \/ Saved[t[1]][t[2]].ptr = "freed"
    \/ Saved[t[1]][t[2]].ptr = "ok" /\ Saved[t[1]][t[2]].status = IDLE

\* find_idle stops at a thread: it is idle, or reading it is an exception.
Stops(t) ==
    /\ processes[t[1]].valid
    /\ \/ processes[t[1]].threads # "ok"
       \/ Saved[t[1]][t[2]].ptr = "freed"
       \/ Saved[t[1]][t[2]].ptr = "ok" /\ Saved[t[1]][t[2]].status = IDLE

\* When find_idle comes to a thread. The first pass covers the processes from
\* cpus[0].pid up and, in every one of them, the threads from Start up; the
\* second pass covers all.
Turn(t) ==
    (IF t[1] >= cpu.pid /\ t[2] >= Start THEN 0 ELSE MaxProcesses * MaxThreads)
        + t[1] * MaxThreads + t[2]

\* The thread that find_idle returns, as a set: at most one.
Idle == LET stops == {t \in Pid \X Tid : Stops(t)}
        IN  {t \in stops : \A u \in stops : Turn(t) <= Turn(u)}

\* write_cr3 and load_context can go through with this thread: it has a page
\* table, a stack and somewhere to go on.
Loadable(i, j) ==
    /\ Exists(i, j)
    /\ processes[i].cr3 = "ok"
    /\ Saved[i][j].ctx.stack # NoStack
    /\ Saved[i][j].ctx.at # "null"

\* Mutant: resched does not mark the thread it runs as BUSY.
LoadUnmarked(i, j) ==
    /\ cpu' = [pid |-> i, tid |-> j, sys_ready |-> TRUE]
    /\ thread' = Saved
    /\ reg' = Saved[i][j].ctx

\* find_idle found thread j of process i; resched runs it. What is saved of
\* it is of no use from now on: the next save overwrites it.
Load(i, j) ==
    /\ cpu' = [pid |-> i, tid |-> j, sys_ready |-> TRUE]
    /\ thread' = [Saved EXCEPT ![i][j].status = BUSY, ![i][j].ctx = NoContext]
    /\ reg' = Saved[i][j].ctx

\* resched saves the interrupted thread and runs the next one.
TickSwitch ==
    /\ Tick
    /\ Rescheds
    /\ ~Alone
    /\ IF SaveFaults THEN fault' = TRUE /\ UNCHANGED <<cpu, thread, reg>>
       ELSE IF Idle = {}
       THEN /\ cpu' = [cpu EXCEPT !.tid = Start, !.sys_ready = TRUE]
            /\ thread' = Saved
            /\ UNCHANGED <<reg, fault>>
       ELSE LET t == CHOOSE t \in Idle : TRUE IN
            IF Loadable(t[1], t[2]) THEN Load(t[1], t[2]) /\ UNCHANGED fault
            ELSE fault' = TRUE /\ UNCHANGED <<cpu, thread, reg>>
    /\ UNCHANGED <<processes, running_processes, sched_mutex, sys_ready, dead>>

-----------------------------------------------------------------------------

Step ==
    \/ Acquire \/ Release \/ SchedReady
    \/ FindThread \/ AllocThread \/ AllocThreadFails \/ AllocStack \/ AllocStackFails
    \/ UndoThread \/ SetEntry \/ MarkIdle \/ CountThread
    \/ FindProcess \/ AllocCr3 \/ AllocCr3Fails \/ AllocTable \/ AllocTableFails
    \/ AllocMain \/ AllocMainFails \/ AllocMainStack \/ AllocMainStackFails
    \/ UndoProcess \/ SetValid \/ CountProcess

Timer == TickOnly \/ TickAlone \/ TickSwitch

Next == Call \/ Step \/ Timer

(***************************************************************************)
(* The timer keeps ticking, and a time slice is a millisecond: a thread    *)
(* that gets the CPU again and again makes progress. (Threads of other     *)
(* processes have no stack and never run.)                                 *)
(***************************************************************************)
StepOf(s) == reg.stack = s /\ Step

Fairness ==
    /\ WF_vars(Timer)
    /\ \A s \in ({0} \X Tid) \cup {Boot} : SF_vars(StepOf(s))

Spec == Init /\ [][Next]_vars

FairSpec == Spec /\ Fairness

-----------------------------------------------------------------------------
(* Properties.                                                             *)

Labels ==
    {"null", "run", "release", "sched_init", "kmain",
     "thread_lock", "thread_find", "thread_alloc", "thread_stack", "thread_undo",
     "thread_entry", "thread_idle", "thread_count",
     "process_lock", "process_find", "process_cr3", "process_table", "process_alloc",
     "process_stack", "process_undo", "process_idle", "process_valid", "process_count"}

Context == [stack : (Pid \X Tid) \cup {Boot, NoStack}, at : Labels, i : Pid, j : Tid]
Pointer == {"null", "ok", "freed"}

TypeOK ==
    /\ processes \in [Pid -> [valid : BOOLEAN, cr3 : Pointer, threads : Pointer,
                              thread_count : 0..MaxThreads]]
    /\ thread \in [Pid -> [Tid -> [ptr : Pointer, status : {NONE, IDLE, BUSY},
                                   ctx : Context]]]
    /\ running_processes \in 0..MaxProcesses
    /\ sched_mutex \in {0, 1}
    /\ sys_ready \in BOOLEAN
    /\ cpu \in [pid : Pid, tid : Tid, sys_ready : BOOLEAN]
    /\ timer_ticks \in 0..(TickPeriod - 1)
    /\ reg \in Context
    /\ dead \in BOOLEAN
    /\ fault \in BOOLEAN

\* NoFault: no sequence of preemptions, calls and failed allocations makes
\* resched, find_idle or find_thread follow a pointer that is not one, or
\* run a thread that has no stack.
NoFault == ~fault

\* What a failed allocation may leave behind that faults later: a thread of a
\* valid process whose memory create_thread has given back (no memory for its
\* stack), or no first process at all.
Dangling == \E t \in Pid \X Tid : processes[t[1]].valid /\ thread[t[1]][t[2]].ptr = "freed"
NoFirstProcess == sys_ready /\ ~processes[0].valid

\* FaultsExplained: no sequence of preemptions, calls and failed allocations
\* makes resched, find_idle or find_thread follow a pointer that is not one,
\* or run a thread that has no stack or entry point yet, however far the call
\* that creates it has come, except after one of the two failures that the
\* code does not clean up after.
FaultsExplained == fault => Dangling \/ NoFirstProcess

\* The threads with a given status.
With(status) == {t \in Pid \X Tid : thread[t[1]][t[2]].status = status
                                    /\ thread[t[1]][t[2]].ptr = "ok"}

\* OneRunning: once the scheduler runs, cpus[0] names the thread whose stack
\* the CPU is on, and that thread and no other is BUSY, so that get_pid,
\* get_tid and the next save are about the right one.
OneRunning ==
    NoFirstProcess \/ IF cpu.sys_ready THEN reg.stack = Current /\ With(BUSY) = {Current}
                                        ELSE reg.stack = Boot /\ With(BUSY) = {}

\* The context a thread of process 0 will go on with.
ContextOf(j) == IF <<0, j>> \in With(BUSY) THEN reg ELSE thread[0][j].ctx

\* The program points between acquire and release.
Critical == Labels \ {"null", "run", "sched_init", "kmain", "thread_lock", "process_lock"}

\* LockOwned: sched_mutex is taken exactly when one context, running,
\* preempted or at boot, is between acquire and release: preemption and the
\* boot context that the first switch abandons lose no lock owner.
LockOwned ==
    LET inside == {j \in Tid : /\ <<0, j>> \in With(BUSY) \cup With(IDLE)
                               /\ ContextOf(j).at \in Critical}
        boot == IF reg.stack = Boot /\ reg.at \in Critical THEN 1 ELSE 0
    IN  sched_mutex = Cardinality(inside) + boot

\* TablesExact: when nobody holds sched_mutex, the counts that resched's
\* early return relies on are right, and failed calls have left no thread
\* half made.
TablesExact ==
    sched_mutex = 0 =>
        /\ running_processes = Cardinality({i \in Pid : processes[i].valid})
        /\ \A i \in Pid : processes[i].valid =>
              /\ processes[i].thread_count =
                     Cardinality({j \in Tid : thread[i][j].ptr = "ok"})
              /\ \A j \in Tid : thread[i][j].ptr = "ok" => thread[i][j].status # NONE

\* EveryThreadRuns: a thread of process 0 that is ready to run gets the CPU,
\* however many threads are created meanwhile, unless the CPU has stopped in
\* an exception.
EveryThreadRuns ==
    \A j \in Tid : (thread[0][j].status = IDLE) ~> (thread[0][j].status = BUSY \/ fault)

\* LockComesBack: whoever takes sched_mutex gives it back, on every path of
\* create_thread and create_process and however often it is preempted,
\* unless the page allocator has died under it or the CPU has stopped in an
\* exception.
LockComesBack == (sched_mutex = 1) ~> (sched_mutex = 0 \/ dead \/ fault)

=============================================================================
