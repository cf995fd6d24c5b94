---------------------------- MODULE SchedProofs ----------------------------
(***************************************************************************)
(* Proofs about Sched for every number of processes and threads, every     *)
(* tick period and every choice of the allocations that may fail.          *)
(***************************************************************************)
EXTENDS Sched, FiniteSetTheorems, WellFoundedInduction, TLAPS

-----------------------------------------------------------------------------
(* The inductive invariant. A switch exchanges the registers and what is   *)
(* saved of a thread, so the invariant is stated for the set of contexts,  *)
(* which a switch leaves as it is: one of them at most is between acquire  *)
(* and release, and how far the tables have come is read off its program   *)
(* point.                                                                  *)

\* The threads of process 0 that find_idle may pick, and all contexts that may
\* go on.
Waiting == {j \in Tid : thread[0][j].status = IDLE}
Contexts == {reg} \cup {thread[0][j].ctx : j \in Waiting}

BootLabels ==
    {"process_lock", "process_find", "process_cr3", "process_table", "process_alloc",
     "process_stack", "process_undo", "process_idle", "process_valid", "process_count",
     "release", "sched_init", "kmain"}
ThreadLabels == Labels \ {"null", "sched_init", "kmain"}

\* Before the first switch: sched_init and its create_process, which has
\* process 0 to itself. If that fails, there is never another context.
AtBoot ==
    /\ reg.at \in BootLabels /\ reg.i = 0 /\ reg.j = 0
    /\ sys_ready <=> reg.at = "kmain"
    /\ cpu.tid = 0
    /\ cpu.sys_ready => sys_ready /\ ~processes[0].valid
    /\ \A i \in Pid \ {0} : ~processes[i].valid
    /\ \A j \in Tid : thread[0][j].status # BUSY /\ (j # 0 => thread[0][j] = NoThread)
    /\ processes[0].valid => reg.at \in {"process_count", "release", "sched_init", "kmain"}
    /\ reg.at \in {"release", "sched_init", "kmain"} =>
          (running_processes = IF processes[0].valid THEN 1 ELSE 0)
    /\ reg.at \notin {"release", "sched_init", "kmain"} => running_processes = 0
    /\ reg.at \in {"process_lock", "process_find", "process_cr3", "process_table"} =>
          processes[0].threads = "null" /\ thread[0][0] = NoThread
    /\ reg.at \in {"release", "sched_init", "kmain"} /\ ~processes[0].valid =>
          processes[0].threads # "ok" /\ thread[0][0].status = NONE

\* Afterwards: the CPU is on the stack of the one thread that is BUSY.
AtThread ==
    /\ reg.at \in ThreadLabels
    /\ sys_ready /\ cpu.sys_ready
    /\ reg.stack = <<0, cpu.tid>>
    /\ processes[0].valid
    /\ running_processes >= 1
    /\ \A j \in Tid : thread[0][j].status = BUSY <=> j = cpu.tid

Running ==
    /\ cpu.pid = 0
    /\ IF reg.stack = Boot THEN AtBoot ELSE AtThread

\* A thread of process 0 that waits can be loaded: it has its own stack and
\* somewhere to go on. What is freed or not there has no status.
Slots ==
    \A j \in Tid :
        /\ thread[0][j].ptr # "ok" => thread[0][j].status = NONE
        /\ thread[0][j].status = IDLE =>
              thread[0][j].ctx.stack = <<0, j>> /\ thread[0][j].ctx.at \in ThreadLabels

\* Processes behind the first have a main thread without a stack, and no other.
\* A valid process is complete.
Tables ==
    /\ \A i \in Pid \ {0} : /\ thread[i][0].status # BUSY
                            /\ \A j \in Tid \ {0} : thread[i][j] = NoThread
    /\ \A i \in Pid : processes[i].valid =>
          /\ processes[i].threads = "ok" /\ processes[i].cr3 = "ok"
          /\ thread[i][0].ptr = "ok" /\ thread[i][0].status # NONE
          /\ i # 0 => processes[i].thread_count = 1

\* sched_mutex has exactly one owner when it is taken, and none otherwise.
OneOwner ==
    /\ \A c, d \in Contexts : c.at \in Critical /\ d.at \in Critical => c = d
    /\ sched_mutex = 1 <=> \E c \in Contexts : c.at \in Critical

\* The threads of process 0 that are complete, and the valid processes.
Made == {j \in Tid : thread[0][j].ptr = "ok" /\ thread[0][j].status # NONE}
Valid == {i \in Pid : processes[i].valid}

\* Program points where a thread is allocated and not yet IDLE.
Halfway == {"thread_stack", "thread_undo", "thread_entry", "thread_idle",
            "process_stack", "process_undo", "process_idle"}

\* The tables when c owns sched_mutex: counts lag behind by the entry that c is
\* about to count, and only the thread that c is making is half made.
Consistent(c) ==
    /\ running_processes = Cardinality(Valid) - (IF c.at = "process_count" THEN 1 ELSE 0)
    /\ processes[0].valid =>
          processes[0].thread_count = Cardinality(Made) - (IF c.at = "thread_count" THEN 1 ELSE 0)
    /\ \A j \in Tid : thread[0][j].ptr = "ok" /\ thread[0][j].status = NONE =>
          c.at \in Halfway /\ c.i = 0 /\ c.j = j
    /\ \A i \in Pid : ~processes[i].valid /\ thread[i][0].status # NONE =>
          c.at = "process_valid" /\ c.i = i

\* What c has done of its create_thread. Slot 0 is the main thread's.
MakingThread(c) ==
    LET t == thread[0][c.j] IN
    /\ c.at \in {"thread_alloc", "thread_stack", "thread_undo", "thread_entry",
                 "thread_idle", "thread_count"} => c.i = 0 /\ c.j # 0
    /\ c.at = "thread_alloc" => t.ptr = "null"
    /\ c.at \in {"thread_stack", "thread_undo", "thread_entry", "thread_idle"} =>
          t.ptr = "ok" /\ t.status = NONE
    /\ c.at \in {"thread_entry", "thread_idle"} => t.ctx.stack = <<0, c.j>>
    /\ c.at = "thread_idle" => t.ctx.at = "run"

\* What c has done of its create_process.
MakingProcess(c) ==
    LET p == processes[c.i]
        t == thread[c.i][0] IN
    /\ c.at \in {"process_cr3", "process_table", "process_alloc", "process_stack",
                 "process_undo", "process_idle", "process_valid", "process_count"} =>
          c.j = 0 /\ (c.i = 0 <=> c.stack = Boot)
    /\ c.at \in {"process_cr3", "process_table", "process_alloc", "process_stack",
                 "process_undo", "process_idle", "process_valid"} => ~p.valid
    /\ c.at \in {"process_table", "process_alloc", "process_stack", "process_idle",
                 "process_valid"} => p.cr3 = "ok"
    /\ c.at \in {"process_alloc", "process_stack", "process_idle", "process_valid"} =>
          p.threads = "ok" /\ p.thread_count = 1
    /\ c.at \in {"process_stack", "process_idle"} =>
          t.ptr = "ok" /\ t.status = NONE /\ t.ctx.at = "run"
    /\ c.at \in {"process_cr3", "process_table", "process_alloc", "process_undo"} =>
          t.status = NONE
    /\ c.at = "process_idle" /\ c.i = 0 => t.ctx.stack = <<0, 0>>
    /\ c.at = "process_valid" => t.ptr = "ok" /\ t.status = IDLE
    /\ c.at = "process_count" => p.valid

Owned ==
    /\ sched_mutex = 0 => Consistent(NoContext)
    /\ \A c \in Contexts : c.at \in Critical =>
          Consistent(c) /\ MakingThread(c) /\ MakingProcess(c)

IInv ==
    /\ TypeOK
    /\ Running
    /\ Slots
    /\ Tables
    /\ OneOwner
    /\ Owned
    /\ FaultsExplained

-----------------------------------------------------------------------------
(* Facts that every step uses.                                             *)

Process == [valid : BOOLEAN, cr3 : Pointer, threads : Pointer, thread_count : 0..MaxThreads]
Slot == [ptr : Pointer, status : {NONE, IDLE, BUSY}, ctx : Context]

\* Slot 0 and process 0 exist.
LEMMA ZeroExists == 0 \in Pid /\ 0 \in Tid
BY SchedAssumption DEF Pid, Tid

\* A slot after kcalloc or a reset is well formed.
LEMMA ThreadTypes ==
    /\ NoContext \in Context
    /\ NoThread \in Slot
    /\ Calloced \in Slot
<1>1. NoContext \in Context
  BY ZeroExists DEF NoContext, Context, Labels
<1>. QED BY <1>1 DEF NoThread, Calloced, Pointer, Slot

\* The scheduler starts in a state in which the inductive invariant holds.
LEMMA InitIInv == Init => IInv
<1>. SUFFICES ASSUME Init PROVE IInv
  OBVIOUS
<1>. USE ZeroExists
<1>1. TypeOK
  <2>1. reg \in Context
    BY DEF Init, Context, Labels
  <2>2. thread \in [Pid -> [Tid -> [ptr : Pointer, status : {NONE, IDLE, BUSY},
                                    ctx : Context]]]
    BY ThreadTypes DEF Init, Slot
  <2>3. processes \in [Pid -> [valid : BOOLEAN, cr3 : Pointer, threads : Pointer,
                              thread_count : 0..MaxThreads]]
    BY SchedAssumption DEF Init, Pointer
  <2>4. running_processes \in 0..MaxProcesses /\ timer_ticks \in 0..(TickPeriod - 1)
    BY SchedAssumption DEF Init
  <2>5. /\ cpu \in [pid : Pid, tid : Tid, sys_ready : BOOLEAN]
        /\ sched_mutex \in {0, 1} /\ sys_ready \in BOOLEAN /\ dead \in BOOLEAN
        /\ fault \in BOOLEAN
    BY DEF Init
  <2>. QED BY <2>1, <2>2, <2>3, <2>4, <2>5 DEF TypeOK
<1>2. Running
  BY DEF Init, Running, AtBoot, BootLabels, NoThread, NONE, BUSY
<1>3. Slots
  BY DEF Init, Slots, NoThread, NONE, IDLE
<1>4. Tables
  BY DEF Init, Tables, NoThread, NONE, BUSY
<1>5. Contexts = {reg}
  BY DEF Init, Contexts, Waiting, NoThread, NONE, IDLE
<1>6. OneOwner
  BY <1>5 DEF Init, OneOwner, Critical
<1>7. Owned
  <2>1. Valid = {}
    BY DEF Init, Valid
  <2>2. Consistent(NoContext)
    BY <2>1, FS_EmptySet DEF Init, Consistent, NoThread, NoContext, NONE
  <2>. QED BY <1>5, <2>2 DEF Init, Owned, Critical
<1>8. FaultsExplained
  BY DEF Init, FaultsExplained
<1>. QED BY <1>1, <1>2, <1>3, <1>4, <1>6, <1>7, <1>8 DEF IInv

\* No thread that waits is on the stack the CPU is on.
LEMMA StacksDiffer ==
    ASSUME IInv, NEW j \in Waiting
    PROVE  thread[0][j].ctx # reg
<1>1. j \in Tid /\ thread[0][j].status = IDLE /\ thread[0][j].ctx.stack = <<0, j>>
  BY DEF IInv, Slots, Waiting
<1>2. CASE reg.stack = Boot
  BY <1>1, <1>2 DEF Boot
<1>3. CASE reg.stack # Boot
  <2>1. reg.stack = <<0, cpu.tid>> /\ thread[0][cpu.tid].status = BUSY
    BY <1>3 DEF IInv, Running, AtThread, TypeOK
  <2>. QED BY <1>1, <2>1 DEF IDLE, BUSY
<1>. QED BY <1>2, <1>3

\* No waiting thread is between acquire and release.
Quiet == \A j \in Waiting : thread[0][j].ctx.at \notin Critical

\* While the running context owns sched_mutex, nobody else does.
LEMMA OwnerAlone ==
    ASSUME IInv, reg.at \in Critical
    PROVE  /\ Quiet
           /\ sched_mutex = 1
           /\ Consistent(reg) /\ MakingThread(reg) /\ MakingProcess(reg)
<1>1. reg \in Contexts
  BY DEF Contexts
<1>2. Quiet
  <2>1. SUFFICES ASSUME NEW j \in Waiting, thread[0][j].ctx.at \in Critical PROVE FALSE
    BY DEF Quiet
  <2>2. thread[0][j].ctx \in Contexts
    BY DEF Contexts
  <2>3. thread[0][j].ctx = reg
    BY <1>1, <2>1, <2>2 DEF IInv, OneOwner
  <2>. QED BY <2>3, StacksDiffer
<1>. QED BY <1>1, <1>2 DEF IInv, OneOwner, Owned

\* A step that keeps or takes the lock has to look after itself only.
LEMMA OwnerStep ==
    ASSUME Quiet', reg'.at \in Critical, sched_mutex' = 1,
           Consistent(reg)', MakingThread(reg)', MakingProcess(reg)'
    PROVE  OneOwner' /\ Owned'
<1>1. \A c \in Contexts' : c.at \in Critical => c = reg'
  BY DEF Contexts, Quiet
<1>2. reg' \in Contexts'
  BY DEF Contexts
<1>3. OneOwner'
  BY <1>1, <1>2 DEF OneOwner, Critical
<1>4. Owned'
  BY <1>1 DEF Owned, Critical
<1>. QED BY <1>3, <1>4

\* The counts of complete threads and of valid processes are numbers in range.
LEMMA Sizes ==
    /\ IsFiniteSet(Made) /\ Cardinality(Made) \in 0..MaxThreads
    /\ IsFiniteSet(Valid) /\ Cardinality(Valid) \in 0..MaxProcesses
<1>1. IsFiniteSet(Tid) /\ Cardinality(Tid) = MaxThreads
  BY SchedAssumption, FS_Interval DEF Tid
<1>2. IsFiniteSet(Pid) /\ Cardinality(Pid) = MaxProcesses
  BY SchedAssumption, FS_Interval DEF Pid
<1>3. Made \subseteq Tid /\ Valid \subseteq Pid
  BY DEF Made, Valid
<1>. QED BY <1>1, <1>2, <1>3, FS_Subset, FS_CardinalityType, SchedAssumption

-----------------------------------------------------------------------------
(* The steps of create_thread and create_process preserve the invariant.   *)

\* The slot is filled, and its thread has no status yet.
LEMMA AllocThreadIInv ==
    ASSUME IInv, AllocThread
    PROVE  IInv'
<1>. USE ZeroExists
<1>1. /\ reg.at = "thread_alloc" /\ ~fault
      /\ Quiet /\ sched_mutex = 1
      /\ Consistent(reg) /\ MakingThread(reg) /\ MakingProcess(reg)
  BY OwnerAlone DEF AllocThread, From, Critical, Labels
<1>2. reg.stack # Boot /\ AtThread /\ cpu.pid = 0 /\ reg.i = 0 /\ reg.j # 0 /\ reg.j \in Tid
  BY <1>1 DEF IInv, TypeOK, Context, Running, AtBoot, BootLabels, MakingThread
<1>3. thread \in [Pid -> [Tid -> Slot]]
  BY DEF IInv, TypeOK, Slot
<1>4. Calloced \in Slot
  BY ThreadTypes
<1>5. thread' = [thread EXCEPT ![0][reg.j] = Calloced]
  BY <1>1, <1>2 DEF AllocThread
<1>6. /\ thread' \in [Pid -> [Tid -> Slot]] /\ thread'[0][reg.j] = Calloced
      /\ \A k \in Pid, l \in Tid : k # 0 \/ l # reg.j => thread'[k][l] = thread[k][l]
  BY <1>2, <1>3, <1>4, <1>5
<1>7. /\ reg'.at = "thread_stack" /\ reg'.at \in Critical
      /\ reg'.stack = reg.stack /\ reg'.i = reg.i /\ reg'.j = reg.j
      /\ reg' \in Context
  BY <1>1, <1>2 DEF IInv, TypeOK, Context, Labels, Critical, AllocThread, From,
     Succeeds, tables, clock
<1>8. /\ \A i \in Pid, j \in Tid : i # 0 \/ j # reg.j => thread'[i][j] = thread[i][j]
      /\ thread'[0][reg.j] = Calloced
  BY <1>2, <1>4, <1>6
<1>9. /\ UNCHANGED <<processes, running_processes, sched_mutex, sys_ready, cpu,
                     timer_ticks, fault>>
      /\ sched_mutex' = 1 /\ dead' \in BOOLEAN
  BY <1>1 DEF IInv, TypeOK, AllocThread, Succeeds, tables, clock
<1>10. TypeOK'
  BY <1>7, <1>8, <1>9, <1>6 DEF IInv, TypeOK, Slot, Process
<1>11. Running'
  BY <1>1, <1>2, <1>7, <1>8, <1>9 DEF IInv, Slots, Running, AtThread, ThreadLabels,
     Labels, MakingThread, NONE, IDLE, BUSY, Calloced
<1>12. Slots' /\ Tables'
  <2>1. Slots'
    BY <1>1, <1>2, <1>7, <1>8, <1>9 DEF IInv, Slots, MakingThread, Calloced,
       ThreadLabels, Labels, NONE, IDLE
  <2>2. Tables'
    BY <1>1, <1>2, <1>7, <1>8, <1>9 DEF IInv, AtThread, Tables, MakingThread,
       Calloced, NONE, IDLE, BUSY
  <2>. QED BY <2>1, <2>2
<1>13. Quiet'
  BY <1>1, <1>2, <1>7, <1>8, <1>9 DEF Quiet, Waiting, MakingThread, Critical,
     Labels, NONE, IDLE, Calloced
<1>14. Consistent(reg)'
  <2>1. Valid' = Valid /\ (processes[0].valid => Made' = Made)
    BY <1>1, <1>2, <1>7, <1>8, <1>9 DEF Valid, Made, MakingThread, Calloced, NONE,
       IDLE
  <2>. QED BY <1>1, <1>2, <1>7, <1>8, <1>9, <2>1 DEF Consistent, MakingThread,
     Halfway, Calloced, NONE, IDLE
<1>15. MakingThread(reg)'
  BY <1>1, <1>2, <1>7, <1>8, <1>9 DEF MakingThread, Calloced, NONE
<1>16. MakingProcess(reg)'
  BY <1>7, <1>8, <1>9 DEF MakingProcess
<1>17. FaultsExplained'
  BY <1>1, <1>7, <1>8, <1>9 DEF FaultsExplained
<1>18. OneOwner' /\ Owned'
  BY <1>7, <1>8, <1>9, <1>13, <1>14, <1>15, <1>16, OwnerStep
<1>. QED BY <1>10, <1>11, <1>12, <1>17, <1>18 DEF IInv

\* Without memory for the thread, its slot stays empty.
LEMMA AllocThreadFailsIInv ==
    ASSUME IInv, AllocThreadFails
    PROVE  IInv'
<1>. USE ZeroExists
<1>1. /\ reg.at = "thread_alloc" /\ ~fault
      /\ Quiet /\ sched_mutex = 1
      /\ Consistent(reg) /\ MakingThread(reg) /\ MakingProcess(reg)
  BY OwnerAlone DEF AllocThreadFails, From, Critical, Labels
<1>2. reg.stack # Boot /\ AtThread /\ cpu.pid = 0 /\ reg.i = 0 /\ reg.j # 0 /\ reg.j \in Tid
  BY <1>1 DEF IInv, TypeOK, Context, Running, AtBoot, BootLabels, MakingThread
<1>3. thread \in [Pid -> [Tid -> Slot]]
  BY DEF IInv, TypeOK, Slot
<1>4. NoThread \in Slot
  BY ThreadTypes
<1>5. thread' = [thread EXCEPT ![0][reg.j] = NoThread]
  BY <1>1, <1>2 DEF AllocThreadFails
<1>6. /\ thread' \in [Pid -> [Tid -> Slot]] /\ thread'[0][reg.j] = NoThread
      /\ \A k \in Pid, l \in Tid : k # 0 \/ l # reg.j => thread'[k][l] = thread[k][l]
  BY <1>2, <1>3, <1>4, <1>5
<1>7. /\ reg'.at = "release" /\ reg'.at \in Critical
      /\ reg'.stack = reg.stack /\ reg'.i = reg.i /\ reg'.j = reg.j
      /\ reg' \in Context
  BY <1>1, <1>2 DEF IInv, TypeOK, Context, Labels, Critical, AllocThreadFails, From,
     Fails, tables, clock
<1>8. /\ \A i \in Pid, j \in Tid : i # 0 \/ j # reg.j => thread'[i][j] = thread[i][j]
      /\ thread'[0][reg.j] = NoThread
  BY <1>2, <1>4, <1>6
<1>9. /\ UNCHANGED <<processes, running_processes, sched_mutex, sys_ready, cpu,
                     timer_ticks, fault>>
      /\ sched_mutex' = 1 /\ dead' \in BOOLEAN
  BY <1>1 DEF IInv, TypeOK, AllocThreadFails, Fails, tables, clock
<1>10. TypeOK'
  BY <1>7, <1>8, <1>9, <1>6 DEF IInv, TypeOK, Slot, Process
<1>11. Running'
  BY <1>1, <1>2, <1>7, <1>8, <1>9 DEF IInv, Slots, Running, AtThread, ThreadLabels,
     Labels, MakingThread, NONE, IDLE, BUSY, NoThread
<1>12. Slots' /\ Tables'
  <2>1. Slots'
    BY <1>1, <1>2, <1>7, <1>8, <1>9 DEF IInv, Slots, MakingThread, NoThread,
       ThreadLabels, Labels, NONE, IDLE
  <2>2. Tables'
    BY <1>1, <1>2, <1>7, <1>8, <1>9 DEF IInv, AtThread, Tables, MakingThread,
       NoThread, NONE, IDLE, BUSY
  <2>. QED BY <2>1, <2>2
<1>13. Quiet'
  BY <1>1, <1>2, <1>7, <1>8, <1>9 DEF Quiet, Waiting, MakingThread, Critical,
     Labels, NONE, IDLE, NoThread
<1>14. Consistent(reg)'
  <2>1. Valid' = Valid /\ (processes[0].valid => Made' = Made)
    BY <1>1, <1>2, <1>7, <1>8, <1>9 DEF Valid, Made, MakingThread, NoThread, NONE,
       IDLE
  <2>. QED BY <1>1, <1>2, <1>7, <1>8, <1>9, <2>1 DEF Consistent, MakingThread,
     Halfway, NoThread, NONE, IDLE
<1>15. MakingThread(reg)'
  BY <1>1, <1>2, <1>7, <1>8, <1>9 DEF MakingThread
<1>16. MakingProcess(reg)'
  BY <1>7, <1>8, <1>9 DEF MakingProcess
<1>17. FaultsExplained'
  BY <1>1, <1>7, <1>8, <1>9 DEF FaultsExplained
<1>18. OneOwner' /\ Owned'
  BY <1>7, <1>8, <1>9, <1>13, <1>14, <1>15, <1>16, OwnerStep
<1>. QED BY <1>10, <1>11, <1>12, <1>17, <1>18 DEF IInv

\* The new thread gets a stack of its own.
LEMMA AllocStackIInv ==
    ASSUME IInv, AllocStack
    PROVE  IInv'
<1>. USE ZeroExists
<1>1. /\ reg.at = "thread_stack" /\ ~fault
      /\ Quiet /\ sched_mutex = 1
      /\ Consistent(reg) /\ MakingThread(reg) /\ MakingProcess(reg)
  BY OwnerAlone DEF AllocStack, From, Critical, Labels
<1>2. reg.stack # Boot /\ AtThread /\ cpu.pid = 0 /\ reg.i = 0 /\ reg.j # 0 /\ reg.j \in Tid
  BY <1>1 DEF IInv, TypeOK, Context, Running, AtBoot, BootLabels, MakingThread
<1>. DEFINE s == [thread[0][reg.j] EXCEPT !.ctx.stack = <<0, reg.j>>]
<1>3. thread \in [Pid -> [Tid -> Slot]]
  BY DEF IInv, TypeOK, Slot
<1>4. /\ s \in Slot
      /\ s.ptr = thread[0][reg.j].ptr
      /\ s.status = thread[0][reg.j].status
      /\ s.ctx.stack = <<0, reg.j>>
      /\ s.ctx.at = thread[0][reg.j].ctx.at
  <2>1. thread[0][reg.j] \in Slot
    BY <1>2, <1>3
  <2>. QED BY <1>2, <2>1, ThreadTypes DEF Slot, Pointer, Context, Labels
<1>5. thread' = [thread EXCEPT ![0][reg.j] = s]
  BY <1>1, <1>2 DEF AllocStack
<1>. HIDE DEF s
<1>6. /\ thread' \in [Pid -> [Tid -> Slot]] /\ thread'[0][reg.j] = s
      /\ \A k \in Pid, l \in Tid : k # 0 \/ l # reg.j => thread'[k][l] = thread[k][l]
  BY <1>2, <1>3, <1>4, <1>5
<1>7. /\ reg'.at = "thread_entry" /\ reg'.at \in Critical
      /\ reg'.stack = reg.stack /\ reg'.i = reg.i /\ reg'.j = reg.j
      /\ reg' \in Context
  BY <1>1, <1>2 DEF IInv, TypeOK, Context, Labels, Critical, AllocStack, From,
     Succeeds, tables, clock
<1>8. /\ \A i \in Pid, j \in Tid : i # 0 \/ j # reg.j => thread'[i][j] = thread[i][j]
      /\ thread'[0][reg.j].ptr = thread[0][reg.j].ptr
      /\ thread'[0][reg.j].status = thread[0][reg.j].status
      /\ thread'[0][reg.j].ctx.stack = <<0, reg.j>>
      /\ thread'[0][reg.j].ctx.at = thread[0][reg.j].ctx.at
  BY <1>2, <1>4, <1>6
<1>9. /\ UNCHANGED <<processes, running_processes, sched_mutex, sys_ready, cpu,
                     timer_ticks, fault>>
      /\ sched_mutex' = 1 /\ dead' \in BOOLEAN
  BY <1>1 DEF IInv, TypeOK, AllocStack, Succeeds, tables, clock
<1>10. TypeOK'
  BY <1>7, <1>8, <1>9, <1>6 DEF IInv, TypeOK, Slot, Process
<1>11. Running'
  BY <1>1, <1>2, <1>7, <1>8, <1>9 DEF IInv, Slots, Running, AtThread, ThreadLabels,
     Labels, MakingThread, NONE, IDLE, BUSY
<1>12. Slots' /\ Tables'
  <2>1. Slots'
    BY <1>1, <1>2, <1>7, <1>8, <1>9 DEF IInv, Slots, MakingThread, ThreadLabels,
       Labels, NONE, IDLE
  <2>2. Tables'
    BY <1>1, <1>2, <1>7, <1>8, <1>9 DEF IInv, AtThread, Tables, MakingThread, NONE,
       IDLE, BUSY
  <2>. QED BY <2>1, <2>2
<1>13. Quiet'
  BY <1>1, <1>2, <1>7, <1>8, <1>9 DEF Quiet, Waiting, MakingThread, Critical,
     Labels, NONE, IDLE
<1>14. Consistent(reg)'
  <2>1. Valid' = Valid /\ (processes[0].valid => Made' = Made)
    BY <1>1, <1>2, <1>7, <1>8, <1>9 DEF Valid, Made, MakingThread, NONE, IDLE
  <2>. QED BY <1>1, <1>2, <1>7, <1>8, <1>9, <2>1 DEF Consistent, MakingThread,
     Halfway, NONE, IDLE
<1>15. MakingThread(reg)'
  BY <1>1, <1>2, <1>7, <1>8, <1>9 DEF MakingThread
<1>16. MakingProcess(reg)'
  BY <1>7, <1>8, <1>9 DEF MakingProcess
<1>17. FaultsExplained'
  BY <1>1, <1>7, <1>8, <1>9 DEF FaultsExplained
<1>18. OneOwner' /\ Owned'
  BY <1>7, <1>8, <1>9, <1>13, <1>14, <1>15, <1>16, OwnerStep
<1>. QED BY <1>10, <1>11, <1>12, <1>17, <1>18 DEF IInv

\* The failure of a stack leaves all tables alone.
LEMMA AllocStackFailsIInv ==
    ASSUME IInv, AllocStackFails
    PROVE  IInv'
<1>. USE ZeroExists
<1>1. /\ reg.at = "thread_stack" /\ ~fault
      /\ Quiet /\ sched_mutex = 1
      /\ Consistent(reg) /\ MakingThread(reg) /\ MakingProcess(reg)
  BY OwnerAlone DEF AllocStackFails, From, Critical, Labels
<1>2. reg.stack # Boot /\ AtThread /\ cpu.pid = 0 /\ reg.i = 0 /\ reg.j # 0 /\ reg.j \in Tid
  BY <1>1 DEF IInv, TypeOK, Context, Running, AtBoot, BootLabels, MakingThread
<1>3. /\ reg'.at = "thread_undo" /\ reg'.at \in Critical
      /\ reg'.stack = reg.stack /\ reg'.i = reg.i /\ reg'.j = reg.j
      /\ reg' \in Context
      /\ thread' = thread
      /\ processes' = processes
      /\ UNCHANGED <<running_processes, sched_mutex, sys_ready, cpu, timer_ticks, fault>>
      /\ sched_mutex' = 1 /\ dead' \in BOOLEAN
  BY <1>1, <1>2 DEF IInv, TypeOK, Context, Labels, Critical, AllocStackFails, From,
     Fails, tables, clock
<1>4. TypeOK'
  BY <1>3 DEF IInv, TypeOK, Slot, Process
<1>5. Running'
  BY <1>2, <1>3 DEF Running, AtThread, ThreadLabels, Labels
<1>6. Slots' /\ Tables'
  BY <1>3 DEF IInv, Slots, Tables
<1>7. Quiet'
  BY <1>1, <1>3 DEF Quiet, Waiting
<1>8. Consistent(reg)'
  BY <1>1, <1>3 DEF Consistent, Valid, Made, Halfway
<1>9. MakingThread(reg)'
  BY <1>1, <1>2, <1>3 DEF MakingThread
<1>10. MakingProcess(reg)'
  BY <1>3 DEF MakingProcess
<1>11. FaultsExplained'
  BY <1>1, <1>3 DEF FaultsExplained
<1>12. OneOwner' /\ Owned'
  BY <1>3, <1>7, <1>8, <1>9, <1>10, OwnerStep
<1>. QED BY <1>4, <1>5, <1>6, <1>11, <1>12 DEF IInv

\* The freed thread keeps its slot, without a status.
LEMMA UndoThreadIInv ==
    ASSUME IInv, UndoThread
    PROVE  IInv'
<1>. USE ZeroExists
<1>1. /\ reg.at = "thread_undo" /\ ~fault
      /\ Quiet /\ sched_mutex = 1
      /\ Consistent(reg) /\ MakingThread(reg) /\ MakingProcess(reg)
  BY OwnerAlone DEF UndoThread, From, Critical, Labels
<1>2. reg.stack # Boot /\ AtThread /\ cpu.pid = 0 /\ reg.i = 0 /\ reg.j # 0 /\ reg.j \in Tid
  BY <1>1 DEF IInv, TypeOK, Context, Running, AtBoot, BootLabels, MakingThread
<1>. DEFINE s == [thread[0][reg.j] EXCEPT !.ptr = "freed"]
<1>3. thread \in [Pid -> [Tid -> Slot]]
  BY DEF IInv, TypeOK, Slot
<1>4. /\ s \in Slot
      /\ s.ptr = "freed"
      /\ s.status = thread[0][reg.j].status
      /\ s.ctx.stack = thread[0][reg.j].ctx.stack
      /\ s.ctx.at = thread[0][reg.j].ctx.at
  <2>1. thread[0][reg.j] \in Slot
    BY <1>2, <1>3
  <2>. QED BY <1>2, <2>1, ThreadTypes DEF Slot, Pointer, Context, Labels
<1>5. thread' = [thread EXCEPT ![0][reg.j] = s]
  BY <1>1, <1>2 DEF UndoThread
<1>. HIDE DEF s
<1>6. /\ thread' \in [Pid -> [Tid -> Slot]] /\ thread'[0][reg.j] = s
      /\ \A k \in Pid, l \in Tid : k # 0 \/ l # reg.j => thread'[k][l] = thread[k][l]
  BY <1>2, <1>3, <1>4, <1>5
<1>7. /\ reg'.at = "release" /\ reg'.at \in Critical
      /\ reg'.stack = reg.stack /\ reg'.i = reg.i /\ reg'.j = reg.j
      /\ reg' \in Context
  BY <1>1, <1>2 DEF IInv, TypeOK, Context, Labels, Critical, UndoThread, From,
     tables, clock
<1>8. /\ \A i \in Pid, j \in Tid : i # 0 \/ j # reg.j => thread'[i][j] = thread[i][j]
      /\ thread'[0][reg.j].ptr = "freed"
      /\ thread'[0][reg.j].status = thread[0][reg.j].status
      /\ thread'[0][reg.j].ctx.stack = thread[0][reg.j].ctx.stack
      /\ thread'[0][reg.j].ctx.at = thread[0][reg.j].ctx.at
  BY <1>2, <1>4, <1>6
<1>9. /\ UNCHANGED <<processes, running_processes, sched_mutex, sys_ready, cpu,
                     timer_ticks, fault>>
      /\ sched_mutex' = 1 /\ dead' \in BOOLEAN
  BY <1>1 DEF IInv, TypeOK, UndoThread, tables, clock
<1>10. TypeOK'
  BY <1>7, <1>8, <1>9, <1>6 DEF IInv, TypeOK, Slot, Process
<1>11. Running'
  BY <1>1, <1>2, <1>7, <1>8, <1>9 DEF IInv, Slots, Running, AtThread, ThreadLabels,
     Labels, MakingThread, NONE, IDLE, BUSY
<1>12. Slots' /\ Tables'
  <2>1. Slots'
    BY <1>1, <1>2, <1>7, <1>8, <1>9 DEF IInv, Slots, MakingThread, ThreadLabels,
       Labels, NONE, IDLE
  <2>2. Tables'
    BY <1>1, <1>2, <1>7, <1>8, <1>9 DEF IInv, AtThread, Tables, MakingThread, NONE,
       IDLE, BUSY
  <2>. QED BY <2>1, <2>2
<1>13. Quiet'
  BY <1>1, <1>2, <1>7, <1>8, <1>9 DEF Quiet, Waiting, MakingThread, Critical,
     Labels, NONE, IDLE
<1>14. Consistent(reg)'
  <2>1. Valid' = Valid /\ (processes[0].valid => Made' = Made)
    BY <1>1, <1>2, <1>7, <1>8, <1>9 DEF Valid, Made, MakingThread, NONE, IDLE
  <2>. QED BY <1>1, <1>2, <1>7, <1>8, <1>9, <2>1 DEF Consistent, MakingThread,
     Halfway, NONE, IDLE
<1>15. MakingThread(reg)'
  BY <1>1, <1>2, <1>7, <1>8, <1>9 DEF MakingThread
<1>16. MakingProcess(reg)'
  BY <1>7, <1>8, <1>9 DEF MakingProcess
<1>17. FaultsExplained'
  BY <1>1, <1>7, <1>8, <1>9 DEF FaultsExplained
<1>18. OneOwner' /\ Owned'
  BY <1>7, <1>8, <1>9, <1>13, <1>14, <1>15, <1>16, OwnerStep
<1>. QED BY <1>10, <1>11, <1>12, <1>17, <1>18 DEF IInv

\* The new thread gets its entry point.
LEMMA SetEntryIInv ==
    ASSUME IInv, SetEntry
    PROVE  IInv'
<1>. USE ZeroExists
<1>1. /\ reg.at = "thread_entry" /\ ~fault
      /\ Quiet /\ sched_mutex = 1
      /\ Consistent(reg) /\ MakingThread(reg) /\ MakingProcess(reg)
  BY OwnerAlone DEF SetEntry, From, Critical, Labels
<1>2. reg.stack # Boot /\ AtThread /\ cpu.pid = 0 /\ reg.i = 0 /\ reg.j # 0 /\ reg.j \in Tid
  BY <1>1 DEF IInv, TypeOK, Context, Running, AtBoot, BootLabels, MakingThread
<1>. DEFINE s == [thread[0][reg.j] EXCEPT !.ctx.at = "run"]
<1>3. thread \in [Pid -> [Tid -> Slot]]
  BY DEF IInv, TypeOK, Slot
<1>4. /\ s \in Slot
      /\ s.ptr = thread[0][reg.j].ptr
      /\ s.status = thread[0][reg.j].status
      /\ s.ctx.stack = thread[0][reg.j].ctx.stack
      /\ s.ctx.at = "run"
  <2>1. thread[0][reg.j] \in Slot
    BY <1>2, <1>3
  <2>. QED BY <1>2, <2>1, ThreadTypes DEF Slot, Pointer, Context, Labels
<1>5. thread' = [thread EXCEPT ![0][reg.j] = s]
  BY <1>1, <1>2 DEF SetEntry
<1>. HIDE DEF s
<1>6. /\ thread' \in [Pid -> [Tid -> Slot]] /\ thread'[0][reg.j] = s
      /\ \A k \in Pid, l \in Tid : k # 0 \/ l # reg.j => thread'[k][l] = thread[k][l]
  BY <1>2, <1>3, <1>4, <1>5
<1>7. /\ reg'.at = "thread_idle" /\ reg'.at \in Critical
      /\ reg'.stack = reg.stack /\ reg'.i = reg.i /\ reg'.j = reg.j
      /\ reg' \in Context
  BY <1>1, <1>2 DEF IInv, TypeOK, Context, Labels, Critical, SetEntry, From, tables,
     clock
<1>8. /\ \A i \in Pid, j \in Tid : i # 0 \/ j # reg.j => thread'[i][j] = thread[i][j]
      /\ thread'[0][reg.j].ptr = thread[0][reg.j].ptr
      /\ thread'[0][reg.j].status = thread[0][reg.j].status
      /\ thread'[0][reg.j].ctx.stack = thread[0][reg.j].ctx.stack
      /\ thread'[0][reg.j].ctx.at = "run"
  BY <1>2, <1>4, <1>6
<1>9. /\ UNCHANGED <<processes, running_processes, sched_mutex, sys_ready, cpu,
                     timer_ticks, fault>>
      /\ sched_mutex' = 1 /\ dead' \in BOOLEAN
  BY <1>1 DEF IInv, TypeOK, SetEntry, tables, clock
<1>10. TypeOK'
  BY <1>7, <1>8, <1>9, <1>6 DEF IInv, TypeOK, Slot, Process
<1>11. Running'
  BY <1>1, <1>2, <1>7, <1>8, <1>9 DEF IInv, Slots, Running, AtThread, ThreadLabels,
     Labels, MakingThread, NONE, IDLE, BUSY
<1>12. Slots' /\ Tables'
  <2>1. Slots'
    BY <1>1, <1>2, <1>7, <1>8, <1>9 DEF IInv, Slots, MakingThread, ThreadLabels,
       Labels, NONE, IDLE
  <2>2. Tables'
    BY <1>1, <1>2, <1>7, <1>8, <1>9 DEF IInv, AtThread, Tables, MakingThread, NONE,
       IDLE, BUSY
  <2>. QED BY <2>1, <2>2
<1>13. Quiet'
  BY <1>1, <1>2, <1>7, <1>8, <1>9 DEF Quiet, Waiting, MakingThread, Critical,
     Labels, NONE, IDLE
<1>14. Consistent(reg)'
  <2>1. Valid' = Valid /\ (processes[0].valid => Made' = Made)
    BY <1>1, <1>2, <1>7, <1>8, <1>9 DEF Valid, Made, MakingThread, NONE, IDLE
  <2>. QED BY <1>1, <1>2, <1>7, <1>8, <1>9, <2>1 DEF Consistent, MakingThread,
     Halfway, NONE, IDLE
<1>15. MakingThread(reg)'
  BY <1>1, <1>2, <1>7, <1>8, <1>9 DEF MakingThread
<1>16. MakingProcess(reg)'
  BY <1>7, <1>8, <1>9 DEF MakingProcess
<1>17. FaultsExplained'
  BY <1>1, <1>7, <1>8, <1>9 DEF FaultsExplained
<1>18. OneOwner' /\ Owned'
  BY <1>7, <1>8, <1>9, <1>13, <1>14, <1>15, <1>16, OwnerStep
<1>. QED BY <1>10, <1>11, <1>12, <1>17, <1>18 DEF IInv

\* The process being created gets its page table.
LEMMA AllocCr3IInv ==
    ASSUME IInv, AllocCr3
    PROVE  IInv'
<1>. USE ZeroExists
<1>1. /\ reg.at = "process_cr3" /\ ~fault
      /\ Quiet /\ sched_mutex = 1
      /\ Consistent(reg) /\ MakingThread(reg) /\ MakingProcess(reg)
  BY OwnerAlone DEF AllocCr3, From, Critical, Labels
<1>2. reg.j = 0 /\ reg.i \in Pid /\ (reg.i = 0 <=> reg.stack = Boot)
  BY <1>1 DEF IInv, TypeOK, Context, MakingProcess
<1>3. processes \in [Pid -> Process]
  BY DEF IInv, TypeOK, Process
<1>4. /\ processes' \in [Pid -> Process] /\ processes'[reg.i].cr3 = "ok"
      /\ processes'[reg.i].valid = processes[reg.i].valid
      /\ processes'[reg.i].threads = processes[reg.i].threads
      /\ processes'[reg.i].thread_count = processes[reg.i].thread_count
      /\ \A k \in Pid : k # reg.i => processes'[k] = processes[k]
  BY <1>2, <1>3, SchedAssumption DEF Process, Pointer, AllocCr3, SetProcess
<1>5. /\ reg'.at = "process_table" /\ reg'.at \in Critical
      /\ reg'.stack = reg.stack /\ reg'.i = reg.i /\ reg'.j = reg.j
      /\ reg' \in Context
  BY <1>1, <1>2 DEF IInv, TypeOK, Context, Labels, Critical, AllocCr3, From,
     Succeeds, tables, clock, SetProcess
<1>6. /\ \A i \in Pid : i # reg.i => processes'[i] = processes[i]
      /\ processes'[reg.i].valid = processes[reg.i].valid
      /\ processes'[reg.i].cr3 = "ok"
      /\ processes'[reg.i].threads = processes[reg.i].threads
      /\ processes'[reg.i].thread_count = processes[reg.i].thread_count
  BY <1>2, <1>4
<1>7. /\ UNCHANGED <<thread, running_processes, sched_mutex, sys_ready, cpu,
                     timer_ticks, fault>>
      /\ sched_mutex' = 1 /\ dead' \in BOOLEAN
  BY <1>1 DEF IInv, TypeOK, AllocCr3, Succeeds, tables, clock, SetProcess
<1>8. TypeOK'
  BY <1>5, <1>6, <1>7, <1>4 DEF IInv, TypeOK, Slot, Process
<1>9. Running'
  <2>1. CASE reg.stack = Boot
    BY <1>1, <1>2, <1>5, <1>6, <1>7, <2>1 DEF IInv, Running, AtBoot, BootLabels,
       MakingProcess, NoThread, NONE, IDLE, BUSY
  <2>2. CASE reg.stack # Boot
    BY <1>1, <1>2, <1>5, <1>6, <1>7, <2>2 DEF IInv, TypeOK, Running, AtThread,
       ThreadLabels, Labels, MakingProcess
  <2>. QED BY <2>1, <2>2
<1>10. Slots' /\ Tables'
  <2>1. Slots'
    BY <1>5, <1>6, <1>7 DEF IInv, Slots
  <2>2. Tables'
    BY <1>1, <1>2, <1>5, <1>6, <1>7 DEF IInv, Tables, MakingProcess, NONE, IDLE,
       BUSY
  <2>. QED BY <2>1, <2>2
<1>11. Quiet'
  BY <1>1, <1>5, <1>6, <1>7 DEF Quiet, Waiting
<1>12. Consistent(reg)'
  <2>1. Valid' = Valid /\ (processes[0].valid => Made' = Made)
    BY <1>1, <1>2, <1>5, <1>6, <1>7 DEF IInv, Running, AtBoot, Valid, Made,
       MakingProcess, NONE, IDLE
  <2>. QED BY <1>1, <1>2, <1>5, <1>6, <1>7, <2>1 DEF Consistent, MakingProcess,
     Halfway, NONE, IDLE
<1>13. MakingThread(reg)'
  BY <1>5, <1>6, <1>7 DEF MakingThread
<1>14. MakingProcess(reg)'
  BY <1>1, <1>2, <1>5, <1>6, <1>7 DEF MakingProcess
<1>15. FaultsExplained'
  BY <1>1, <1>5, <1>6, <1>7 DEF FaultsExplained
<1>16. OneOwner' /\ Owned'
  BY <1>5, <1>6, <1>7, <1>11, <1>12, <1>13, <1>14, OwnerStep
<1>. QED BY <1>8, <1>9, <1>10, <1>15, <1>16 DEF IInv

\* Without a page table, the process stays invalid.
LEMMA AllocCr3FailsIInv ==
    ASSUME IInv, AllocCr3Fails
    PROVE  IInv'
<1>. USE ZeroExists
<1>1. /\ reg.at = "process_cr3" /\ ~fault
      /\ Quiet /\ sched_mutex = 1
      /\ Consistent(reg) /\ MakingThread(reg) /\ MakingProcess(reg)
  BY OwnerAlone DEF AllocCr3Fails, From, Critical, Labels
<1>2. reg.j = 0 /\ reg.i \in Pid /\ (reg.i = 0 <=> reg.stack = Boot)
  BY <1>1 DEF IInv, TypeOK, Context, MakingProcess
<1>3. processes \in [Pid -> Process]
  BY DEF IInv, TypeOK, Process
<1>4. /\ processes' \in [Pid -> Process] /\ processes'[reg.i].cr3 = "null"
      /\ processes'[reg.i].valid = processes[reg.i].valid
      /\ processes'[reg.i].threads = processes[reg.i].threads
      /\ processes'[reg.i].thread_count = processes[reg.i].thread_count
      /\ \A k \in Pid : k # reg.i => processes'[k] = processes[k]
  BY <1>2, <1>3, SchedAssumption DEF Process, Pointer, AllocCr3Fails, SetProcess
<1>5. /\ reg'.at = "release" /\ reg'.at \in Critical
      /\ reg'.stack = reg.stack /\ reg'.i = reg.i /\ reg'.j = reg.j
      /\ reg' \in Context
  BY <1>1, <1>2 DEF IInv, TypeOK, Context, Labels, Critical, AllocCr3Fails, From,
     Fails, tables, clock, SetProcess
<1>6. /\ \A i \in Pid : i # reg.i => processes'[i] = processes[i]
      /\ processes'[reg.i].valid = processes[reg.i].valid
      /\ processes'[reg.i].cr3 = "null"
      /\ processes'[reg.i].threads = processes[reg.i].threads
      /\ processes'[reg.i].thread_count = processes[reg.i].thread_count
  BY <1>2, <1>4
<1>7. /\ UNCHANGED <<thread, running_processes, sched_mutex, sys_ready, cpu,
                     timer_ticks, fault>>
      /\ sched_mutex' = 1 /\ dead' \in BOOLEAN
  BY <1>1 DEF IInv, TypeOK, AllocCr3Fails, Fails, tables, clock, SetProcess
<1>8. TypeOK'
  BY <1>5, <1>6, <1>7, <1>4 DEF IInv, TypeOK, Slot, Process
<1>9. Running'
  <2>1. CASE reg.stack = Boot
    BY <1>1, <1>2, <1>5, <1>6, <1>7, <2>1 DEF IInv, Running, AtBoot, BootLabels,
       MakingProcess, NoThread, NONE, IDLE, BUSY
  <2>2. CASE reg.stack # Boot
    BY <1>1, <1>2, <1>5, <1>6, <1>7, <2>2 DEF IInv, TypeOK, Running, AtThread,
       ThreadLabels, Labels, MakingProcess
  <2>. QED BY <2>1, <2>2
<1>10. Slots' /\ Tables'
  <2>1. Slots'
    BY <1>5, <1>6, <1>7 DEF IInv, Slots
  <2>2. Tables'
    BY <1>1, <1>2, <1>5, <1>6, <1>7 DEF IInv, Tables, MakingProcess, NONE, IDLE,
       BUSY
  <2>. QED BY <2>1, <2>2
<1>11. Quiet'
  BY <1>1, <1>5, <1>6, <1>7 DEF Quiet, Waiting
<1>12. Consistent(reg)'
  <2>1. Valid' = Valid /\ (processes[0].valid => Made' = Made)
    BY <1>1, <1>2, <1>5, <1>6, <1>7 DEF IInv, Running, AtBoot, Valid, Made,
       MakingProcess, NONE, IDLE
  <2>. QED BY <1>1, <1>2, <1>5, <1>6, <1>7, <2>1 DEF Consistent, MakingProcess,
     Halfway, NONE, IDLE
<1>13. MakingThread(reg)'
  BY <1>5, <1>6, <1>7 DEF MakingThread
<1>14. MakingProcess(reg)'
  BY <1>1, <1>2, <1>5, <1>6, <1>7 DEF MakingProcess
<1>15. FaultsExplained'
  BY <1>1, <1>5, <1>6, <1>7 DEF FaultsExplained
<1>16. OneOwner' /\ Owned'
  BY <1>5, <1>6, <1>7, <1>11, <1>12, <1>13, <1>14, OwnerStep
<1>. QED BY <1>8, <1>9, <1>10, <1>15, <1>16 DEF IInv

\* Without a table of threads, the page table is given back next.
LEMMA AllocTableFailsIInv ==
    ASSUME IInv, AllocTableFails
    PROVE  IInv'
<1>. USE ZeroExists
<1>1. /\ reg.at = "process_table" /\ ~fault
      /\ Quiet /\ sched_mutex = 1
      /\ Consistent(reg) /\ MakingThread(reg) /\ MakingProcess(reg)
  BY OwnerAlone DEF AllocTableFails, From, Critical, Labels
<1>2. reg.j = 0 /\ reg.i \in Pid /\ (reg.i = 0 <=> reg.stack = Boot)
  BY <1>1 DEF IInv, TypeOK, Context, MakingProcess
<1>3. processes \in [Pid -> Process]
  BY DEF IInv, TypeOK, Process
<1>. DEFINE q == [processes EXCEPT ![reg.i].thread_count = 1]
<1>4. /\ q \in [Pid -> Process] /\ q[reg.i].thread_count = 1
      /\ q[reg.i].valid = processes[reg.i].valid
      /\ q[reg.i].cr3 = processes[reg.i].cr3
      /\ q[reg.i].threads = processes[reg.i].threads
      /\ \A k \in Pid : k # reg.i => q[k] = processes[k]
  BY <1>2, <1>3, SchedAssumption DEF Process, Pointer
<1>5. processes' = [q EXCEPT ![reg.i].threads = "null"]
  BY DEF AllocTableFails
<1>. HIDE DEF q
<1>6. /\ processes' \in [Pid -> Process] /\ processes'[reg.i].threads = "null"
      /\ processes'[reg.i].valid = q[reg.i].valid
      /\ processes'[reg.i].cr3 = q[reg.i].cr3
      /\ processes'[reg.i].thread_count = q[reg.i].thread_count
      /\ \A k \in Pid : k # reg.i => processes'[k] = q[k]
  BY <1>2, <1>4, <1>5, SchedAssumption DEF Process, Pointer
<1>7. /\ reg'.at = "process_undo" /\ reg'.at \in Critical
      /\ reg'.stack = reg.stack /\ reg'.i = reg.i /\ reg'.j = reg.j
      /\ reg' \in Context
  BY <1>1, <1>2 DEF IInv, TypeOK, Context, Labels, Critical, AllocTableFails, From,
     Fails, tables, clock
<1>8. /\ \A i \in Pid : i # reg.i => processes'[i] = processes[i]
      /\ processes'[reg.i].valid = processes[reg.i].valid
      /\ processes'[reg.i].cr3 = processes[reg.i].cr3
      /\ processes'[reg.i].threads = "null"
      /\ processes'[reg.i].thread_count = 1
  BY <1>2, <1>4, <1>6
<1>9. /\ UNCHANGED <<thread, running_processes, sched_mutex, sys_ready, cpu,
                     timer_ticks, fault>>
      /\ sched_mutex' = 1 /\ dead' \in BOOLEAN
  BY <1>1 DEF IInv, TypeOK, AllocTableFails, Fails, tables, clock
<1>10. TypeOK'
  BY <1>7, <1>8, <1>9, <1>4, <1>6 DEF IInv, TypeOK, Slot, Process
<1>11. Running'
  <2>1. CASE reg.stack = Boot
    BY <1>1, <1>2, <1>7, <1>8, <1>9, <2>1 DEF IInv, Running, AtBoot, BootLabels,
       MakingProcess, NoThread, NONE, IDLE, BUSY
  <2>2. CASE reg.stack # Boot
    BY <1>1, <1>2, <1>7, <1>8, <1>9, <2>2 DEF IInv, TypeOK, Running, AtThread,
       ThreadLabels, Labels, MakingProcess
  <2>. QED BY <2>1, <2>2
<1>12. Slots' /\ Tables'
  <2>1. Slots'
    BY <1>7, <1>8, <1>9 DEF IInv, Slots
  <2>2. Tables'
    BY <1>1, <1>2, <1>7, <1>8, <1>9 DEF IInv, Tables, MakingProcess, NONE, IDLE,
       BUSY
  <2>. QED BY <2>1, <2>2
<1>13. Quiet'
  BY <1>1, <1>7, <1>8, <1>9 DEF Quiet, Waiting
<1>14. Consistent(reg)'
  <2>1. Valid' = Valid /\ (processes[0].valid => Made' = Made)
    BY <1>1, <1>2, <1>7, <1>8, <1>9 DEF IInv, Running, AtBoot, Valid, Made,
       MakingProcess, NONE, IDLE
  <2>. QED BY <1>1, <1>2, <1>7, <1>8, <1>9, <2>1 DEF Consistent, MakingProcess,
     Halfway, NONE, IDLE
<1>15. MakingThread(reg)'
  BY <1>7, <1>8, <1>9 DEF MakingThread
<1>16. MakingProcess(reg)'
  BY <1>1, <1>2, <1>7, <1>8, <1>9 DEF MakingProcess
<1>17. FaultsExplained'
  BY <1>1, <1>7, <1>8, <1>9 DEF FaultsExplained
<1>18. OneOwner' /\ Owned'
  BY <1>7, <1>8, <1>9, <1>13, <1>14, <1>15, <1>16, OwnerStep
<1>. QED BY <1>10, <1>11, <1>12, <1>17, <1>18 DEF IInv

\* The main thread gets its slot and its entry point.
LEMMA AllocMainIInv ==
    ASSUME IInv, AllocMain
    PROVE  IInv'
<1>. USE ZeroExists
<1>1. /\ reg.at = "process_alloc" /\ ~fault
      /\ Quiet /\ sched_mutex = 1
      /\ Consistent(reg) /\ MakingThread(reg) /\ MakingProcess(reg)
  BY OwnerAlone DEF AllocMain, From, Critical, Labels
<1>2. reg.j = 0 /\ reg.i \in Pid /\ (reg.i = 0 <=> reg.stack = Boot)
  BY <1>1 DEF IInv, TypeOK, Context, MakingProcess
<1>. DEFINE s == [Calloced EXCEPT !.ctx.at = "run"]
<1>3. thread \in [Pid -> [Tid -> Slot]]
  BY DEF IInv, TypeOK, Slot
<1>4. /\ s \in Slot
      /\ s.ptr = "ok"
      /\ s.status = NONE
      /\ s.ctx.stack = NoStack
      /\ s.ctx.at = "run"
  <2>1. thread[reg.i][0] \in Slot
    BY <1>2, <1>3
  <2>. QED BY <1>2, <2>1, ThreadTypes DEF Slot, Pointer, Context, Labels, Calloced,
     NoContext
<1>5. thread' = [thread EXCEPT ![reg.i][0] = s]
  BY <1>1, <1>2 DEF AllocMain
<1>. HIDE DEF s
<1>6. /\ thread' \in [Pid -> [Tid -> Slot]] /\ thread'[reg.i][0] = s
      /\ \A k \in Pid, l \in Tid : k # reg.i \/ l # 0 => thread'[k][l] = thread[k][l]
  BY <1>2, <1>3, <1>4, <1>5
<1>7. /\ reg'.at = "process_stack" /\ reg'.at \in Critical
      /\ reg'.stack = reg.stack /\ reg'.i = reg.i /\ reg'.j = reg.j
      /\ reg' \in Context
  BY <1>1, <1>2 DEF IInv, TypeOK, Context, Labels, Critical, AllocMain, From,
     Succeeds, tables, clock
<1>8. /\ \A i \in Pid, j \in Tid : i # reg.i \/ j # 0 => thread'[i][j] = thread[i][j]
      /\ thread'[reg.i][0].ptr = "ok"
      /\ thread'[reg.i][0].status = NONE
      /\ thread'[reg.i][0].ctx.stack = NoStack
      /\ thread'[reg.i][0].ctx.at = "run"
  BY <1>2, <1>4, <1>6
<1>9. /\ UNCHANGED <<processes, running_processes, sched_mutex, sys_ready, cpu,
                     timer_ticks, fault>>
      /\ sched_mutex' = 1 /\ dead' \in BOOLEAN
  BY <1>1 DEF IInv, TypeOK, AllocMain, Succeeds, tables, clock
<1>10. TypeOK'
  BY <1>7, <1>8, <1>9, <1>6 DEF IInv, TypeOK, Slot, Process
<1>11. Running'
  <2>1. CASE reg.stack = Boot
    BY <1>1, <1>2, <1>7, <1>8, <1>9, <2>1 DEF IInv, Running, AtBoot, BootLabels,
       MakingProcess, NoThread, NONE, IDLE, BUSY
  <2>2. CASE reg.stack # Boot
    BY <1>1, <1>2, <1>7, <1>8, <1>9, <2>2 DEF IInv, TypeOK, Running, AtThread,
       ThreadLabels, Labels, MakingProcess
  <2>. QED BY <2>1, <2>2
<1>12. Slots' /\ Tables'
  <2>1. Slots'
    BY <1>1, <1>2, <1>7, <1>8, <1>9 DEF IInv, Slots, MakingProcess, ThreadLabels,
       Labels, NONE, IDLE
  <2>2. Tables'
    BY <1>1, <1>2, <1>7, <1>8, <1>9 DEF IInv, Tables, MakingProcess, NONE, IDLE,
       BUSY
  <2>. QED BY <2>1, <2>2
<1>13. Quiet'
  BY <1>1, <1>2, <1>7, <1>8, <1>9 DEF Quiet, Waiting, MakingProcess, Critical,
     Labels, NONE, IDLE
<1>14. Consistent(reg)'
  <2>1. Valid' = Valid /\ (processes[0].valid => Made' = Made)
    BY <1>1, <1>2, <1>7, <1>8, <1>9 DEF IInv, Running, AtBoot, Valid, Made,
       MakingProcess, NONE, IDLE
  <2>. QED BY <1>1, <1>2, <1>7, <1>8, <1>9, <2>1 DEF Consistent, MakingProcess,
     Halfway, NONE, IDLE
<1>15. MakingThread(reg)'
  BY <1>7, <1>8, <1>9 DEF MakingThread
<1>16. MakingProcess(reg)'
  BY <1>1, <1>2, <1>7, <1>8, <1>9 DEF MakingProcess, NONE
<1>17. FaultsExplained'
  BY <1>1, <1>7, <1>8, <1>9 DEF FaultsExplained
<1>18. OneOwner' /\ Owned'
  BY <1>7, <1>8, <1>9, <1>13, <1>14, <1>15, <1>16, OwnerStep
<1>. QED BY <1>10, <1>11, <1>12, <1>17, <1>18 DEF IInv

\* The failure of the main thread leaves all tables alone.
LEMMA AllocMainFailsIInv ==
    ASSUME IInv, AllocMainFails
    PROVE  IInv'
<1>. USE ZeroExists
<1>1. /\ reg.at = "process_alloc" /\ ~fault
      /\ Quiet /\ sched_mutex = 1
      /\ Consistent(reg) /\ MakingThread(reg) /\ MakingProcess(reg)
  BY OwnerAlone DEF AllocMainFails, From, Critical, Labels
<1>2. reg.j = 0 /\ reg.i \in Pid /\ (reg.i = 0 <=> reg.stack = Boot)
  BY <1>1 DEF IInv, TypeOK, Context, MakingProcess
<1>3. /\ reg'.at = "process_undo" /\ reg'.at \in Critical
      /\ reg'.stack = reg.stack /\ reg'.i = reg.i /\ reg'.j = reg.j
      /\ reg' \in Context
      /\ thread' = thread
      /\ processes' = processes
      /\ UNCHANGED <<running_processes, sched_mutex, sys_ready, cpu, timer_ticks, fault>>
      /\ sched_mutex' = 1 /\ dead' \in BOOLEAN
  BY <1>1, <1>2 DEF IInv, TypeOK, Context, Labels, Critical, AllocMainFails, From,
     Fails, tables, clock
<1>4. TypeOK'
  BY <1>3 DEF IInv, TypeOK, Slot, Process
<1>5. Running'
  <2>1. CASE reg.stack = Boot
    BY <1>1, <1>2, <1>3, <2>1 DEF IInv, Running, AtBoot, BootLabels, MakingProcess,
       NoThread, NONE, IDLE, BUSY
  <2>2. CASE reg.stack # Boot
    BY <1>1, <1>2, <1>3, <2>2 DEF IInv, TypeOK, Running, AtThread, ThreadLabels,
       Labels, MakingProcess
  <2>. QED BY <2>1, <2>2
<1>6. Slots' /\ Tables'
  BY <1>3 DEF IInv, Slots, Tables
<1>7. Quiet'
  BY <1>1, <1>3 DEF Quiet, Waiting
<1>8. Consistent(reg)'
  BY <1>1, <1>3 DEF Consistent, Valid, Made, Halfway
<1>9. MakingThread(reg)'
  BY <1>3 DEF MakingThread
<1>10. MakingProcess(reg)'
  BY <1>1, <1>2, <1>3 DEF MakingProcess
<1>11. FaultsExplained'
  BY <1>1, <1>3 DEF FaultsExplained
<1>12. OneOwner' /\ Owned'
  BY <1>3, <1>7, <1>8, <1>9, <1>10, OwnerStep
<1>. QED BY <1>4, <1>5, <1>6, <1>11, <1>12 DEF IInv

\* The failure of the stack leaves all tables alone.
LEMMA AllocMainStackFailsIInv ==
    ASSUME IInv, AllocMainStackFails
    PROVE  IInv'
<1>. USE ZeroExists
<1>1. /\ reg.at = "process_stack" /\ ~fault
      /\ Quiet /\ sched_mutex = 1
      /\ Consistent(reg) /\ MakingThread(reg) /\ MakingProcess(reg)
  BY OwnerAlone DEF AllocMainStackFails, From, Critical, Labels
<1>2. reg.j = 0 /\ reg.i \in Pid /\ (reg.i = 0 <=> reg.stack = Boot)
  BY <1>1 DEF IInv, TypeOK, Context, MakingProcess
<1>3. /\ reg'.at = "process_undo" /\ reg'.at \in Critical
      /\ reg'.stack = reg.stack /\ reg'.i = reg.i /\ reg'.j = reg.j
      /\ reg' \in Context
      /\ thread' = thread
      /\ processes' = processes
      /\ UNCHANGED <<running_processes, sched_mutex, sys_ready, cpu, timer_ticks, fault>>
      /\ sched_mutex' = 1 /\ dead' \in BOOLEAN
  BY <1>1, <1>2 DEF IInv, TypeOK, Context, Labels, Critical, AllocMainStackFails,
     From, Fails, tables, clock
<1>4. TypeOK'
  BY <1>3 DEF IInv, TypeOK, Slot, Process
<1>5. Running'
  <2>1. CASE reg.stack = Boot
    BY <1>1, <1>2, <1>3, <2>1 DEF IInv, Running, AtBoot, BootLabels, MakingProcess,
       NoThread, NONE, IDLE, BUSY
  <2>2. CASE reg.stack # Boot
    BY <1>1, <1>2, <1>3, <2>2 DEF IInv, TypeOK, Running, AtThread, ThreadLabels,
       Labels, MakingProcess
  <2>. QED BY <2>1, <2>2
<1>6. Slots' /\ Tables'
  BY <1>3 DEF IInv, Slots, Tables
<1>7. Quiet'
  BY <1>1, <1>3 DEF Quiet, Waiting
<1>8. Consistent(reg)'
  BY <1>1, <1>3 DEF Consistent, Valid, Made, Halfway
<1>9. MakingThread(reg)'
  BY <1>3 DEF MakingThread
<1>10. MakingProcess(reg)'
  BY <1>1, <1>2, <1>3 DEF MakingProcess
<1>11. FaultsExplained'
  BY <1>1, <1>3 DEF FaultsExplained
<1>12. OneOwner' /\ Owned'
  BY <1>3, <1>7, <1>8, <1>9, <1>10, OwnerStep
<1>. QED BY <1>4, <1>5, <1>6, <1>11, <1>12 DEF IInv

\* The main thread of process 0 gets its stack.
LEMMA AllocMainStackIInv ==
    ASSUME IInv, AllocMainStack
    PROVE  IInv'
<1>. USE ZeroExists
<1>1. /\ reg.at = "process_stack" /\ ~fault
      /\ Quiet /\ sched_mutex = 1
      /\ Consistent(reg) /\ MakingThread(reg) /\ MakingProcess(reg)
  BY OwnerAlone DEF AllocMainStack, From, Critical, Labels
<1>2. reg.j = 0 /\ reg.i \in Pid /\ (reg.i = 0 <=> reg.stack = Boot)
  BY <1>1 DEF IInv, TypeOK, Context, MakingProcess
<1>. DEFINE s == IF running_processes = 0
                 THEN [thread[reg.i][0] EXCEPT !.ctx.stack = <<reg.i, 0>>] ELSE thread[reg.i][0]
<1>3. thread \in [Pid -> [Tid -> Slot]]
  BY DEF IInv, TypeOK, Slot
<1>4. /\ s \in Slot
      /\ s.ptr = thread[reg.i][0].ptr
      /\ s.status = thread[reg.i][0].status
      /\ s.ctx.stack =
            IF running_processes = 0 THEN <<reg.i, 0>> ELSE thread[reg.i][0].ctx.stack
      /\ s.ctx.at = thread[reg.i][0].ctx.at
  <2>1. thread[reg.i][0] \in Slot
    BY <1>2, <1>3
  <2>. QED BY <1>2, <2>1, ThreadTypes DEF Slot, Pointer, Context, Labels
<1>5. IF running_processes = 0 THEN thread' = [thread EXCEPT ![reg.i][0] = s]
                                 ELSE thread' = thread /\ s = thread[reg.i][0]
  BY <1>1, <1>2 DEF AllocMainStack
<1>. HIDE DEF s
<1>6. /\ thread' \in [Pid -> [Tid -> Slot]] /\ thread'[reg.i][0] = s
      /\ \A k \in Pid, l \in Tid : k # reg.i \/ l # 0 => thread'[k][l] = thread[k][l]
  BY <1>2, <1>3, <1>4, <1>5
<1>7. /\ reg'.at = "process_idle" /\ reg'.at \in Critical
      /\ reg'.stack = reg.stack /\ reg'.i = reg.i /\ reg'.j = reg.j
      /\ reg' \in Context
  BY <1>1, <1>2 DEF IInv, TypeOK, Context, Labels, Critical, AllocMainStack, From,
     Succeeds, tables, clock
<1>8. /\ \A i \in Pid, j \in Tid : i # reg.i \/ j # 0 => thread'[i][j] = thread[i][j]
      /\ thread'[reg.i][0].ptr = thread[reg.i][0].ptr
      /\ thread'[reg.i][0].status = thread[reg.i][0].status
      /\ thread'[reg.i][0].ctx.stack =
            IF running_processes = 0 THEN <<reg.i, 0>> ELSE thread[reg.i][0].ctx.stack
      /\ thread'[reg.i][0].ctx.at = thread[reg.i][0].ctx.at
  BY <1>2, <1>4, <1>6
<1>9. /\ UNCHANGED <<processes, running_processes, sched_mutex, sys_ready, cpu,
                     timer_ticks, fault>>
      /\ sched_mutex' = 1 /\ dead' \in BOOLEAN
  BY <1>1 DEF IInv, TypeOK, AllocMainStack, Succeeds, tables, clock
<1>10. TypeOK'
  BY <1>7, <1>8, <1>9, <1>6 DEF IInv, TypeOK, Slot, Process
<1>11. Running'
  <2>1. CASE reg.stack = Boot
    BY <1>1, <1>2, <1>7, <1>8, <1>9, <2>1 DEF IInv, Running, AtBoot, BootLabels,
       MakingProcess, NoThread, NONE, IDLE, BUSY
  <2>2. CASE reg.stack # Boot
    BY <1>1, <1>2, <1>7, <1>8, <1>9, <2>2 DEF IInv, TypeOK, Running, AtThread,
       ThreadLabels, Labels, MakingProcess
  <2>. QED BY <2>1, <2>2
<1>12. Slots' /\ Tables'
  <2>1. Slots'
    BY <1>1, <1>2, <1>7, <1>8, <1>9 DEF IInv, Slots, MakingProcess, ThreadLabels,
       Labels, NONE, IDLE
  <2>2. Tables'
    BY <1>1, <1>2, <1>7, <1>8, <1>9 DEF IInv, Tables, MakingProcess, NONE, IDLE,
       BUSY
  <2>. QED BY <2>1, <2>2
<1>13. Quiet'
  BY <1>1, <1>2, <1>7, <1>8, <1>9 DEF Quiet, Waiting, MakingProcess, Critical,
     Labels, NONE, IDLE
<1>14. Consistent(reg)'
  <2>1. Valid' = Valid /\ (processes[0].valid => Made' = Made)
    BY <1>1, <1>2, <1>7, <1>8, <1>9 DEF IInv, Running, AtBoot, Valid, Made,
       MakingProcess, NONE, IDLE
  <2>. QED BY <1>1, <1>2, <1>7, <1>8, <1>9, <2>1 DEF Consistent, MakingProcess,
     Halfway, NONE, IDLE
<1>15. MakingThread(reg)'
  BY <1>7, <1>8, <1>9 DEF MakingThread
<1>16. MakingProcess(reg)'
  <2>1. reg.i = 0 => running_processes = 0
    BY <1>1, <1>2 DEF IInv, Running, AtBoot
  <2>. QED BY <1>1, <1>2, <1>7, <1>8, <1>9, <2>1 DEF MakingProcess
<1>17. FaultsExplained'
  BY <1>1, <1>7, <1>8, <1>9 DEF FaultsExplained
<1>18. OneOwner' /\ Owned'
  BY <1>7, <1>8, <1>9, <1>13, <1>14, <1>15, <1>16, OwnerStep
<1>. QED BY <1>10, <1>11, <1>12, <1>17, <1>18 DEF IInv

\* What create_process has allocated is freed.
LEMMA UndoProcessIInv ==
    ASSUME IInv, UndoProcess
    PROVE  IInv'
<1>. USE ZeroExists
<1>1. /\ reg.at = "process_undo" /\ ~fault
      /\ Quiet /\ sched_mutex = 1
      /\ Consistent(reg) /\ MakingThread(reg) /\ MakingProcess(reg)
  BY OwnerAlone DEF UndoProcess, From, Critical, Labels
<1>2. reg.j = 0 /\ reg.i \in Pid /\ (reg.i = 0 <=> reg.stack = Boot)
  BY <1>1 DEF IInv, TypeOK, Context, MakingProcess
<1>. DEFINE s == [thread[reg.i][0] EXCEPT !.ptr =
                   IF thread[reg.i][0].ptr = "ok" THEN "freed" ELSE thread[reg.i][0].ptr]
<1>3. thread \in [Pid -> [Tid -> Slot]]
  BY DEF IInv, TypeOK, Slot
<1>4. /\ s \in Slot
      /\ s.ptr =
            IF thread[reg.i][0].ptr = "ok" THEN "freed" ELSE thread[reg.i][0].ptr
      /\ s.status = thread[reg.i][0].status
      /\ s.ctx.stack = thread[reg.i][0].ctx.stack
      /\ s.ctx.at = thread[reg.i][0].ctx.at
  <2>1. thread[reg.i][0] \in Slot
    BY <1>2, <1>3
  <2>. QED BY <1>2, <2>1, ThreadTypes DEF Slot, Pointer, Context, Labels
<1>5. thread' = [thread EXCEPT ![reg.i][0] = s]
  BY <1>1, <1>2 DEF UndoProcess
<1>. HIDE DEF s
<1>6. /\ thread' \in [Pid -> [Tid -> Slot]] /\ thread'[reg.i][0] = s
      /\ \A k \in Pid, l \in Tid : k # reg.i \/ l # 0 => thread'[k][l] = thread[k][l]
  BY <1>2, <1>3, <1>4, <1>5
<1>7. processes \in [Pid -> Process]
  BY DEF IInv, TypeOK, Process
<1>. DEFINE q == [processes EXCEPT ![reg.i].cr3 = "freed"]
<1>8. /\ q \in [Pid -> Process] /\ q[reg.i].cr3 = "freed"
      /\ q[reg.i].valid = processes[reg.i].valid
      /\ q[reg.i].threads = processes[reg.i].threads
      /\ q[reg.i].thread_count = processes[reg.i].thread_count
      /\ \A k \in Pid : k # reg.i => q[k] = processes[k]
  BY <1>2, <1>7, SchedAssumption DEF Process, Pointer
<1>9. processes' = [q EXCEPT ![reg.i].threads =
                     IF q[reg.i].threads = "ok" THEN "freed" ELSE q[reg.i].threads]
  BY DEF UndoProcess
<1>. HIDE DEF q
<1>10. /\ processes' \in [Pid -> Process]
       /\ processes'[reg.i].threads =
             IF processes[reg.i].threads = "ok" THEN "freed" ELSE processes[reg.i].threads
       /\ processes'[reg.i].valid = q[reg.i].valid
       /\ processes'[reg.i].cr3 = q[reg.i].cr3
       /\ processes'[reg.i].thread_count = q[reg.i].thread_count
       /\ \A k \in Pid : k # reg.i => processes'[k] = q[k]
  BY <1>2, <1>8, <1>9, SchedAssumption DEF Process, Pointer
<1>11. /\ reg'.at = "release" /\ reg'.at \in Critical
       /\ reg'.stack = reg.stack /\ reg'.i = reg.i /\ reg'.j = reg.j
       /\ reg' \in Context
  BY <1>1, <1>2 DEF IInv, TypeOK, Context, Labels, Critical, UndoProcess, From,
     tables, clock
<1>12. /\ \A i \in Pid, j \in Tid : i # reg.i \/ j # 0 => thread'[i][j] = thread[i][j]
       /\ thread'[reg.i][0].ptr =
             IF thread[reg.i][0].ptr = "ok" THEN "freed" ELSE thread[reg.i][0].ptr
       /\ thread'[reg.i][0].status = thread[reg.i][0].status
       /\ thread'[reg.i][0].ctx.stack = thread[reg.i][0].ctx.stack
       /\ thread'[reg.i][0].ctx.at = thread[reg.i][0].ctx.at
  BY <1>2, <1>4, <1>6
<1>13. /\ \A i \in Pid : i # reg.i => processes'[i] = processes[i]
       /\ processes'[reg.i].valid = processes[reg.i].valid
       /\ processes'[reg.i].cr3 = "freed"
       /\ processes'[reg.i].threads =
             IF processes[reg.i].threads = "ok" THEN "freed" ELSE processes[reg.i].threads
       /\ processes'[reg.i].thread_count = processes[reg.i].thread_count
  BY <1>2, <1>8, <1>10
<1>14. /\ UNCHANGED <<running_processes, sched_mutex, sys_ready, cpu, timer_ticks, fault>>
       /\ sched_mutex' = 1 /\ dead' \in BOOLEAN
  BY <1>1 DEF IInv, TypeOK, UndoProcess, tables, clock
<1>15. TypeOK'
  BY <1>11, <1>12, <1>13, <1>14, <1>6, <1>8, <1>10 DEF IInv, TypeOK, Slot, Process
<1>16. Running'
  <2>1. CASE reg.stack = Boot
    BY <1>1, <1>2, <1>11, <1>12, <1>13, <1>14, <2>1 DEF IInv, Running, AtBoot,
       BootLabels, MakingProcess, NoThread, NONE, IDLE, BUSY
  <2>2. CASE reg.stack # Boot
    BY <1>1, <1>2, <1>11, <1>12, <1>13, <1>14, <2>2 DEF IInv, TypeOK, Running,
       AtThread, ThreadLabels, Labels, MakingProcess
  <2>. QED BY <2>1, <2>2
<1>17. Slots' /\ Tables'
  <2>1. Slots'
    BY <1>1, <1>2, <1>11, <1>12, <1>13, <1>14 DEF IInv, Slots, MakingProcess,
       ThreadLabels, Labels, NONE, IDLE
  <2>2. Tables'
    BY <1>1, <1>2, <1>11, <1>12, <1>13, <1>14 DEF IInv, Tables, MakingProcess, NONE,
       IDLE, BUSY
  <2>. QED BY <2>1, <2>2
<1>18. Quiet'
  BY <1>1, <1>2, <1>11, <1>12, <1>13, <1>14 DEF Quiet, Waiting, MakingProcess,
     Critical, Labels, NONE, IDLE
<1>19. Consistent(reg)'
  <2>1. Valid' = Valid /\ (processes[0].valid => Made' = Made)
    BY <1>1, <1>2, <1>11, <1>12, <1>13, <1>14 DEF IInv, Running, AtBoot, Valid,
       Made, MakingProcess, NONE, IDLE
  <2>. QED BY <1>1, <1>2, <1>11, <1>12, <1>13, <1>14, <2>1 DEF Consistent,
     MakingProcess, Halfway, NONE, IDLE
<1>20. MakingThread(reg)'
  BY <1>11, <1>12, <1>13, <1>14 DEF MakingThread
<1>21. MakingProcess(reg)'
  BY <1>1, <1>2, <1>11, <1>12, <1>13, <1>14 DEF MakingProcess, NONE
<1>22. FaultsExplained'
  BY <1>1, <1>11, <1>12, <1>13, <1>14 DEF FaultsExplained
<1>23. OneOwner' /\ Owned'
  BY <1>11, <1>12, <1>13, <1>14, <1>18, <1>19, <1>20, <1>21, OwnerStep
<1>. QED BY <1>15, <1>16, <1>17, <1>22, <1>23 DEF IInv

\* The table of threads starts out empty.
LEMMA AllocTableIInv ==
    ASSUME IInv, AllocTable
    PROVE  IInv'
<1>. USE ZeroExists
<1>1. /\ reg.at = "process_table" /\ ~fault
      /\ Quiet /\ sched_mutex = 1
      /\ Consistent(reg) /\ MakingThread(reg) /\ MakingProcess(reg)
  BY OwnerAlone DEF AllocTable, From, Critical, Labels
<1>2. reg.j = 0 /\ reg.i \in Pid /\ (reg.i = 0 <=> reg.stack = Boot)
  BY <1>1 DEF IInv, TypeOK, Context, MakingProcess
<1>3. thread \in [Pid -> [Tid -> Slot]]
  BY DEF IInv, TypeOK, Slot
<1>4. [j \in Tid |-> NoThread] \in [Tid -> Slot]
  BY ThreadTypes
<1>5. /\ thread' \in [Pid -> [Tid -> Slot]]
      /\ \A l \in Tid : thread'[reg.i][l] = NoThread
      /\ \A k \in Pid, l \in Tid : k # reg.i => thread'[k][l] = thread[k][l]
  BY <1>2, <1>3, <1>4 DEF AllocTable
<1>6. processes \in [Pid -> Process]
  BY DEF IInv, TypeOK, Process
<1>. DEFINE q == [processes EXCEPT ![reg.i].thread_count = 1]
<1>7. /\ q \in [Pid -> Process] /\ q[reg.i].thread_count = 1
      /\ q[reg.i].valid = processes[reg.i].valid
      /\ q[reg.i].cr3 = processes[reg.i].cr3
      /\ q[reg.i].threads = processes[reg.i].threads
      /\ \A k \in Pid : k # reg.i => q[k] = processes[k]
  BY <1>2, <1>6, SchedAssumption DEF Process, Pointer
<1>8. processes' = [q EXCEPT ![reg.i].threads = "ok"]
  BY DEF AllocTable
<1>. HIDE DEF q
<1>9. /\ processes' \in [Pid -> Process] /\ processes'[reg.i].threads = "ok"
      /\ processes'[reg.i].valid = q[reg.i].valid
      /\ processes'[reg.i].cr3 = q[reg.i].cr3
      /\ processes'[reg.i].thread_count = q[reg.i].thread_count
      /\ \A k \in Pid : k # reg.i => processes'[k] = q[k]
  BY <1>2, <1>7, <1>8, SchedAssumption DEF Process, Pointer
<1>10. /\ reg'.at = "process_alloc" /\ reg'.at \in Critical
       /\ reg'.stack = reg.stack /\ reg'.i = reg.i /\ reg'.j = reg.j
       /\ reg' \in Context
  BY <1>1, <1>2 DEF IInv, TypeOK, Context, Labels, Critical, AllocTable, From,
     Succeeds, tables, clock
<1>11. /\ \A j \in Tid : thread'[reg.i][j] = NoThread
       /\ \A i \in Pid, j \in Tid : i # reg.i => thread'[i][j] = thread[i][j]
  BY <1>2, <1>4, <1>5
<1>12. /\ \A i \in Pid : i # reg.i => processes'[i] = processes[i]
       /\ processes'[reg.i].valid = processes[reg.i].valid
       /\ processes'[reg.i].cr3 = processes[reg.i].cr3
       /\ processes'[reg.i].threads = "ok"
       /\ processes'[reg.i].thread_count = 1
  BY <1>2, <1>7, <1>9
<1>13. /\ UNCHANGED <<running_processes, sched_mutex, sys_ready, cpu, timer_ticks, fault>>
       /\ sched_mutex' = 1 /\ dead' \in BOOLEAN
  BY <1>1 DEF IInv, TypeOK, AllocTable, Succeeds, tables, clock
<1>14. TypeOK'
  BY <1>10, <1>11, <1>12, <1>13, <1>5, <1>7, <1>9 DEF IInv, TypeOK, Slot, Process
<1>15. Running'
  <2>1. CASE reg.stack = Boot
    BY <1>1, <1>2, <1>10, <1>11, <1>12, <1>13, <2>1 DEF IInv, Running, AtBoot,
       BootLabels, MakingProcess, NoThread, NONE, IDLE, BUSY
  <2>2. CASE reg.stack # Boot
    BY <1>1, <1>2, <1>10, <1>11, <1>12, <1>13, <2>2 DEF IInv, TypeOK, Running,
       AtThread, ThreadLabels, Labels, MakingProcess
  <2>. QED BY <2>1, <2>2
<1>16. Slots' /\ Tables'
  <2>1. Slots'
    BY <1>1, <1>2, <1>10, <1>11, <1>12, <1>13 DEF IInv, Slots, MakingProcess,
       NoThread, ThreadLabels, Labels, NONE, IDLE
  <2>2. Tables'
    BY <1>1, <1>2, <1>10, <1>11, <1>12, <1>13 DEF IInv, Tables, MakingProcess,
       NoThread, NONE, IDLE, BUSY
  <2>. QED BY <2>1, <2>2
<1>17. Quiet'
  BY <1>1, <1>2, <1>10, <1>11, <1>12, <1>13 DEF Quiet, Waiting, MakingProcess,
     Critical, Labels, NONE, IDLE, NoThread
<1>18. Consistent(reg)'
  <2>1. Valid' = Valid /\ (processes[0].valid => Made' = Made)
    BY <1>1, <1>2, <1>10, <1>11, <1>12, <1>13 DEF IInv, Running, AtBoot, Valid,
       Made, MakingProcess, NoThread, NONE, IDLE
  <2>. QED BY <1>1, <1>2, <1>10, <1>11, <1>12, <1>13, <2>1 DEF Consistent,
     MakingProcess, Halfway, NoThread, NONE, IDLE
<1>19. MakingThread(reg)'
  BY <1>10, <1>11, <1>12, <1>13 DEF MakingThread
<1>20. MakingProcess(reg)'
  BY <1>1, <1>2, <1>10, <1>11, <1>12, <1>13 DEF MakingProcess, NoThread, NONE
<1>21. FaultsExplained'
  BY <1>1, <1>10, <1>11, <1>12, <1>13 DEF FaultsExplained
<1>22. OneOwner' /\ Owned'
  BY <1>10, <1>11, <1>12, <1>13, <1>17, <1>18, <1>19, <1>20, OwnerStep
<1>. QED BY <1>14, <1>15, <1>16, <1>21, <1>22 DEF IInv

\* A complete thread may be scheduled from now on.
LEMMA MarkThreadIInv ==
    ASSUME IInv, MarkIdle, reg.at = "thread_idle"
    PROVE  IInv'
<1>. USE ZeroExists
<1>1. /\ reg.at = "thread_idle" /\ ~fault
      /\ Quiet /\ sched_mutex = 1
      /\ Consistent(reg) /\ MakingThread(reg) /\ MakingProcess(reg)
  BY OwnerAlone DEF MarkIdle, From, Critical, Labels
<1>2. reg.stack # Boot /\ AtThread /\ cpu.pid = 0 /\ reg.i = 0 /\ reg.j # 0 /\ reg.j \in Tid
  BY <1>1 DEF IInv, TypeOK, Context, Running, AtBoot, BootLabels, MakingThread
<1>. DEFINE s == [thread[0][reg.j] EXCEPT !.status = IDLE]
<1>3. thread \in [Pid -> [Tid -> Slot]]
  BY DEF IInv, TypeOK, Slot
<1>4. /\ s \in Slot
      /\ s.ptr = thread[0][reg.j].ptr
      /\ s.status = IDLE
      /\ s.ctx.stack = thread[0][reg.j].ctx.stack
      /\ s.ctx.at = thread[0][reg.j].ctx.at
  <2>1. thread[0][reg.j] \in Slot
    BY <1>2, <1>3
  <2>. QED BY <1>2, <2>1, ThreadTypes DEF Slot, Pointer, Context, Labels
<1>5. thread' = [thread EXCEPT ![0][reg.j] = s]
  BY <1>1, <1>2 DEF MarkIdle
<1>. HIDE DEF s
<1>6. /\ thread' \in [Pid -> [Tid -> Slot]] /\ thread'[0][reg.j] = s
      /\ \A k \in Pid, l \in Tid : k # 0 \/ l # reg.j => thread'[k][l] = thread[k][l]
  BY <1>2, <1>3, <1>4, <1>5
<1>7. /\ reg'.at = "thread_count" /\ reg'.at \in Critical
      /\ reg'.stack = reg.stack /\ reg'.i = reg.i /\ reg'.j = reg.j
      /\ reg' \in Context
  BY <1>1, <1>2 DEF IInv, TypeOK, Context, Labels, Critical, MarkIdle, From, tables,
     clock
<1>8. /\ \A i \in Pid, j \in Tid : i # 0 \/ j # reg.j => thread'[i][j] = thread[i][j]
      /\ thread'[0][reg.j].ptr = thread[0][reg.j].ptr
      /\ thread'[0][reg.j].status = IDLE
      /\ thread'[0][reg.j].ctx.stack = thread[0][reg.j].ctx.stack
      /\ thread'[0][reg.j].ctx.at = thread[0][reg.j].ctx.at
  BY <1>2, <1>4, <1>6
<1>9. /\ UNCHANGED <<processes, running_processes, sched_mutex, sys_ready, cpu,
                     timer_ticks, fault>>
      /\ sched_mutex' = 1 /\ dead' \in BOOLEAN
  BY <1>1 DEF IInv, TypeOK, MarkIdle, tables, clock
<1>10. TypeOK'
  BY <1>7, <1>8, <1>9, <1>6 DEF IInv, TypeOK, Slot, Process
<1>11. Running'
  BY <1>1, <1>2, <1>7, <1>8, <1>9 DEF IInv, Slots, Running, AtThread, ThreadLabels,
     Labels, MakingThread, NONE, IDLE, BUSY
<1>12. Slots' /\ Tables'
  <2>1. Slots'
    BY <1>1, <1>2, <1>7, <1>8, <1>9 DEF IInv, Slots, MakingThread, ThreadLabels,
       Labels, NONE, IDLE
  <2>2. Tables'
    BY <1>1, <1>2, <1>7, <1>8, <1>9 DEF IInv, AtThread, Tables, MakingThread, NONE,
       IDLE, BUSY
  <2>. QED BY <2>1, <2>2
<1>13. Quiet'
  BY <1>1, <1>2, <1>7, <1>8, <1>9 DEF Quiet, Waiting, MakingThread, Critical,
     Labels, NONE, IDLE
<1>14. Consistent(reg)'
  <2>1. Valid' = Valid
    BY <1>7, <1>8, <1>9 DEF Valid
  <2>2. Made' = Made \cup {reg.j} /\ reg.j \notin Made
    BY <1>1, <1>2, <1>7, <1>8, <1>9 DEF Made, MakingThread, NONE, IDLE
  <2>3. Cardinality(Made') = Cardinality(Made) + 1
    BY <2>2, Sizes, FS_AddElement
  <2>4. Cardinality(Made) \in Nat
    BY Sizes
  <2>. QED BY <1>1, <1>2, <1>7, <1>8, <1>9, <2>1, <2>3, <2>4 DEF IInv, AtThread,
     Consistent, Halfway, NONE, IDLE
<1>15. MakingThread(reg)'
  BY <1>1, <1>2, <1>7, <1>8, <1>9 DEF MakingThread
<1>16. MakingProcess(reg)'
  BY <1>7, <1>8, <1>9 DEF MakingProcess
<1>17. FaultsExplained'
  BY <1>1, <1>7, <1>8, <1>9 DEF FaultsExplained
<1>18. OneOwner' /\ Owned'
  BY <1>7, <1>8, <1>9, <1>13, <1>14, <1>15, <1>16, OwnerStep
<1>. QED BY <1>10, <1>11, <1>12, <1>17, <1>18 DEF IInv

\* A complete main thread is IDLE before its process is valid.
LEMMA MarkMainIInv ==
    ASSUME IInv, MarkIdle, reg.at = "process_idle"
    PROVE  IInv'
<1>. USE ZeroExists
<1>1. /\ reg.at = "process_idle" /\ ~fault
      /\ Quiet /\ sched_mutex = 1
      /\ Consistent(reg) /\ MakingThread(reg) /\ MakingProcess(reg)
  BY OwnerAlone DEF MarkIdle, From, Critical, Labels
<1>2. reg.j = 0 /\ reg.i \in Pid /\ (reg.i = 0 <=> reg.stack = Boot)
  BY <1>1 DEF IInv, TypeOK, Context, MakingProcess
<1>. DEFINE s == [thread[reg.i][0] EXCEPT !.status = IDLE]
<1>3. thread \in [Pid -> [Tid -> Slot]]
  BY DEF IInv, TypeOK, Slot
<1>4. /\ s \in Slot
      /\ s.ptr = thread[reg.i][0].ptr
      /\ s.status = IDLE
      /\ s.ctx.stack = thread[reg.i][0].ctx.stack
      /\ s.ctx.at = thread[reg.i][0].ctx.at
  <2>1. thread[reg.i][0] \in Slot
    BY <1>2, <1>3
  <2>. QED BY <1>2, <2>1, ThreadTypes DEF Slot, Pointer, Context, Labels
<1>5. thread' = [thread EXCEPT ![reg.i][0] = s]
  BY <1>1, <1>2 DEF MarkIdle
<1>. HIDE DEF s
<1>6. /\ thread' \in [Pid -> [Tid -> Slot]] /\ thread'[reg.i][0] = s
      /\ \A k \in Pid, l \in Tid : k # reg.i \/ l # 0 => thread'[k][l] = thread[k][l]
  BY <1>2, <1>3, <1>4, <1>5
<1>7. /\ reg'.at = "process_valid" /\ reg'.at \in Critical
      /\ reg'.stack = reg.stack /\ reg'.i = reg.i /\ reg'.j = reg.j
      /\ reg' \in Context
  BY <1>1, <1>2 DEF IInv, TypeOK, Context, Labels, Critical, MarkIdle, From, tables,
     clock
<1>8. /\ \A i \in Pid, j \in Tid : i # reg.i \/ j # 0 => thread'[i][j] = thread[i][j]
      /\ thread'[reg.i][0].ptr = thread[reg.i][0].ptr
      /\ thread'[reg.i][0].status = IDLE
      /\ thread'[reg.i][0].ctx.stack = thread[reg.i][0].ctx.stack
      /\ thread'[reg.i][0].ctx.at = thread[reg.i][0].ctx.at
  BY <1>2, <1>4, <1>6
<1>9. /\ UNCHANGED <<processes, running_processes, sched_mutex, sys_ready, cpu,
                     timer_ticks, fault>>
      /\ sched_mutex' = 1 /\ dead' \in BOOLEAN
  BY <1>1 DEF IInv, TypeOK, MarkIdle, tables, clock
<1>10. TypeOK'
  BY <1>7, <1>8, <1>9, <1>6 DEF IInv, TypeOK, Slot, Process
<1>11. Running'
  <2>1. CASE reg.stack = Boot
    BY <1>1, <1>2, <1>7, <1>8, <1>9, <2>1 DEF IInv, Running, AtBoot, BootLabels,
       MakingProcess, NoThread, NONE, IDLE, BUSY
  <2>2. CASE reg.stack # Boot
    BY <1>1, <1>2, <1>7, <1>8, <1>9, <2>2 DEF IInv, TypeOK, Running, AtThread,
       ThreadLabels, Labels, MakingProcess
  <2>. QED BY <2>1, <2>2
<1>12. Slots' /\ Tables'
  <2>1. Slots'
    BY <1>1, <1>2, <1>7, <1>8, <1>9 DEF IInv, Slots, MakingProcess, ThreadLabels,
       Labels, NONE, IDLE
  <2>2. Tables'
    BY <1>1, <1>2, <1>7, <1>8, <1>9 DEF IInv, Tables, MakingProcess, NONE, IDLE,
       BUSY
  <2>. QED BY <2>1, <2>2
<1>13. Quiet'
  BY <1>1, <1>2, <1>7, <1>8, <1>9 DEF Quiet, Waiting, MakingProcess, Critical,
     Labels, NONE, IDLE
<1>14. Consistent(reg)'
  <2>1. Valid' = Valid /\ (processes[0].valid => Made' = Made)
    BY <1>1, <1>2, <1>7, <1>8, <1>9 DEF IInv, Running, AtBoot, Valid, Made,
       MakingProcess, NONE, IDLE
  <2>. QED BY <1>1, <1>2, <1>7, <1>8, <1>9, <2>1 DEF Consistent, MakingProcess,
     Halfway, NONE, IDLE
<1>15. MakingThread(reg)'
  BY <1>7, <1>8, <1>9 DEF MakingThread
<1>16. MakingProcess(reg)'
  BY <1>1, <1>2, <1>7, <1>8, <1>9 DEF MakingProcess, NONE
<1>17. FaultsExplained'
  BY <1>1, <1>7, <1>8, <1>9 DEF FaultsExplained
<1>18. OneOwner' /\ Owned'
  BY <1>7, <1>8, <1>9, <1>13, <1>14, <1>15, <1>16, OwnerStep
<1>. QED BY <1>10, <1>11, <1>12, <1>17, <1>18 DEF IInv

\* The count of threads catches up.
LEMMA CountThreadIInv ==
    ASSUME IInv, CountThread
    PROVE  IInv'
<1>. USE ZeroExists
<1>1. /\ reg.at = "thread_count" /\ ~fault
      /\ Quiet /\ sched_mutex = 1
      /\ Consistent(reg) /\ MakingThread(reg) /\ MakingProcess(reg)
  BY OwnerAlone DEF CountThread, From, Critical, Labels
<1>2. reg.stack # Boot /\ AtThread /\ cpu.pid = 0 /\ reg.i = 0 /\ reg.j # 0 /\ reg.j \in Tid
  BY <1>1 DEF IInv, TypeOK, Context, Running, AtBoot, BootLabels, MakingThread
<1>3. processes \in [Pid -> Process]
  BY DEF IInv, TypeOK, Process
<1>4. /\ processes' \in [Pid -> Process]
      /\ processes'[0].thread_count = processes[0].thread_count + 1
      /\ processes'[0].valid = processes[0].valid
      /\ processes'[0].cr3 = processes[0].cr3
      /\ processes'[0].threads = processes[0].threads
      /\ \A k \in Pid : k # 0 => processes'[k] = processes[k]
  <2>1. processes[0].thread_count + 1 \in 0..MaxThreads
    BY <1>1, <1>2, Sizes DEF Consistent, AtThread
  <2>. QED BY <1>2, <1>3, <2>1 DEF Process, CountThread
<1>5. /\ reg'.at = "release" /\ reg'.at \in Critical
      /\ reg'.stack = reg.stack /\ reg'.i = reg.i /\ reg'.j = reg.j
      /\ reg' \in Context
  BY <1>1, <1>2 DEF IInv, TypeOK, Context, Labels, Critical, CountThread, From,
     tables, clock
<1>6. /\ \A i \in Pid : i # 0 => processes'[i] = processes[i]
      /\ processes'[0].valid = processes[0].valid
      /\ processes'[0].cr3 = processes[0].cr3
      /\ processes'[0].threads = processes[0].threads
      /\ processes'[0].thread_count = processes[0].thread_count + 1
  BY <1>2, <1>4
<1>7. /\ UNCHANGED <<thread, running_processes, sched_mutex, sys_ready, cpu,
                     timer_ticks, fault>>
      /\ sched_mutex' = 1 /\ dead' \in BOOLEAN
  BY <1>1 DEF IInv, TypeOK, CountThread, tables, clock
<1>8. TypeOK'
  BY <1>5, <1>6, <1>7, <1>4 DEF IInv, TypeOK, Slot, Process
<1>9. Running'
  BY <1>2, <1>5, <1>6, <1>7 DEF Running, AtThread, ThreadLabels, Labels
<1>10. Slots' /\ Tables'
  <2>1. Slots'
    BY <1>5, <1>6, <1>7 DEF IInv, Slots
  <2>2. Tables'
    BY <1>1, <1>2, <1>5, <1>6, <1>7 DEF IInv, AtThread, Tables, MakingThread, NONE,
       IDLE, BUSY
  <2>. QED BY <2>1, <2>2
<1>11. Quiet'
  BY <1>1, <1>5, <1>6, <1>7 DEF Quiet, Waiting
<1>12. Consistent(reg)'
  <2>1. Valid' = Valid /\ Made' = Made
    BY <1>5, <1>6, <1>7, <1>2 DEF Valid, Made
  <2>2. Cardinality(Made) \in Nat
    BY Sizes
  <2>3. processes'[0].thread_count = Cardinality(Made)
    BY <1>1, <1>2, <1>5, <1>6, <1>7, <2>2 DEF Consistent, AtThread
  <2>4. running_processes' = Cardinality(Valid)
    BY <1>1, <1>5, <1>6, <1>7, Sizes DEF Consistent
  <2>. QED BY <1>1, <1>2, <1>5, <1>6, <1>7, <2>1, <2>2, <2>3, <2>4 DEF Consistent,
     Halfway
<1>13. MakingThread(reg)'
  BY <1>1, <1>2, <1>5, <1>6, <1>7 DEF MakingThread
<1>14. MakingProcess(reg)'
  BY <1>5, <1>6, <1>7 DEF MakingProcess
<1>15. FaultsExplained'
  BY <1>1, <1>5, <1>6, <1>7 DEF FaultsExplained
<1>16. OneOwner' /\ Owned'
  BY <1>5, <1>6, <1>7, <1>11, <1>12, <1>13, <1>14, OwnerStep
<1>. QED BY <1>8, <1>9, <1>10, <1>15, <1>16 DEF IInv

\* A process becomes valid when it is complete.
LEMMA SetValidIInv ==
    ASSUME IInv, SetValid
    PROVE  IInv'
<1>. USE ZeroExists
<1>1. /\ reg.at = "process_valid" /\ ~fault
      /\ Quiet /\ sched_mutex = 1
      /\ Consistent(reg) /\ MakingThread(reg) /\ MakingProcess(reg)
  BY OwnerAlone DEF SetValid, From, Critical, Labels
<1>2. reg.j = 0 /\ reg.i \in Pid /\ (reg.i = 0 <=> reg.stack = Boot)
  BY <1>1 DEF IInv, TypeOK, Context, MakingProcess
<1>3. processes \in [Pid -> Process]
  BY DEF IInv, TypeOK, Process
<1>. DEFINE q == [processes EXCEPT ![reg.i].valid = TRUE]
<1>4. /\ q \in [Pid -> Process] /\ q[reg.i].valid
      /\ q[reg.i].cr3 = processes[reg.i].cr3
      /\ q[reg.i].threads = processes[reg.i].threads
      /\ q[reg.i].thread_count = processes[reg.i].thread_count
      /\ \A k \in Pid : k # reg.i => q[k] = processes[k]
  <2>1. q \in [Pid -> Process]
    BY <1>2, <1>3 DEF Process
  <2>2. \A k \in Pid : k # reg.i => q[k] = processes[k]
    BY <1>2, <1>3 DEF Process
  <2>. QED BY <2>1, <2>2, <1>2, <1>3 DEF Process
<1>5. processes' = [q EXCEPT ![reg.i].thread_count = 1]
  BY DEF SetValid
<1>. HIDE DEF q
<1>6. /\ processes' \in [Pid -> Process] /\ processes'[reg.i].thread_count = 1
      /\ processes'[reg.i].valid = q[reg.i].valid
      /\ processes'[reg.i].cr3 = q[reg.i].cr3
      /\ processes'[reg.i].threads = q[reg.i].threads
      /\ \A k \in Pid : k # reg.i => processes'[k] = q[k]
  <2>1. processes' \in [Pid -> Process]
    BY <1>2, <1>4, <1>5, SchedAssumption DEF Process
  <2>2. \A k \in Pid : k # reg.i => processes'[k] = q[k]
    BY <1>2, <1>4, <1>5, SchedAssumption DEF Process
  <2>3. processes'[reg.i].valid = q[reg.i].valid
    BY <1>2, <1>4, <1>5, SchedAssumption DEF Process
  <2>4. processes'[reg.i].thread_count = 1
    BY <1>2, <1>4, <1>5, SchedAssumption DEF Process
  <2>. QED BY <2>1, <2>2, <2>3, <2>4, <1>2, <1>4, <1>5, SchedAssumption DEF Process
<1>7. /\ reg'.at = "process_count" /\ reg'.at \in Critical
      /\ reg'.stack = reg.stack /\ reg'.i = reg.i /\ reg'.j = reg.j
      /\ reg' \in Context
  BY <1>1, <1>2 DEF IInv, TypeOK, Context, Labels, Critical, SetValid, From, tables,
     clock
<1>8. /\ \A i \in Pid : i # reg.i => processes'[i] = processes[i]
      /\ processes'[reg.i].valid
      /\ processes'[reg.i].cr3 = processes[reg.i].cr3
      /\ processes'[reg.i].threads = processes[reg.i].threads
      /\ processes'[reg.i].thread_count = 1
  BY <1>2, <1>4, <1>6
<1>9. /\ UNCHANGED <<thread, running_processes, sched_mutex, sys_ready, cpu,
                     timer_ticks, fault>>
      /\ sched_mutex' = 1 /\ dead' \in BOOLEAN
  BY <1>1 DEF IInv, TypeOK, SetValid, tables, clock
<1>10. TypeOK'
  BY <1>7, <1>8, <1>9, <1>4, <1>6 DEF IInv, TypeOK, Slot, Process
<1>11. Running'
  <2>1. CASE reg.stack = Boot
    BY <1>1, <1>2, <1>7, <1>8, <1>9, <2>1 DEF IInv, Running, AtBoot, BootLabels,
       MakingProcess, NoThread, NONE, IDLE, BUSY
  <2>2. CASE reg.stack # Boot
    BY <1>1, <1>2, <1>7, <1>8, <1>9, <2>2 DEF IInv, TypeOK, Running, AtThread,
       ThreadLabels, Labels, MakingProcess
  <2>. QED BY <2>1, <2>2
<1>12. Slots' /\ Tables'
  <2>1. Slots'
    BY <1>7, <1>8, <1>9 DEF IInv, Slots
  <2>2. Tables'
    BY <1>1, <1>2, <1>7, <1>8, <1>9 DEF IInv, Tables, MakingProcess, NONE, IDLE,
       BUSY
  <2>. QED BY <2>1, <2>2
<1>13. Quiet'
  BY <1>1, <1>7, <1>8, <1>9 DEF Quiet, Waiting
<1>14. Consistent(reg)'
  <2>1. Valid' = Valid \cup {reg.i} /\ reg.i \notin Valid
    BY <1>1, <1>2, <1>7, <1>8, <1>9 DEF Valid, MakingProcess
  <2>2. Cardinality(Valid') = Cardinality(Valid) + 1
    BY <2>1, Sizes, FS_AddElement
  <2>5. Cardinality(Valid) \in Nat
    BY Sizes
  <2>3. Made' = Made
    BY <1>7, <1>8, <1>9 DEF Made
  <2>4. reg.i = 0 => Cardinality(Made) = 1
    <3>1. reg.i = 0 => Made = {0}
      BY <1>1, <1>2 DEF IInv, Running, AtBoot, Made, MakingProcess, NoThread, NONE,
         IDLE
    <3>. QED BY <3>1, FS_Singleton
  <2>. QED BY <1>1, <1>2, <1>7, <1>8, <1>9, <2>2, <2>3, <2>4, <2>5 DEF Consistent,
     Halfway
<1>15. MakingThread(reg)'
  BY <1>7, <1>8, <1>9 DEF MakingThread
<1>16. MakingProcess(reg)'
  BY <1>1, <1>2, <1>7, <1>8, <1>9 DEF MakingProcess
<1>17. FaultsExplained'
  BY <1>1, <1>7, <1>8, <1>9 DEF FaultsExplained
<1>18. OneOwner' /\ Owned'
  BY <1>7, <1>8, <1>9, <1>13, <1>14, <1>15, <1>16, OwnerStep
<1>. QED BY <1>10, <1>11, <1>12, <1>17, <1>18 DEF IInv

\* The count of processes catches up.
LEMMA CountProcessIInv ==
    ASSUME IInv, CountProcess
    PROVE  IInv'
<1>. USE ZeroExists
<1>1. /\ reg.at = "process_count" /\ ~fault
      /\ Quiet /\ sched_mutex = 1
      /\ Consistent(reg) /\ MakingThread(reg) /\ MakingProcess(reg)
  BY OwnerAlone DEF CountProcess, From, Critical, Labels
<1>2. reg.j = 0 /\ reg.i \in Pid /\ (reg.i = 0 <=> reg.stack = Boot)
  BY <1>1 DEF IInv, TypeOK, Context, MakingProcess
<1>3. /\ reg'.at = "release" /\ reg'.at \in Critical
      /\ reg'.stack = reg.stack /\ reg'.i = reg.i /\ reg'.j = reg.j
      /\ reg' \in Context
      /\ thread' = thread
      /\ processes' = processes
      /\ UNCHANGED <<sched_mutex, sys_ready, cpu, timer_ticks, fault>>
      /\ sched_mutex' = 1 /\ dead' \in BOOLEAN
      /\ running_processes' = running_processes + 1
  BY <1>1, <1>2 DEF IInv, TypeOK, Context, Labels, Critical, CountProcess, From,
     tables, clock
<1>4. TypeOK'
  <2>3. running_processes' \in 0..MaxProcesses
    BY <1>1, Sizes DEF CountProcess, Consistent
  <2>. QED BY <1>3, <2>3 DEF IInv, TypeOK, Slot, Process
<1>5. Running'
  <2>1. CASE reg.stack = Boot
    BY <1>1, <1>2, <1>3, <2>1 DEF IInv, Running, AtBoot, BootLabels, MakingProcess,
       NoThread, NONE, IDLE, BUSY
  <2>2. CASE reg.stack # Boot
    BY <1>1, <1>2, <1>3, <2>2 DEF IInv, TypeOK, Running, AtThread, ThreadLabels,
       Labels, MakingProcess
  <2>. QED BY <2>1, <2>2
<1>6. Slots' /\ Tables'
  BY <1>3 DEF IInv, Slots, Tables
<1>7. Quiet'
  BY <1>1, <1>3 DEF Quiet, Waiting
<1>8. Consistent(reg)'
  <2>1. Valid' = Valid /\ Made' = Made
    BY <1>3 DEF Valid, Made
  <2>2. Cardinality(Valid) \in Nat
    BY Sizes
  <2>. QED BY <1>1, <1>3, <2>1, <2>2 DEF CountProcess, Consistent, Halfway
<1>9. MakingThread(reg)'
  BY <1>3 DEF MakingThread
<1>10. MakingProcess(reg)'
  BY <1>1, <1>2, <1>3 DEF MakingProcess
<1>11. FaultsExplained'
  BY <1>1, <1>3 DEF FaultsExplained
<1>12. OneOwner' /\ Owned'
  BY <1>3, <1>7, <1>8, <1>9, <1>10, OwnerStep
<1>. QED BY <1>4, <1>5, <1>6, <1>11, <1>12 DEF IInv

\* A step of the owner of sched_mutex that changes no table and no clock.
LEMMA RegisterStep ==
    ASSUME IInv, reg.at \in Critical, reg'.at \in Critical, reg' \in Context,
           UNCHANGED <<tables, sched_mutex, sys_ready, clock, dead>>, fault' \in BOOLEAN,
           Running', Consistent(reg)', MakingThread(reg)', MakingProcess(reg)',
           FaultsExplained'
    PROVE  IInv'
<1>1. UNCHANGED <<processes, thread, running_processes, sched_mutex, sys_ready, cpu,
                  timer_ticks, dead>>
  BY DEF tables, clock
<1>2. TypeOK'
  BY <1>1 DEF IInv, TypeOK
<1>3. Slots' /\ Tables'
  BY <1>1 DEF IInv, Slots, Tables
<1>4. Quiet' /\ sched_mutex' = 1
  BY <1>1, OwnerAlone DEF Quiet, Waiting
<1>5. OneOwner' /\ Owned'
  BY <1>4, OwnerStep
<1>. QED BY <1>2, <1>3, <1>5 DEF IInv

\* find_thread returns a slot whose pointer is null, behind the main thread's;
\* it faults only at a thread that create_thread has freed.
LEMMA FindThreadIInv ==
    ASSUME IInv, FindThread
    PROVE  IInv'
<1>. USE ZeroExists
<1>1. /\ reg.at = "thread_find" /\ ~fault
      /\ Quiet /\ sched_mutex = 1
      /\ Consistent(reg) /\ MakingThread(reg) /\ MakingProcess(reg)
  BY OwnerAlone DEF FindThread, From, Critical, Labels
<1>2. reg.stack # Boot /\ AtThread /\ cpu.pid = 0
  BY <1>1 DEF IInv, Running, AtBoot, BootLabels
<1>3. UNCHANGED <<processes, thread, running_processes, sched_mutex, sys_ready, cpu,
                  timer_ticks, dead>>
  BY DEF FindThread, tables, clock
<1>4. ASSUME NEW j \in FreeSlot
      PROVE  /\ j \in Tid /\ j # 0
             /\ thread[0][j].ptr # "freed" => thread[0][j].ptr = "null"
  <2>1. j \in Tid /\ Ends(j)
    BY DEF FreeSlot
  <2>2. ~Ends(0)
    BY <1>2 DEF IInv, Tables, AtThread, Ends
  <2>3. thread[0][j].ptr = "ok" => thread[0][j].status # NONE
    BY <1>1, <2>1 DEF Consistent, Halfway
  <2>4. thread[0][j].ptr \in Pointer
    BY <2>1 DEF IInv, TypeOK
  <2>. QED BY <2>1, <2>2, <2>3, <2>4 DEF Ends, Pointer
<1>5. CASE FreeSlot = {}
  <2>1. /\ reg' = [reg EXCEPT !.at = "release"] /\ fault' = fault
    BY <1>5 DEF FindThread, From
  <2>2. /\ reg'.at = "release" /\ reg' \in Context /\ reg'.stack = reg.stack
        /\ reg.at \in Critical /\ reg'.at \in Critical
    BY <1>1, <2>1 DEF IInv, TypeOK, Context, Labels, Critical
  <2>3. Running'
    BY <1>2, <1>3, <2>2 DEF Running, AtThread, ThreadLabels, Labels
  <2>4. Consistent(reg)'
    BY <1>1, <1>3, <2>2 DEF Consistent, Valid, Made, Halfway
  <2>5. MakingThread(reg)' /\ MakingProcess(reg)'
    BY <2>2 DEF MakingThread, MakingProcess
  <2>6. FaultsExplained' /\ fault' \in BOOLEAN
    BY <1>1, <2>1 DEF IInv, TypeOK, FaultsExplained
  <2>. QED BY <1>3, <2>2, <2>3, <2>4, <2>5, <2>6, RegisterStep DEF tables, clock
<1>6. CASE FreeSlot # {}
  <2>. DEFINE j == CHOOSE x \in FreeSlot : TRUE
  <2>1. j \in FreeSlot
    BY <1>6
  <2>2. /\ j \in Tid /\ j # 0
        /\ thread[0][j].ptr # "freed" => thread[0][j].ptr = "null"
    BY <1>4, <2>1
  <2>3. CASE thread[0][j].ptr = "freed"
    <3>1. reg' = [reg EXCEPT !.at = "thread_find"] /\ fault'
      BY <1>6, <2>2, <2>3 DEF FindThread, From
    <3>. HIDE DEF j
    <3>2. /\ reg' = reg /\ reg.at \in Critical /\ reg \in Context
      BY <1>1, <3>1 DEF IInv, TypeOK, Context, Labels, Critical
    <3>3. Running'
      BY <1>3, <3>2 DEF IInv, Running, AtBoot, AtThread
    <3>4. Consistent(reg)' /\ MakingThread(reg)' /\ MakingProcess(reg)'
      BY <1>1, <1>3, <3>2 DEF Consistent, Valid, Made, MakingThread, MakingProcess
    <3>5. Dangling
      <4>1. <<0, j>> \in Pid \X Tid
        BY <2>2
      <4>. QED BY <1>2, <2>3, <4>1 DEF Dangling, AtThread
    <3>6. FaultsExplained' /\ fault' \in BOOLEAN
      BY <1>3, <3>1, <3>5 DEF FaultsExplained, Dangling, FindThread, From
    <3>. QED BY <1>3, <3>2, <3>3, <3>4, <3>6, RegisterStep DEF tables, clock
  <2>4. CASE thread[0][j].ptr # "freed"
    <3>1. reg' = [reg EXCEPT !.at = "thread_alloc", !.i = cpu.pid, !.j = j] /\ fault' = fault
      BY <1>6, <2>2, <2>4 DEF FindThread
    <3>. HIDE DEF j
    <3>2. /\ reg'.at = "thread_alloc" /\ reg' \in Context /\ reg'.stack = reg.stack
          /\ reg'.i = 0 /\ reg'.j = j
          /\ reg.at \in Critical /\ reg'.at \in Critical
      BY <1>1, <1>2, <2>2, <3>1 DEF IInv, TypeOK, Context, Labels, Critical
    <3>3. Running'
      BY <1>2, <1>3, <3>2 DEF Running, AtThread, ThreadLabels, Labels
    <3>4. Consistent(reg)'
      BY <1>1, <1>3, <3>2 DEF Consistent, Valid, Made, Halfway
    <3>5. MakingThread(reg)' /\ MakingProcess(reg)'
      BY <1>3, <2>2, <2>4, <3>2 DEF MakingThread, MakingProcess
    <3>6. FaultsExplained' /\ fault' \in BOOLEAN
      BY <1>1, <3>1 DEF IInv, TypeOK, FaultsExplained
    <3>. QED BY <1>3, <3>2, <3>3, <3>4, <3>5, <3>6, RegisterStep DEF tables, clock
  <2>. QED BY <2>3, <2>4
<1>. QED BY <1>5, <1>6

\* find_process returns an entry that nobody else is filling; at boot it is 0.
LEMMA FindProcessIInv ==
    ASSUME IInv, FindProcess
    PROVE  IInv'
<1>. USE ZeroExists
<1>1. /\ reg.at = "process_find" /\ ~fault
      /\ Quiet /\ sched_mutex = 1
      /\ Consistent(reg) /\ MakingThread(reg) /\ MakingProcess(reg)
  BY OwnerAlone DEF FindProcess, From, Critical, Labels
<1>2. UNCHANGED <<processes, thread, running_processes, sched_mutex, sys_ready, cpu,
                  timer_ticks, dead, fault>>
  BY DEF FindProcess, tables, clock
<1>3. FaultsExplained' /\ fault' \in BOOLEAN
  BY <1>1, <1>2 DEF IInv, TypeOK, FaultsExplained
<1>4. /\ reg.at \in Critical
      /\ reg.stack = Boot <=> ~processes[0].valid
  BY <1>1 DEF IInv, Running, AtBoot, AtThread, Critical, Labels
<1>5. CASE FreeProcess = {}
  <2>1. reg' = [reg EXCEPT !.at = "release"]
    BY <1>5 DEF FindProcess, From
  <2>2. /\ reg'.at = "release" /\ reg' \in Context /\ reg'.stack = reg.stack
        /\ reg'.at \in Critical
    BY <1>1, <2>1 DEF IInv, TypeOK, Context, Labels, Critical
  <2>3. reg.stack # Boot
    BY <1>4, <1>5, SchedAssumption DEF FreeProcess, Pid
  <2>4. Running'
    BY <1>2, <2>2, <2>3 DEF IInv, Running, AtThread, ThreadLabels, Labels
  <2>5. Consistent(reg)'
    BY <1>1, <1>2, <2>2 DEF Consistent, Valid, Made, Halfway
  <2>6. MakingThread(reg)' /\ MakingProcess(reg)'
    BY <2>2 DEF MakingThread, MakingProcess
  <2>. QED BY <1>2, <1>3, <1>4, <2>2, <2>4, <2>5, <2>6, RegisterStep DEF tables,
     clock
<1>6. CASE FreeProcess # {}
  <2>. DEFINE i == CHOOSE x \in FreeProcess : TRUE
  <2>1. i \in Pid /\ ~processes[i].valid /\ \A k \in Pid : k < i => processes[k].valid
    BY <1>6 DEF FreeProcess
  <2>2. reg' = [reg EXCEPT !.at = "process_cr3", !.j = 0, !.i = i]
    BY <1>6 DEF FindProcess
  <2>. HIDE DEF i
  <2>3. /\ reg'.at = "process_cr3" /\ reg' \in Context /\ reg'.stack = reg.stack
        /\ reg'.i = i /\ reg'.j = 0 /\ reg'.at \in Critical
    BY <1>1, <2>1, <2>2 DEF IInv, TypeOK, Context, Labels, Critical
  <2>4. i = 0 <=> reg.stack = Boot
    BY <1>4, <2>1, SchedAssumption DEF Pid
  <2>5. thread[i][0].status = NONE
    BY <1>1, <2>1 DEF Consistent
  <2>6. Running'
    <3>1. CASE reg.stack = Boot
      BY <1>1, <1>2, <2>3, <2>4, <3>1 DEF IInv, Running, AtBoot, BootLabels
    <3>2. CASE reg.stack # Boot
      BY <1>2, <2>3, <3>2 DEF IInv, Running, AtThread, ThreadLabels, Labels
    <3>. QED BY <3>1, <3>2
  <2>7. Consistent(reg)'
    BY <1>1, <1>2, <2>3 DEF Consistent, Valid, Made, Halfway
  <2>8. MakingThread(reg)' /\ MakingProcess(reg)'
    BY <1>2, <2>1, <2>3, <2>4, <2>5 DEF MakingThread, MakingProcess
  <2>. QED BY <1>2, <1>3, <1>4, <2>3, <2>6, <2>7, <2>8, RegisterStep DEF tables,
     clock
<1>. QED BY <1>5, <1>6

-----------------------------------------------------------------------------
(* Calls, the lock, and the ticks that do not switch.                      *)

\* A step that leaves the tables and the lock alone and runs outside of the
\* critical section, or leaves the registers alone too, keeps the owner.
LEMMA SameOwner ==
    ASSUME IInv, UNCHANGED <<processes, thread, running_processes, sched_mutex>>,
           reg' = reg \/ (reg.at \notin Critical /\ reg'.at \notin Critical)
    PROVE  OneOwner' /\ Owned'
<1>1. \A c : c.at \in Critical => (c \in Contexts' <=> c \in Contexts)
  BY DEF Contexts, Waiting
<1>2. OneOwner'
  BY <1>1 DEF IInv, OneOwner
<1>3. Valid' = Valid /\ Made' = Made
  BY DEF Valid, Made
<1>4. \A c : /\ Consistent(c) => Consistent(c)'
             /\ MakingThread(c) => MakingThread(c)'
             /\ MakingProcess(c) => MakingProcess(c)'
  BY <1>3 DEF Consistent, MakingThread, MakingProcess
<1>5. Owned'
  BY <1>1, <1>4 DEF IInv, Owned
<1>. QED BY <1>2, <1>5

\* A thread calls create_thread or create_process.
LEMMA CallIInv ==
    ASSUME IInv, Call
    PROVE  IInv'
<1>1. /\ reg.at = "run" /\ ~fault
      /\ reg'.at \in {"thread_lock", "process_lock"} /\ reg'.stack = reg.stack
      /\ reg' \in Context
  BY DEF Call, From, IInv, TypeOK, Context, Labels
<1>2. UNCHANGED <<processes, thread, running_processes, sched_mutex, sys_ready, cpu,
                  timer_ticks, dead, fault>>
  BY DEF Call, tables, clock
<1>3. TypeOK'
  BY <1>1, <1>2 DEF IInv, TypeOK
<1>4. Running'
  BY <1>1, <1>2 DEF IInv, Running, AtBoot, AtThread, BootLabels, ThreadLabels,
     Labels
<1>5. Slots' /\ Tables' /\ FaultsExplained'
  BY <1>1, <1>2 DEF IInv, Slots, Tables, FaultsExplained
<1>6. OneOwner' /\ Owned'
  BY <1>1, <1>2, SameOwner DEF Critical, Labels
<1>. QED BY <1>3, <1>4, <1>5, <1>6 DEF IInv

\* sched_init is done, and the boot context waits for the first switch.
LEMMA SchedReadyIInv ==
    ASSUME IInv, SchedReady
    PROVE  IInv'
<1>1. /\ reg.at = "sched_init" /\ ~fault
      /\ reg'.at = "kmain" /\ reg'.stack = reg.stack /\ reg'.i = reg.i
      /\ reg'.j = reg.j
      /\ reg' \in Context
  BY DEF SchedReady, From, IInv, TypeOK, Context, Labels
<1>2. /\ UNCHANGED <<processes, thread, running_processes, sched_mutex, cpu,
                     timer_ticks, dead, fault>>
      /\ sys_ready' = TRUE
  BY DEF SchedReady, tables, clock
<1>3. TypeOK'
  BY <1>1, <1>2 DEF IInv, TypeOK
<1>4. Running'
  BY <1>1, <1>2 DEF IInv, Running, AtBoot, AtThread, BootLabels, ThreadLabels,
     Labels
<1>5. Slots' /\ Tables' /\ FaultsExplained'
  BY <1>1, <1>2 DEF IInv, Slots, Tables, FaultsExplained
<1>6. OneOwner' /\ Owned'
  BY <1>1, <1>2, SameOwner DEF Critical, Labels
<1>. QED BY <1>3, <1>4, <1>5, <1>6 DEF IInv

\* A tick that does not switch changes timer_ticks only.
LEMMA TickIInv ==
    ASSUME IInv, TickOnly \/ TickAlone
    PROVE  IInv'
<1>1. /\ UNCHANGED <<processes, thread, running_processes, sched_mutex, sys_ready, cpu,
                     reg, dead, fault>>
      /\ timer_ticks' = (timer_ticks + 1) % TickPeriod
  BY DEF TickOnly, TickAlone, Tick, tables
<1>2. timer_ticks' \in 0..(TickPeriod - 1)
  BY <1>1, SchedAssumption DEF IInv, TypeOK
<1>3. TypeOK'
  BY <1>1, <1>2 DEF IInv, TypeOK
<1>4. Running'
  BY <1>1 DEF IInv, Running, AtBoot, AtThread
<1>5. Slots' /\ Tables' /\ FaultsExplained'
  BY <1>1 DEF IInv, Slots, Tables, FaultsExplained, Dangling, NoFirstProcess
<1>6. OneOwner' /\ Owned'
  BY <1>1, SameOwner
<1>. QED BY <1>3, <1>4, <1>5, <1>6 DEF IInv

\* acquire() succeeds only while nobody is in the critical section.
LEMMA AcquireIInv ==
    ASSUME IInv, Acquire
    PROVE  IInv'
<1>. USE ZeroExists
<1>1. /\ reg.at \in {"thread_lock", "process_lock"} /\ ~fault
      /\ reg'.at = IF reg.at = "thread_lock" THEN "thread_find" ELSE "process_find"
      /\ reg'.stack = reg.stack /\ reg'.i = reg.i /\ reg'.j = reg.j
      /\ reg' \in Context
      /\ reg'.at \in Critical
  BY DEF Acquire, From, IInv, TypeOK, Context, Labels, Critical
<1>2. /\ UNCHANGED <<processes, thread, running_processes, sys_ready, cpu, timer_ticks,
                     dead, fault>>
      /\ sched_mutex = 0 /\ sched_mutex' = 1
  BY DEF Acquire, tables, clock
<1>3. TypeOK'
  BY <1>1, <1>2 DEF IInv, TypeOK
<1>4. Running'
  BY <1>1, <1>2 DEF IInv, Running, AtBoot, AtThread, BootLabels, ThreadLabels,
     Labels
<1>5. Slots' /\ Tables' /\ FaultsExplained'
  BY <1>1, <1>2 DEF IInv, Slots, Tables, FaultsExplained
<1>6. Quiet'
  BY <1>2 DEF IInv, OneOwner, Contexts, Quiet, Waiting
<1>7. Consistent(reg)'
  <2>1. Consistent(NoContext)
    BY <1>2 DEF IInv, Owned
  <2>2. Valid' = Valid /\ Made' = Made
    BY <1>2 DEF Valid, Made
  <2>. QED BY <1>1, <1>2, <2>1, <2>2 DEF Consistent, NoContext, Halfway
<1>8. MakingThread(reg)' /\ MakingProcess(reg)'
  BY <1>1 DEF MakingThread, MakingProcess
<1>9. OneOwner' /\ Owned'
  BY <1>1, <1>2, <1>6, <1>7, <1>8, OwnerStep
<1>. QED BY <1>3, <1>4, <1>5, <1>9 DEF IInv

\* release() leaves complete tables behind.
LEMMA ReleaseIInv ==
    ASSUME IInv, Release
    PROVE  IInv'
<1>. USE ZeroExists
<1>1. /\ reg.at = "release" /\ ~fault
      /\ Quiet /\ Consistent(reg)
  BY OwnerAlone DEF Release, Critical, Labels
<1>2. /\ reg'.at = IF reg.stack = Boot THEN "sched_init" ELSE "run"
      /\ reg'.stack = reg.stack /\ reg'.i = 0 /\ reg'.j = 0 /\ reg' \in Context
  BY DEF Release, IInv, TypeOK, Context, Labels
<1>3. /\ UNCHANGED <<processes, thread, running_processes, sys_ready, cpu, timer_ticks,
                     dead, fault>>
      /\ sched_mutex' = 0
  BY DEF Release, tables, clock
<1>4. TypeOK'
  BY <1>2, <1>3 DEF IInv, TypeOK
<1>5. Running'
  BY <1>1, <1>2, <1>3 DEF IInv, Running, AtBoot, AtThread, BootLabels, ThreadLabels,
     Labels
<1>6. Slots' /\ Tables' /\ FaultsExplained'
  BY <1>1, <1>3 DEF IInv, Slots, Tables, FaultsExplained
<1>7. \A c \in Contexts' : c.at \notin Critical
  BY <1>1, <1>2, <1>3 DEF Contexts, Waiting, Quiet, Critical, Labels
<1>8. OneOwner'
  BY <1>3, <1>7 DEF OneOwner
<1>9. Consistent(NoContext)'
  <2>1. Valid' = Valid /\ Made' = Made
    BY <1>3 DEF Valid, Made
  <2>. QED BY <1>1, <1>3, <2>1 DEF Consistent, NoContext, Halfway
<1>10. Owned'
  BY <1>7, <1>9 DEF Owned
<1>. QED BY <1>4, <1>5, <1>6, <1>8, <1>10 DEF IInv

-----------------------------------------------------------------------------
(* The switch.                                                             *)

\* A set of numbers that is not empty has a smallest one.
LEMMA SmallestNumber ==
    ASSUME NEW T \in SUBSET Nat, T # {}
    PROVE  \E x \in T : \A y \in T : x <= y
<1>. DEFINE R == {s \in Nat \X Nat : s[1] < s[2]}
<1>1. IsWellFoundedOn(R, Nat)
  BY NatLessThanWellFounded, Zenon DEF OpToRel
<1>. HIDE DEF R
<1>2. PICK x \in T : \A y \in T : ~(<<y, x>> \in R)
  BY <1>1, WFMin
<1>3. ASSUME NEW y \in T PROVE x <= y
  <2>1. ~(<<y, x>> \in R)
    BY <1>2
  <2>. QED BY <2>1 DEF R
<1>. QED BY <1>3

\* What resched has saved: the context and the status of the current thread.
LEMMA SavedSlots ==
    ASSUME IInv
    PROVE  /\ Saved \in [Pid -> [Tid -> Slot]]
           /\ \A i \in Pid, j \in Tid : Saved[i][j].ptr = thread[i][j].ptr
           /\ \A i \in Pid, j \in Tid : ~cpu.sys_ready \/ i # 0 \/ j # cpu.tid =>
                 Saved[i][j] = thread[i][j]
           /\ cpu.sys_ready => /\ Saved[0][cpu.tid].status = IDLE
                               /\ Saved[0][cpu.tid].ctx = reg
<1>. USE ZeroExists
<1>1. /\ thread \in [Pid -> [Tid -> Slot]]
      /\ cpu.pid = 0 /\ cpu.tid \in Tid /\ reg \in Context
  BY DEF IInv, TypeOK, Running, Slot
<1>2. CASE ~cpu.sys_ready
  BY <1>1, <1>2 DEF Saved
<1>3. CASE cpu.sys_ready
  <2>. DEFINE t == [thread EXCEPT ![0][cpu.tid].ctx = reg]
  <2>1. Saved = [t EXCEPT ![0][cpu.tid].status = IDLE]
    BY <1>1, <1>3 DEF Saved
  <2>2. /\ t \in [Pid -> [Tid -> Slot]]
        /\ t[0][cpu.tid].ptr = thread[0][cpu.tid].ptr
        /\ t[0][cpu.tid].ctx = reg
        /\ \A i \in Pid, j \in Tid : i # 0 \/ j # cpu.tid => t[i][j] = thread[i][j]
    <3>. DEFINE s == [thread[0][cpu.tid] EXCEPT !.ctx = reg]
    <3>1. s \in Slot /\ s.ptr = thread[0][cpu.tid].ptr /\ s.ctx = reg
      <4>. thread[0][cpu.tid] \in Slot
        BY <1>1
      <4>. QED BY <1>1 DEF Slot
    <3>2. t = [thread EXCEPT ![0][cpu.tid] = s]
      OBVIOUS
    <3>. HIDE DEF s, t
    <3>. QED BY <1>1, <3>1, <3>2
  <2>. HIDE DEF t
  <2>3. /\ Saved \in [Pid -> [Tid -> Slot]]
        /\ Saved[0][cpu.tid].ptr = t[0][cpu.tid].ptr
        /\ Saved[0][cpu.tid].ctx = t[0][cpu.tid].ctx
        /\ Saved[0][cpu.tid].status = IDLE
        /\ \A i \in Pid, j \in Tid : i # 0 \/ j # cpu.tid => Saved[i][j] = t[i][j]
    BY <1>1, <2>1, <2>2 DEF Slot
  <2>. QED BY <1>1, <1>3, <2>2, <2>3
<1>. QED BY <1>2, <1>3

\* find_idle's order: a second pass comes after everything of the first, and
\* in one pass process 0 comes before the others.
LEMMA TurnOrder ==
    ASSUME IInv, NEW t \in Pid \X Tid, NEW j \in Tid
    PROVE  /\ Turn(t) \in Nat
           /\ t[1] # 0 /\ j >= Start => Turn(<<0, j>>) < Turn(t)
           /\ t[1] # 0 /\ t[2] < Start => Turn(<<0, j>>) < Turn(t)
<1>. USE ZeroExists
<1>1. /\ t[1] \in Nat /\ t[2] \in Nat /\ MaxThreads \in Nat \ {0}
      /\ MaxProcesses \in Nat
      /\ j \in Nat /\ j < MaxThreads /\ <<0, j>>[1] = 0 /\ <<0, j>>[2] = j
      /\ cpu.pid = 0 /\ Start \in Nat
  BY SchedAssumption DEF Pid, Tid, Start, IInv, TypeOK, Running
<1>. DEFINE m == MaxProcesses * MaxThreads
            n == t[1] * MaxThreads
<1>2. m \in Nat /\ n \in Nat /\ (t[1] # 0 => n >= MaxThreads)
  BY <1>1
<1>3. /\ Turn(t) = (IF t[2] >= Start THEN 0 ELSE m) + n + t[2]
      /\ Turn(<<0, j>>) = (IF j >= Start THEN 0 ELSE m) + j
  BY <1>1 DEF Turn
<1>. HIDE DEF m, n
<1>. QED BY <1>1, <1>2, <1>3

\* The boot context has nothing to be saved: it is not a thread.
LEMMA BootNotSaved ==
    ASSUME IInv, sys_ready, ~SaveFaults
    PROVE  cpu.sys_ready <=> reg.stack # Boot
<1>1. CASE reg.stack = Boot
  <2>1. AtBoot /\ cpu.pid = 0
    BY <1>1 DEF IInv, Running
  <2>2. cpu.sys_ready => processes[0].threads # "ok"
    BY <2>1 DEF AtBoot
  <2>. QED BY <1>1, <2>1, <2>2 DEF SaveFaults, Exists
<1>2. CASE reg.stack # Boot
  BY <1>2 DEF IInv, Running, AtThread
<1>. QED BY <1>1, <1>2

\* Once saved, the interrupted thread may be picked again; at boot, the main
\* thread of process 0 may be picked.
LEMMA HomeStops ==
    ASSUME IInv, sys_ready, ~SaveFaults, processes[0].valid
    PROVE  <<0, cpu.tid>> \in Pid \X Tid /\ Stops(<<0, cpu.tid>>)
<1>. USE ZeroExists
<1>1. cpu.tid \in Tid /\ cpu.pid = 0
  BY DEF IInv, TypeOK, Running
<1>2. <<0, cpu.tid>> \in Pid \X Tid /\ <<0, cpu.tid>>[1] = 0 /\ <<0, cpu.tid>>[2] = cpu.tid
  BY <1>1
<1>3. Saved[0][cpu.tid].ptr = "ok" /\ Saved[0][cpu.tid].status = IDLE
  <2>1. CASE reg.stack = Boot
    <3>1. ~cpu.sys_ready /\ cpu.tid = 0 /\ thread[0][0].status # BUSY
      BY <2>1, BootNotSaved DEF IInv, Running, AtBoot
    <3>2. thread[0][0].ptr = "ok" /\ thread[0][0].status # NONE
      BY DEF IInv, Tables
    <3>3. thread[0][0].status \in {NONE, IDLE, BUSY}
      BY DEF IInv, TypeOK
    <3>. QED BY <3>1, <3>2, <3>3, SavedSlots
  <2>2. CASE reg.stack # Boot
    <3>1. cpu.sys_ready /\ thread[0][cpu.tid].status = BUSY
      BY <1>1, <2>2 DEF IInv, Running, AtThread
    <3>2. thread[0][cpu.tid].ptr = "ok"
      BY <1>1, <3>1 DEF IInv, Slots, NONE, BUSY
    <3>. QED BY <1>1, <3>1, <3>2, SavedSlots
  <2>. QED BY <2>1, <2>2
<1>. QED BY <1>2, <1>3 DEF Stops

\* Then find_idle finds a thread.
LEMMA SomeIdle ==
    ASSUME IInv, sys_ready, ~SaveFaults, processes[0].valid
    PROVE  Idle # {}
<1>. DEFINE stops == {t \in Pid \X Tid : Stops(t)}
            T == {Turn(t) : t \in stops}
<1>1. <<0, cpu.tid>> \in stops
  BY HomeStops
<1>2. \A t \in stops : Turn(t) \in Nat
  BY TurnOrder, ZeroExists
<1>. Idle = {t \in stops : \A u \in stops : Turn(t) <= Turn(u)}
  BY DEF Idle
<1>. HIDE DEF stops
<1>3. T \in SUBSET Nat /\ T # {}
  BY <1>1, <1>2
<1>4. PICK x \in T : \A y \in T : x <= y
  <2>. HIDE DEF T
  <2>. QED BY <1>3, SmallestNumber
<1>5. PICK t \in stops : x = Turn(t)
  OBVIOUS
<1>6. \A u \in stops : Turn(t) <= Turn(u)
  BY <1>4, <1>5
<1>. QED BY <1>5, <1>6

\* What find_idle finds is a thread of process 0: the main threads of the other
\* processes come after the interrupted thread.
LEMMA IdleIsFirst ==
    ASSUME IInv, sys_ready, ~SaveFaults, NEW t \in Idle
    PROVE  /\ t[1] = 0 /\ t[2] \in Tid /\ t = <<0, t[2]>>
           /\ processes[0].valid
           /\ \/ thread[0][t[2]].ptr = "freed"
              \/ thread[0][t[2]].ptr = "ok" /\ Saved[0][t[2]].status = IDLE
<1>. USE ZeroExists
<1>1. /\ t \in Pid \X Tid /\ t[1] \in Pid /\ t[2] \in Tid /\ t = <<t[1], t[2]>>
      /\ Stops(t)
      /\ \A u \in Pid \X Tid : Stops(u) => Turn(t) <= Turn(u)
  BY DEF Idle
<1>2. processes[t[1]].valid /\ processes[t[1]].threads = "ok"
  BY <1>1 DEF Stops, IInv, Tables
<1>3. processes[0].valid
  BY <1>1, <1>2 DEF IInv, Running, AtBoot, AtThread
<1>4. Turn(t) <= Turn(<<0, cpu.tid>>)
  BY <1>1, <1>3, HomeStops
<1>5. cpu.tid \in Tid
  BY DEF IInv, TypeOK
<1>6. t[1] = 0
  <2>1. SUFFICES ASSUME t[1] # 0 PROVE FALSE
    OBVIOUS
  <2>2. reg.stack # Boot
    BY <1>1, <1>2, <2>1 DEF IInv, Running, AtBoot
  <2>3. cpu.sys_ready /\ Start = cpu.tid + 1
    BY <2>2, BootNotSaved DEF Start
  <2>4. Turn(t) \in Nat /\ Turn(<<0, cpu.tid>>) \in Nat
    <3>1. <<0, cpu.tid>> \in Pid \X Tid
      BY <1>5
    <3>. QED BY <1>1, <1>5, <3>1, TurnOrder
  <2>5. CASE t[2] < Start
    <3>1. Turn(<<0, cpu.tid>>) < Turn(t)
      BY <1>1, <1>5, <2>1, <2>5, TurnOrder
    <3>. QED BY <1>4, <2>4, <3>1
  <2>6. CASE ~(t[2] < Start)
    <3>1. t[2] # 0
      BY <1>1, <1>5, <2>3, <2>6, SchedAssumption DEF Tid
    <3>2. thread[t[1]][t[2]] = NoThread
      BY <1>1, <2>1, <3>1 DEF IInv, Tables
    <3>3. Saved[t[1]][t[2]] = NoThread
      BY <1>1, <2>1, <3>2, SavedSlots
    <3>. QED BY <1>1, <1>2, <3>3 DEF Stops, NoThread
  <2>. QED BY <2>5, <2>6
<1>7. Saved[0][t[2]].ptr = thread[0][t[2]].ptr
  BY <1>1, SavedSlots
<1>. QED BY <1>1, <1>2, <1>3, <1>6, <1>7 DEF Stops

\* A tick that ends in an exception changes nothing else.
LEMMA FaultStep ==
    ASSUME IInv, Dangling \/ NoFirstProcess, fault' = TRUE,
           timer_ticks' \in 0..(TickPeriod - 1),
           UNCHANGED <<processes, thread, running_processes, sched_mutex, sys_ready, cpu,
                       reg, dead>>
    PROVE  IInv'
<1>1. TypeOK'
  BY DEF IInv, TypeOK
<1>2. Running'
  BY DEF IInv, Running, AtBoot, AtThread
<1>3. Slots' /\ Tables'
  BY DEF IInv, Slots, Tables
<1>4. FaultsExplained'
  BY DEF FaultsExplained, Dangling, NoFirstProcess
<1>5. OneOwner' /\ Owned'
  BY SameOwner
<1>. QED BY <1>1, <1>2, <1>3, <1>4, <1>5 DEF IInv

\* The effect of running thread j of process 0, on the threads.
LEMMA LoadSlots ==
    ASSUME IInv, sys_ready, ~SaveFaults, processes[0].valid, NEW j \in Tid,
           thread[0][j].ptr = "ok", Saved[0][j].status = IDLE, Load(0, j)
    PROVE  /\ thread' \in [Pid -> [Tid -> Slot]]
           /\ \A i \in Pid \ {0} : \A k \in Tid : thread'[i][k] = thread[i][k]
           /\ \A k \in Tid : thread'[0][k].ptr = thread[0][k].ptr
           /\ thread'[0][j].status = BUSY
           /\ \A k \in Tid \ {j} : thread'[0][k] = Saved[0][k]
<1>. USE ZeroExists
<1>. DEFINE s == [Saved[0][j] EXCEPT !.status = BUSY]
            u == [s EXCEPT !.ctx = NoContext]
            t == [Saved EXCEPT ![0][j] = s]
<1>1. Saved \in [Pid -> [Tid -> Slot]]
  BY SavedSlots
<1>2. s \in Slot /\ s.status = BUSY /\ s.ptr = Saved[0][j].ptr
  <2>. Saved[0][j] \in Slot
    BY <1>1
  <2>. QED BY DEF Slot
<1>3. u \in Slot /\ u.status = BUSY /\ u.ptr = Saved[0][j].ptr
  <2>. HIDE DEF s
  <2>. QED BY <1>2, ThreadTypes DEF Slot
<1>4. t \in [Pid -> [Tid -> Slot]] /\ t[0][j] = s
      /\ \A i \in Pid, k \in Tid : i # 0 \/ k # j => t[i][k] = Saved[i][k]
  <2>. HIDE DEF s
  <2>. QED BY <1>1, <1>2
<1>5. thread' = [t EXCEPT ![0][j].ctx = NoContext]
  BY DEF Load
<1>6. thread' = [t EXCEPT ![0][j] = u]
  BY <1>4, <1>5
<1>. HIDE DEF s, u, t
<1>7. /\ thread' \in [Pid -> [Tid -> Slot]] /\ thread'[0][j] = u
      /\ \A i \in Pid, k \in Tid : i # 0 \/ k # j => thread'[i][k] = t[i][k]
  BY <1>3, <1>4, <1>6
<1>. QED BY <1>3, <1>4, <1>7, SavedSlots

\* Running thread j of process 0 exchanges contexts and loses none that is in
\* the critical section.
LEMMA LoadIInv ==
    ASSUME IInv, sys_ready, ~SaveFaults, processes[0].valid, NEW j \in Tid,
           thread[0][j].ptr = "ok", Saved[0][j].status = IDLE, Load(0, j),
           ~fault, timer_ticks' \in 0..(TickPeriod - 1),
           UNCHANGED <<processes, running_processes, sched_mutex, sys_ready, dead, fault>>
    PROVE  IInv'
<1>. USE ZeroExists
<1>1. /\ thread' \in [Pid -> [Tid -> Slot]]
      /\ \A i \in Pid \ {0} : \A k \in Tid : thread'[i][k] = thread[i][k]
      /\ \A k \in Tid : thread'[0][k].ptr = thread[0][k].ptr
      /\ thread'[0][j].status = BUSY
      /\ \A k \in Tid \ {j} : thread'[0][k] = Saved[0][k]
  BY LoadSlots
<1>2. /\ reg' = Saved[0][j].ctx
      /\ cpu'.pid = 0 /\ cpu'.tid = j /\ cpu'.sys_ready
      /\ cpu' \in [pid : Pid, tid : Tid, sys_ready : BOOLEAN]
  BY DEF Load
<1>3. /\ cpu.tid \in Tid
      /\ cpu.sys_ready <=> reg.stack # Boot
      /\ reg.stack = Boot => AtBoot /\ reg.at = "kmain" /\ cpu.tid = 0
      /\ reg.stack # Boot => AtThread
  BY BootNotSaved DEF IInv, TypeOK, Running, AtBoot
<1>4. \A k \in Tid : thread[0][k].status = BUSY <=> cpu.sys_ready /\ k = cpu.tid
  BY <1>3 DEF AtBoot, AtThread
<1>5. \A k \in Tid : ~cpu.sys_ready \/ k # cpu.tid => Saved[0][k] = thread[0][k]
  BY SavedSlots
<1>6. cpu.sys_ready => Saved[0][cpu.tid].status = IDLE /\ Saved[0][cpu.tid].ctx = reg
  BY SavedSlots
<1>7. \A k \in Tid : thread[0][k].status = IDLE =>
         thread[0][k].ctx.stack = <<0, k>> /\ thread[0][k].ctx.at \in ThreadLabels
  BY DEF IInv, Slots
<1>8. \A k \in Tid : Saved[0][k].status = IDLE =>
         Saved[0][k].ctx.stack = <<0, k>> /\ Saved[0][k].ctx.at \in ThreadLabels
  BY <1>3, <1>5, <1>6, <1>7 DEF AtThread
<1>9. \A k \in Tid : Saved[0][k].status # BUSY
  BY <1>4, <1>5, <1>6 DEF IDLE, BUSY
<1>10. TypeOK'
  <2>1. Saved[0][j].ctx \in Context
    BY SavedSlots DEF Slot
  <2>. QED BY <1>1, <1>2, <2>1 DEF IInv, TypeOK, Slot
<1>11. Running'
  <2>1. reg'.stack = <<0, j>> /\ reg'.at \in ThreadLabels
    BY <1>2, <1>8
  <2>2. reg'.stack # Boot
    BY <2>1 DEF Boot
  <2>3. running_processes >= 1
    BY <1>3 DEF AtBoot, AtThread
  <2>4. \A k \in Tid : thread'[0][k].status = BUSY <=> k = j
    BY <1>1, <1>9
  <2>. QED BY <1>2, <2>1, <2>2, <2>3, <2>4 DEF Running, AtThread
<1>12. Slots'
  <2>1. \A k \in Tid : thread[0][k].ptr # "ok" => Saved[0][k].status = NONE
    BY <1>3, <1>4, <1>5 DEF IInv, Slots, NONE, BUSY
  <2>. QED BY <1>1, <1>8, <2>1 DEF Slots, IDLE, BUSY
<1>13. \A k \in Tid : /\ thread'[0][k].status = NONE <=> thread[0][k].status = NONE
                      /\ thread[0][k].status = NONE => thread'[0][k] = thread[0][k]
  BY <1>1, <1>4, <1>5, <1>6 DEF NONE, IDLE, BUSY
<1>14. Tables'
  <2>1. \A i \in Pid : thread'[i][0].ptr = thread[i][0].ptr
                       /\ (thread'[i][0].status # NONE <=> thread[i][0].status # NONE)
    BY <1>1, <1>13
  <2>. QED BY <1>1, <2>1 DEF IInv, Tables
<1>15. \A c : c.at \in Critical => (c \in Contexts' <=> c \in Contexts)
  <2>1. Waiting' = {k \in Tid \ {j} : Saved[0][k].status = IDLE}
    BY <1>1 DEF Waiting, IDLE, BUSY
  <2>2. Contexts' = {Saved[0][k].ctx : k \in {l \in Tid : Saved[0][l].status = IDLE}}
    BY <1>1, <1>2, <2>1 DEF Contexts
  <2>3. CASE cpu.sys_ready
    <3>1. {k \in Tid : Saved[0][k].status = IDLE} = Waiting \cup {cpu.tid}
      BY <1>3, <1>5, <1>6, <2>3 DEF Waiting
    <3>2. cpu.tid \notin Waiting
      BY <1>3, <1>4, <2>3 DEF Waiting, IDLE, BUSY
    <3>. QED BY <1>3, <1>5, <1>6, <2>2, <2>3, <3>1, <3>2 DEF Contexts, Waiting
  <2>4. CASE ~cpu.sys_ready
    <3>1. {k \in Tid : Saved[0][k].status = IDLE} = Waiting
      BY <1>5, <2>4 DEF Waiting
    <3>2. reg.at \notin Critical
      BY <1>3, <2>4 DEF Critical
    <3>3. \A k \in Waiting : Saved[0][k].ctx = thread[0][k].ctx
      BY <1>5, <2>4 DEF Waiting
    <3>4. Contexts' = {thread[0][k].ctx : k \in Waiting}
      BY <2>2, <3>1, <3>3
    <3>5. Contexts = {reg} \cup {thread[0][k].ctx : k \in Waiting}
      BY DEF Contexts
    <3>. QED BY <3>2, <3>4, <3>5
  <2>. QED BY <2>3, <2>4
<1>16. OneOwner'
  BY <1>15 DEF IInv, OneOwner
<1>17. Valid' = Valid /\ Made' = Made
  BY <1>1, <1>13 DEF Valid, Made
<1>18. \A c : Consistent(c) => Consistent(c)'
  <2>1. \A i \in Pid : thread'[i][0].status # NONE <=> thread[i][0].status # NONE
    BY <1>1, <1>13
  <2>. QED BY <1>1, <1>13, <1>17, <2>1 DEF Consistent
<1>19. ASSUME NEW c \in Contexts, MakingThread(c), MakingProcess(c)
       PROVE  MakingThread(c)' /\ MakingProcess(c)'
  <2>1. c.i \in Pid /\ c.j \in Tid
    BY DEF Contexts, Waiting, IInv, TypeOK, Context
  <2>2. MakingThread(c)'
    BY <1>1, <1>13, <1>19, <2>1 DEF MakingThread
  <2>3. MakingProcess(c)'
    <3>1. CASE c.i = 0
      BY <1>1, <1>13, <1>19, <2>1, <3>1 DEF MakingProcess
    <3>2. CASE c.i # 0
      BY <1>1, <1>19, <2>1, <3>2 DEF MakingProcess
    <3>. QED BY <3>1, <3>2
  <2>. QED BY <2>2, <2>3
<1>20. Owned'
  BY <1>15, <1>18, <1>19 DEF IInv, Owned
<1>21. FaultsExplained'
  BY DEF FaultsExplained
<1>. QED BY <1>10, <1>11, <1>12, <1>14, <1>16, <1>20, <1>21 DEF IInv

\* resched and find_idle, whatever they find.
LEMMA TickSwitchIInv ==
    ASSUME IInv, TickSwitch
    PROVE  IInv'
<1>. USE ZeroExists
<1>1. /\ ~fault /\ sys_ready
      /\ UNCHANGED <<processes, running_processes, sched_mutex, sys_ready, dead>>
  BY DEF TickSwitch, Tick, Rescheds
<1>2. timer_ticks' \in 0..(TickPeriod - 1)
  <2>1. timer_ticks' = (timer_ticks + 1) % TickPeriod
    BY DEF TickSwitch, Tick
  <2>. QED BY <2>1, SchedAssumption DEF IInv, TypeOK
<1>3. CASE SaveFaults
  <2>1. fault' = TRUE /\ UNCHANGED <<cpu, thread, reg>>
    BY <1>3 DEF TickSwitch
  <2>2. NoFirstProcess
    <3>1. CASE reg.stack = Boot
      BY <1>1, <1>3, <3>1 DEF SaveFaults, IInv, Running, AtBoot, NoFirstProcess
    <3>2. CASE reg.stack # Boot
      <4>1. /\ cpu.pid = 0 /\ cpu.tid \in Tid /\ processes[0].valid
            /\ thread[0][cpu.tid].status = BUSY
        BY <3>2 DEF IInv, TypeOK, Running, AtThread
      <4>2. processes[0].threads = "ok" /\ thread[0][cpu.tid].ptr = "ok"
        BY <4>1 DEF IInv, Tables, Slots, NONE, BUSY
      <4>. QED BY <1>3, <4>1, <4>2 DEF SaveFaults, Exists
    <3>. QED BY <3>1, <3>2
  <2>. QED BY <1>1, <1>2, <2>1, <2>2, FaultStep
<1>4. CASE ~SaveFaults /\ Idle = {}
  <2>1. ~processes[0].valid
    BY <1>1, <1>4, SomeIdle
  <2>2. reg.stack = Boot /\ AtBoot /\ cpu.pid = 0 /\ ~cpu.sys_ready
    BY <1>1, <1>4, <2>1, BootNotSaved DEF IInv, Running, AtThread
  <2>3. /\ cpu' = [cpu EXCEPT !.tid = Start, !.sys_ready = TRUE]
        /\ thread' = Saved /\ UNCHANGED <<reg, fault>>
    BY <1>4 DEF TickSwitch
  <2>4. thread' = thread /\ Start = 0
    BY <2>2, <2>3 DEF Saved, Start, AtBoot
  <2>5. /\ cpu'.pid = 0 /\ cpu'.tid = 0 /\ cpu'.sys_ready
        /\ cpu' \in [pid : Pid, tid : Tid, sys_ready : BOOLEAN]
    BY <2>2, <2>3, <2>4 DEF IInv, TypeOK
  <2>6. TypeOK'
    BY <1>1, <1>2, <2>3, <2>4, <2>5 DEF IInv, TypeOK
  <2>7. Running'
    BY <1>1, <2>1, <2>2, <2>3, <2>4, <2>5 DEF Running, AtBoot
  <2>8. Slots' /\ Tables' /\ FaultsExplained'
    BY <1>1, <2>3, <2>4 DEF IInv, Slots, Tables, FaultsExplained
  <2>9. OneOwner' /\ Owned'
    BY <1>1, <2>3, <2>4, SameOwner
  <2>. QED BY <2>6, <2>7, <2>8, <2>9 DEF IInv
<1>5. CASE ~SaveFaults /\ Idle # {}
  <2>. DEFINE t == CHOOSE t \in Idle : TRUE
  <2>1. t \in Idle
    BY <1>5
  <2>2. IF Loadable(t[1], t[2]) THEN Load(t[1], t[2]) /\ UNCHANGED fault
        ELSE fault' = TRUE /\ UNCHANGED <<cpu, thread, reg>>
    BY <1>5 DEF TickSwitch
  <2>. HIDE DEF t
  <2>3. /\ t[1] = 0 /\ t[2] \in Tid /\ t = <<0, t[2]>>
        /\ processes[0].valid
        /\ \/ thread[0][t[2]].ptr = "freed"
           \/ thread[0][t[2]].ptr = "ok" /\ Saved[0][t[2]].status = IDLE
    BY <1>1, <1>5, <2>1, IdleIsFirst
  <2>4. CASE thread[0][t[2]].ptr = "freed"
    <3>1. ~Loadable(t[1], t[2])
      BY <2>3, <2>4 DEF Loadable, Exists
    <3>2. Dangling
      <4>1. <<0, t[2]>> \in Pid \X Tid
        BY <2>3
      <4>. QED BY <2>3, <2>4, <4>1 DEF Dangling
    <3>. QED BY <1>1, <1>2, <2>2, <3>1, <3>2, FaultStep
  <2>5. CASE thread[0][t[2]].ptr = "ok" /\ Saved[0][t[2]].status = IDLE
    <3>1. Saved[0][t[2]].ctx.stack = <<0, t[2]>> /\ Saved[0][t[2]].ctx.at \in ThreadLabels
      <4>1. CASE cpu.sys_ready /\ t[2] = cpu.tid
        <5>1. Saved[0][t[2]].ctx = reg /\ AtThread
          BY <1>1, <1>5, <4>1, SavedSlots, BootNotSaved DEF IInv, Running
        <5>. QED BY <4>1, <5>1 DEF AtThread
      <4>2. CASE ~(cpu.sys_ready /\ t[2] = cpu.tid)
        <5>1. Saved[0][t[2]] = thread[0][t[2]]
          BY <2>3, <4>2, SavedSlots
        <5>. QED BY <2>3, <2>5, <5>1 DEF IInv, Slots
      <4>. QED BY <4>1, <4>2
    <3>2. Loadable(0, t[2])
      <4>1. processes[0].threads = "ok" /\ processes[0].cr3 = "ok"
        BY <2>3 DEF IInv, Tables
      <4>. QED BY <2>3, <2>5, <3>1, <4>1 DEF Loadable, Exists, NoStack, ThreadLabels
    <3>3. Load(0, t[2]) /\ UNCHANGED fault
      BY <2>2, <2>3, <3>2
    <3>. QED BY <1>1, <1>2, <1>5, <2>3, <2>5, <3>3, LoadIInv
  <2>. QED BY <2>3, <2>4, <2>5
<1>. QED BY <1>3, <1>4, <1>5

-----------------------------------------------------------------------------
(* The theorems.                                                           *)

\* Every step of the scheduler, of a thread or of the timer, preserves the
\* inductive invariant.
LEMMA NextIInv == IInv /\ [Next]_vars => IInv'
<1>. SUFFICES ASSUME IInv, [Next]_vars PROVE IInv'
  OBVIOUS
<1>1. CASE UNCHANGED vars
  <2>1. UNCHANGED <<processes, thread, running_processes, sched_mutex, sys_ready, cpu,
                    timer_ticks, reg, dead, fault>>
    BY <1>1 DEF vars
  <2>2. TypeOK' /\ Slots' /\ Tables'
    BY <2>1 DEF IInv, TypeOK, Slots, Tables
  <2>3. Running'
    BY <2>1 DEF IInv, Running, AtBoot, AtThread
  <2>4. FaultsExplained'
    BY <2>1 DEF IInv, FaultsExplained, Dangling, NoFirstProcess
  <2>5. OneOwner' /\ Owned'
    BY <2>1, SameOwner
  <2>. QED BY <2>2, <2>3, <2>4, <2>5 DEF IInv
<1>2. CASE Call
  BY <1>2, CallIInv
<1>3. CASE Acquire \/ Release \/ SchedReady
  BY <1>3, AcquireIInv, ReleaseIInv, SchedReadyIInv
<1>4. CASE FindThread \/ AllocThread \/ AllocThreadFails \/ AllocStack \/ AllocStackFails
  BY <1>4, FindThreadIInv, AllocThreadIInv, AllocThreadFailsIInv, AllocStackIInv,
     AllocStackFailsIInv
<1>5. CASE UndoThread \/ SetEntry \/ CountThread
  BY <1>5, UndoThreadIInv, SetEntryIInv, CountThreadIInv
<1>6. CASE MarkIdle
  <2>1. reg.at = "thread_idle" \/ reg.at = "process_idle"
    BY <1>6 DEF MarkIdle, From
  <2>. QED BY <1>6, <2>1, MarkThreadIInv, MarkMainIInv
<1>7. CASE FindProcess \/ AllocCr3 \/ AllocCr3Fails \/ AllocTable \/ AllocTableFails
  BY <1>7, FindProcessIInv, AllocCr3IInv, AllocCr3FailsIInv, AllocTableIInv,
     AllocTableFailsIInv
<1>8. CASE AllocMain \/ AllocMainFails \/ AllocMainStack \/ AllocMainStackFails
  BY <1>8, AllocMainIInv, AllocMainFailsIInv, AllocMainStackIInv,
     AllocMainStackFailsIInv
<1>9. CASE UndoProcess \/ SetValid \/ CountProcess
  BY <1>9, UndoProcessIInv, SetValidIInv, CountProcessIInv
<1>10. CASE Timer
  BY <1>10, TickIInv, TickSwitchIInv DEF Timer
<1>. QED BY <1>1, <1>2, <1>3, <1>4, <1>5, <1>6, <1>7, <1>8, <1>9, <1>10 DEF Next,
   Step

\* The inductive invariant holds in every state: the tables of processes and
\* threads and sched_mutex are in step with the one context that owns them.
THEOREM Inductive == Spec => []IInv
BY InitIInv, NextIInv, PTL DEF Spec

\* All variables of the scheduler stay in their types; in particular
\* thread_count, running_processes and cpus[0].tid stay in range.
THEOREM TypeCorrect == Spec => []TypeOK
<1>1. IInv => TypeOK
  BY DEF IInv
<1>. QED BY <1>1, Inductive, PTL

\* Whatever is preempted, called and fails: resched, find_idle and find_thread
\* fault only on a thread that create_thread has freed, or without a first
\* process.
THEOREM FaultsAreExplained == Spec => []FaultsExplained
<1>1. IInv => FaultsExplained
  BY DEF IInv
<1>. QED BY <1>1, Inductive, PTL

\* cpus[0] names the thread whose stack the CPU is on, and this thread alone is
\* BUSY.
THEOREM OneThreadRuns == Spec => []OneRunning
<1>1. ASSUME IInv PROVE OneRunning
  <2>. USE ZeroExists
  <2>1. \A t \in With(BUSY) : t = <<0, t[2]>> /\ t[2] \in Tid /\ thread[0][t[2]].status = BUSY
    <3>1. SUFFICES ASSUME NEW t \in With(BUSY) PROVE t[1] = 0
      BY DEF With
    <3>2. t[1] \in Pid /\ t[2] \in Tid /\ thread[t[1]][t[2]].status = BUSY
      BY DEF With
    <3>. QED BY <1>1, <3>2 DEF IInv, Tables, NoThread, NONE, BUSY
  <2>2. CASE reg.stack = Boot
    <3>1. AtBoot
      BY <1>1, <2>2 DEF IInv, Running
    <3>2. With(BUSY) = {}
      BY <2>1, <3>1 DEF AtBoot
    <3>. QED BY <2>2, <3>1, <3>2 DEF OneRunning, AtBoot, NoFirstProcess
  <2>3. CASE reg.stack # Boot
    <3>1. AtThread /\ cpu.pid = 0 /\ cpu.tid \in Tid
      BY <1>1, <2>3 DEF IInv, Running, TypeOK
    <3>2. Current = <<0, cpu.tid>>
      BY <3>1 DEF Current
    <3>3. thread[0][cpu.tid].status = BUSY /\ thread[0][cpu.tid].ptr = "ok"
      BY <1>1, <3>1 DEF IInv, AtThread, Slots, NONE, BUSY
    <3>4. <<0, cpu.tid>> \in With(BUSY)
      BY <3>1, <3>3 DEF With
    <3>5. With(BUSY) = {Current}
      BY <2>1, <3>1, <3>2, <3>4 DEF AtThread
    <3>. QED BY <3>1, <3>2, <3>5 DEF OneRunning, AtThread
  <2>. QED BY <2>2, <2>3
<1>. QED BY <1>1, Inductive, PTL

\* sched_mutex is taken exactly when one context, running, preempted or at boot,
\* is between acquire and release.
THEOREM LockIsOwned == Spec => []LockOwned
<1>1. ASSUME IInv PROVE LockOwned
  <2>. USE ZeroExists
  <2>. DEFINE inside == {j \in Tid : /\ <<0, j>> \in With(BUSY) \cup With(IDLE)
                                     /\ ContextOf(j).at \in Critical}
              boot == IF reg.stack = Boot /\ reg.at \in Critical THEN 1 ELSE 0
  <2>1. SUFFICES sched_mutex = Cardinality(inside) + boot
    BY DEF LockOwned
  <2>2. \A j \in Tid : <<0, j>> \in With(BUSY) <=> reg.stack # Boot /\ j = cpu.tid
    <3>1. \A j \in Tid : <<0, j>> \in With(BUSY) <=>
             thread[0][j].status = BUSY /\ thread[0][j].ptr = "ok"
      BY DEF With
    <3>2. \A j \in Tid : thread[0][j].status = BUSY => thread[0][j].ptr = "ok"
      BY <1>1 DEF IInv, Slots, NONE, BUSY
    <3>. QED BY <1>1, <3>1, <3>2 DEF IInv, Running, AtBoot, AtThread
  <2>3. \A j \in Tid : <<0, j>> \in With(IDLE) <=> j \in Waiting
    <3>1. \A j \in Tid : <<0, j>> \in With(IDLE) <=>
             thread[0][j].status = IDLE /\ thread[0][j].ptr = "ok"
      BY DEF With
    <3>2. \A j \in Tid : thread[0][j].status = IDLE => thread[0][j].ptr = "ok"
      BY <1>1 DEF IInv, Slots, NONE, IDLE
    <3>. QED BY <3>1, <3>2 DEF Waiting
  <2>4. cpu.tid \in Tid /\ (reg.stack # Boot => cpu.tid \notin Waiting)
    BY <1>1 DEF IInv, TypeOK, Running, AtThread, Waiting, IDLE, BUSY
  <2>5. \A j \in Tid : j \in inside <=>
           \/ reg.stack # Boot /\ j = cpu.tid /\ reg.at \in Critical
           \/ j \in Waiting /\ thread[0][j].ctx.at \in Critical
    BY <2>2, <2>3, <2>4 DEF ContextOf
  <2>6. inside \subseteq Tid
    OBVIOUS
  <2>. HIDE DEF inside
  <2>7. CASE reg.at \in Critical
    <3>1. Quiet /\ sched_mutex = 1
      BY <1>1, <2>7, OwnerAlone
    <3>2. CASE reg.stack = Boot
      <4>1. inside = {}
        BY <2>5, <2>6, <3>1, <3>2 DEF Quiet
      <4>. QED BY <2>7, <3>1, <3>2, <4>1, FS_EmptySet
    <3>3. CASE reg.stack # Boot
      <4>1. inside = {cpu.tid}
        BY <2>4, <2>5, <2>6, <2>7, <3>1, <3>3 DEF Quiet
      <4>2. Cardinality(inside) = 1
        BY <4>1, FS_Singleton
      <4>. QED BY <3>1, <3>3, <4>2
    <3>. QED BY <3>2, <3>3
  <2>8. CASE reg.at \notin Critical /\ sched_mutex = 0
    <3>1. inside = {}
      BY <1>1, <2>5, <2>6, <2>8 DEF IInv, OneOwner, Contexts
    <3>. QED BY <2>8, <3>1, FS_EmptySet
  <2>9. CASE reg.at \notin Critical /\ sched_mutex = 1
    <3>1. PICK c \in Contexts : c.at \in Critical
      BY <1>1, <2>9 DEF IInv, OneOwner
    <3>2. PICK j \in Waiting : c = thread[0][j].ctx
      BY <2>9, <3>1 DEF Contexts
    <3>3. ASSUME NEW k \in Waiting, thread[0][k].ctx.at \in Critical PROVE k = j
      <4>1. thread[0][k].ctx \in Contexts
        BY DEF Contexts
      <4>2. thread[0][k].ctx = c
        BY <1>1, <3>1, <3>3, <4>1 DEF IInv, OneOwner
      <4>3. thread[0][k].ctx.stack = <<0, k>> /\ thread[0][j].ctx.stack = <<0, j>>
        BY <1>1 DEF IInv, Slots, Waiting
      <4>. QED BY <3>2, <4>2, <4>3
    <3>4. j \in Tid
      BY DEF Waiting
    <3>5. inside = {j}
      BY <2>5, <2>6, <2>9, <3>1, <3>2, <3>3, <3>4
    <3>6. Cardinality(inside) = 1
      BY <3>5, FS_Singleton
    <3>. QED BY <2>9, <3>6
  <2>10. sched_mutex \in {0, 1}
    BY <1>1 DEF IInv, TypeOK
  <2>. QED BY <2>7, <2>8, <2>9, <2>10
<1>. QED BY <1>1, Inductive, PTL

\* When nobody holds sched_mutex, running_processes and every thread_count are
\* the numbers they stand for and no thread is half made.
THEOREM TablesAreExact == Spec => []TablesExact
<1>1. ASSUME IInv PROVE TablesExact
  <2>. USE ZeroExists
  <2>1. SUFFICES ASSUME sched_mutex = 0
        PROVE  /\ running_processes = Cardinality({i \in Pid : processes[i].valid})
               /\ \A i \in Pid : processes[i].valid =>
                     /\ processes[i].thread_count =
                            Cardinality({j \in Tid : thread[i][j].ptr = "ok"})
                     /\ \A j \in Tid : thread[i][j].ptr = "ok" => thread[i][j].status # NONE
    BY DEF TablesExact
  <2>2. Consistent(NoContext)
    BY <1>1, <2>1 DEF IInv, Owned
  <2>3. running_processes = Cardinality({i \in Pid : processes[i].valid})
    BY <2>2, Sizes DEF Consistent, Valid, NoContext
  <2>4. ASSUME NEW i \in Pid, processes[i].valid
        PROVE  /\ processes[i].thread_count =
                      Cardinality({j \in Tid : thread[i][j].ptr = "ok"})
               /\ \A j \in Tid : thread[i][j].ptr = "ok" => thread[i][j].status # NONE
    <3>1. CASE i = 0
      <4>1. \A j \in Tid : thread[0][j].ptr = "ok" => thread[0][j].status # NONE
        BY <2>2 DEF Consistent, NoContext, Halfway
      <4>2. {j \in Tid : thread[0][j].ptr = "ok"} = Made
        BY <4>1 DEF Made
      <4>3. processes[0].thread_count = Cardinality(Made)
        BY <2>2, <2>4, <3>1, Sizes DEF Consistent, NoContext
      <4>. QED BY <3>1, <4>1, <4>2, <4>3
    <3>2. CASE i # 0
      <4>1. /\ processes[i].thread_count = 1
            /\ thread[i][0].ptr = "ok" /\ thread[i][0].status # NONE
            /\ \A j \in Tid \ {0} : thread[i][j].ptr = "null"
        BY <1>1, <2>4, <3>2 DEF IInv, Tables, NoThread
      <4>2. {j \in Tid : thread[i][j].ptr = "ok"} = {0}
        BY <4>1
      <4>. QED BY <4>1, <4>2, FS_Singleton
    <3>. QED BY <3>1, <3>2
  <2>. QED BY <2>3, <2>4
<1>. QED BY <1>1, Inductive, PTL

=============================================================================
