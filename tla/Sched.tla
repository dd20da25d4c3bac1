----------------------------- MODULE Sched ------------------------------
(***************************************************************************)
(* The control flow of the kernel around the process locks: the scheduler  *)
(* loop, yield, forkret, sys_exit, and the locking skeletons of kfork      *)
(* (with allocproc) and kwait, interleaved by the timer interrupt, on the  *)
(* single hart the kernel is configured for.                               *)
(*                                                                         *)
(* A step is the code between two points where an interrupt can be taken   *)
(* or the hart changes context.  Lock pairs nested inside such a step with *)
(* interrupts off (pidlock, the console lock, the push_off/pop_off of      *)
(* myproc) restore what they change and are not shown; one that runs with  *)
(* interrupts on is (MyProc), for it leaves them off when noff is not 0.   *)
(* Pids, parent links and the open files are the business of other         *)
(* modules: here kwait may find any zombie to be, or not to be, a child of *)
(* the caller.                                                             *)
(*                                                                         *)
(* A definition whose comment begins "A mutation" is not part of the       *)
(* model: it is the definition after it with a plausible mistake, put      *)
(* there to show which property would notice.                              *)
(***************************************************************************)
EXTENDS Integers, Sequences, Spinlock

CONSTANTS
  NPROC,          \* entries of the process table
  Quantum,        \* timer interrupts between two preemptions
  MaxNest,        \* bound: preempted kernel trap frames on one kernel stack
  EpilogueTicks,  \* may an interrupt hit between w_sepc and w_sstatus
  KallocMayFail   \* may allocproc and uvmcopy run out of pages

ASSUME NPROCAssumption   == NPROC \in Nat \ {0}
ASSUME QuantumAssumption == Quantum \in Nat \ {0}
ASSUME MaxNestAssumption == MaxNest \in Nat
ASSUME FlagAssumption    == EpilogueTicks \in BOOLEAN /\ KallocMayFail \in BOOLEAN

Slots == 0 .. NPROC - 1
None  == -1

Status == {"FREE", "ALLOCATED", "READY", "RUNNING", "ZOMBIE"}

\* Where a process is in the kernel; "user" is U-mode.
Labels == {"user", "syscall", "working", "usertrapret", "forkret",
           "yield", "yield_locked", "yielded", "trapret", "epilogue",
           "exit", "exit_locked", "dead",
           "alloc", "alloc_locked", "fork_locked", "wait", "wait_locked"}

SchedLabels == {"intr_on", "scan", "locked", "swtched"}

VARIABLES
  status,   \* p->status
  locked,   \* p->lock
  cpu,      \* cpus[0]: noff, intena, and the hart's SIE bit
  cpuProc,  \* cpus[0].proc
  ssip,     \* is the timer's software interrupt pending
  times,    \* timer interrupts since the last multiple of Quantum
  sepc,     \* does CSR sepc hold the return address of the innermost frame
  on,       \* whose context the hart executes; None is the scheduler's
  spc,      \* where the scheduler is; "swtched" while a process runs
  scur,     \* the scheduler's p
  pc,       \* where each process is, or will resume
  cur,      \* loop variable of allocproc and kwait
  stack,    \* places where each process was preempted inside the kernel
  crash     \* "no", "panic", or "wild": sret to a wrong address

vars == <<status, locked, cpu, cpuProc, ssip, times, sepc, on, spc, scur,
          pc, cur, stack, crash>>

\* When main() enters scheduler(); interrupts have been on during the boot.
Init ==
  /\ status  = [p \in Slots |-> IF p = 0 THEN "READY" ELSE "FREE"]
  /\ locked  = [p \in Slots |-> FALSE]
  /\ cpu     = CpuBoot
  /\ cpuProc = None
  /\ ssip    = FALSE
  /\ times   \in 0 .. Quantum - 1
  /\ sepc    = "other"
  /\ on      = None
  /\ spc     = "intr_on"
  /\ scur    = 0
  /\ pc      = [p \in Slots |-> IF p = 0 THEN "forkret" ELSE "dead"]
  /\ cur     = [p \in Slots |-> 0]
  /\ stack   = [p \in Slots |-> <<>>]
  /\ crash   = "no"

-------------------------------------------------------------------------
\* Locks.  A hart that meets a lock it holds panics in acquire; on one hart
\* there is nobody else to wait for.

Panic == /\ crash' = "panic"
         /\ UNCHANGED <<status, locked, cpu, cpuProc, ssip, times, sepc, on,
                        spc, scur, pc, cur, stack>>

TakeLock(q) == /\ locked' = [locked EXCEPT ![q] = TRUE]
               /\ cpu' = PushOff(cpu)

DropLock(q) == /\ locked' = [locked EXCEPT ![q] = FALSE]
               /\ cpu' = PopOff(cpu)

CanTake(q) == ~ locked[q]
CanDrop(q) == locked[q] /\ ~ PopOffPanics(cpu)

\* Process p executes the statement at label l.
At(p, l) == crash = "no" /\ on = p /\ pc[p] = l

Goto(p, l) == pc' = [pc EXCEPT ![p] = l]

SchedAt(l) == crash = "no" /\ on = None /\ spc = l

-------------------------------------------------------------------------
\* scheduler()

SchedIntrOn ==
  /\ SchedAt("intr_on")
  /\ cpu'  = IntrOn(cpu)
  /\ spc'  = "scan"
  /\ scur' = 0
  /\ UNCHANGED <<status, locked, cpuProc, ssip, times, sepc, on, pc, cur,
                 stack, crash>>

SchedAcquire ==
  /\ SchedAt("scan")
  /\ CanTake(scur)
  /\ TakeLock(scur)
  /\ spc' = "locked"
  /\ UNCHANGED <<status, cpuProc, ssip, times, sepc, on, scur, pc, cur,
                 stack, crash>>

\* A mutation: the loop of scheduler() runs past the end of the table.
NextSlotPastEnd == /\ spc'  = "scan"
                   /\ scur' = scur + 1

NextSlot == /\ spc'  = IF scur + 1 < NPROC THEN "scan" ELSE "intr_on"
            /\ scur' = IF scur + 1 < NPROC THEN scur + 1 ELSE 0

SchedSkip ==
  /\ SchedAt("locked")
  /\ status[scur] # "READY"
  /\ CanDrop(scur)
  /\ DropLock(scur)
  /\ NextSlot
  /\ UNCHANGED <<status, cpuProc, ssip, times, sepc, on, pc, cur, stack,
                 crash>>

\* A mutation: c->proc = p is forgotten.
SchedDispatchNoProc ==
  /\ SchedAt("locked")
  /\ status[scur] = "READY"
  /\ status'  = [status EXCEPT ![scur] = "RUNNING"]
  /\ on'      = scur
  /\ spc'     = "swtched"
  /\ UNCHANGED <<locked, cpu, cpuProc, ssip, times, sepc, scur, pc, cur,
                 stack, crash>>

SchedDispatch ==
  /\ SchedAt("locked")
  /\ status[scur] = "READY"
  /\ status'  = [status EXCEPT ![scur] = "RUNNING"]
  /\ cpuProc' = scur
  /\ on'      = scur
  /\ spc'     = "swtched"
  /\ UNCHANGED <<locked, cpu, ssip, times, sepc, scur, pc, cur, stack, crash>>

\* A mutation: after a process the scan starts again from the first slot.
SchedResumeRestart ==
  /\ SchedAt("swtched")
  /\ CanDrop(scur)
  /\ cpuProc' = None
  /\ DropLock(scur)
  /\ spc'  = "intr_on"
  /\ scur' = 0
  /\ UNCHANGED <<status, ssip, times, sepc, on, pc, cur, stack, crash>>

\* swtch has returned: the process gave the hart up with its lock held.
SchedResume ==
  /\ SchedAt("swtched")
  /\ CanDrop(scur)
  /\ cpuProc' = None
  /\ DropLock(scur)
  /\ NextSlot
  /\ UNCHANGED <<status, ssip, times, sepc, on, pc, cur, stack, crash>>

SchedPanics ==
  /\ \/ SchedAt("scan") /\ ~ CanTake(scur)
     \/ SchedAt("locked") /\ status[scur] # "READY" /\ ~ CanDrop(scur)
     \/ SchedAt("swtched") /\ ~ CanDrop(scur)
  /\ Panic

Scheduler == SchedIntrOn \/ SchedAcquire \/ SchedSkip \/ SchedDispatch
             \/ SchedResume

-------------------------------------------------------------------------
\* Entering and leaving the kernel

\* ecall: uservec, usertrap up to its intr_on, whatever noff is.
Ecall(p) ==
  /\ At(p, "user")
  /\ cpu' = IntrOn(cpu)
  /\ sepc' = "other"
  /\ Goto(p, "syscall")
  /\ UNCHANGED <<status, locked, cpuProc, ssip, times, on, spc, scur, cur,
                 stack, crash>>

\* syscall() calls myproc() and then the handler; "working" is the body of one
\* that takes no lock of the process table (getpid, exec, read, write, pipe,
\* print0), "usertrapret" an unknown number.
Syscall(p) ==
  /\ At(p, "syscall")
  /\ cpu' = MyProc(cpu)
  /\ \E l \in {"working", "usertrapret", "yield", "exit", "alloc", "wait"} :
       Goto(p, l)
  /\ UNCHANGED <<status, locked, cpuProc, ssip, times, sepc, on, spc, scur,
                 cur, stack, crash>>

\* Such a body calls myproc, and takes and releases cons.lock, any number of
\* times; console_read and piperead may poll for ever.
Body(p) ==
  /\ At(p, "working")
  /\ cpu' = MyProc(cpu)
  /\ \E l \in {"working", "usertrapret"} : Goto(p, l)
  /\ UNCHANGED <<status, locked, cpuProc, ssip, times, sepc, on, spc, scur,
                 cur, stack, crash>>

\* A mutation: a new process keeps the scheduler's lock.
ForkRetNoRelease(p) ==
  /\ At(p, "forkret")
  /\ Goto(p, "usertrapret")
  /\ UNCHANGED <<status, locked, cpu, cpuProc, ssip, times, sepc, on, spc,
                 scur, cur, stack, crash>>

\* The first resumption of a process: it inherits the scheduler's lock.
ForkRet(p) ==
  /\ At(p, "forkret")
  /\ CanDrop(p)
  /\ DropLock(p)
  /\ Goto(p, "usertrapret")
  /\ UNCHANGED <<status, cpuProc, ssip, times, sepc, on, spc, scur, cur,
                 stack, crash>>

\* intr_off ... sret with SPIE set: interrupts are on in U-mode.
UserTrapRet(p) ==
  /\ At(p, "usertrapret")
  /\ cpu'  = IntrOn(IntrOff(cpu))
  /\ sepc' = "other"
  /\ Goto(p, "user")
  /\ UNCHANGED <<status, locked, cpuProc, ssip, times, on, spc, scur, cur,
                 stack, crash>>

-------------------------------------------------------------------------
\* yield()

YieldAcquire(p) ==
  /\ At(p, "yield")
  /\ CanTake(p)
  /\ TakeLock(p)
  /\ Goto(p, "yield_locked")
  /\ UNCHANGED <<status, cpuProc, ssip, times, sepc, on, spc, scur, cur,
                 stack, crash>>

YieldSwtch(p) ==
  /\ At(p, "yield_locked")
  /\ status' = [status EXCEPT ![p] = "READY"]
  /\ on' = None
  /\ Goto(p, "yielded")
  /\ UNCHANGED <<locked, cpu, cpuProc, ssip, times, sepc, spc, scur, cur,
                 stack, crash>>

\* yield returns to sys_yield or to usertrap's interrupt branch, which both
\* lead to usertrapret, or to sys_trap_handler when the kernel was preempted.
YieldRelease(p) ==
  /\ At(p, "yielded")
  /\ CanDrop(p)
  /\ DropLock(p)
  /\ Goto(p, IF stack[p] = <<>> THEN "usertrapret" ELSE "trapret")
  /\ UNCHANGED <<status, cpuProc, ssip, times, sepc, on, spc, scur, cur,
                 stack, crash>>

-------------------------------------------------------------------------
\* The end of sys_trap_handler for a preempted process

\* A mutation: w_sepc(sepc) is missing.
TrapRetNoSepc(p) ==
  /\ At(p, "trapret")
  /\ Goto(p, "epilogue")
  /\ UNCHANGED <<status, locked, cpu, cpuProc, ssip, times, sepc, on, spc,
                 scur, cur, stack, crash>>

TrapRetSepc(p) ==
  /\ At(p, "trapret")
  /\ sepc' = "return"
  /\ Goto(p, "epilogue")
  /\ UNCHANGED <<status, locked, cpu, cpuProc, ssip, times, on, spc, scur,
                 cur, stack, crash>>

\* w_sstatus (interrupts off again) and sret in sys_trap_vector, to where
\* interrupts were on: only there can an interrupt have been taken.
TrapSret(p) ==
  /\ At(p, "epilogue")
  /\ sepc = "return"
  /\ cpu'   = IntrOn(IntrOff(cpu))
  /\ sepc'  = "other"
  /\ Goto(p, stack[p][Len(stack[p])])
  /\ stack' = [stack EXCEPT ![p] = SubSeq(stack[p], 1, Len(stack[p]) - 1)]
  /\ UNCHANGED <<status, locked, cpuProc, ssip, times, on, spc, scur, cur,
                 crash>>

TrapSretWild(p) ==
  /\ At(p, "epilogue")
  /\ sepc # "return"
  /\ crash' = "wild"
  /\ UNCHANGED <<status, locked, cpu, cpuProc, ssip, times, sepc, on, spc,
                 scur, pc, cur, stack>>

-------------------------------------------------------------------------
\* sys_exit()

ExitAcquire(p) ==
  /\ At(p, "exit")
  /\ CanTake(p)
  /\ TakeLock(p)
  /\ Goto(p, "exit_locked")
  /\ UNCHANGED <<status, cpuProc, ssip, times, sepc, on, spc, scur, cur,
                 stack, crash>>

ExitSwtch(p) ==
  /\ At(p, "exit_locked")
  /\ status' = [status EXCEPT ![p] = "ZOMBIE"]
  /\ on' = None
  /\ Goto(p, "dead")
  /\ UNCHANGED <<locked, cpu, cpuProc, ssip, times, sepc, spc, scur, cur,
                 stack, crash>>

-------------------------------------------------------------------------
\* kfork() and allocproc().  cur[p] is the slot under consideration.

AllocAcquire(p) ==
  /\ At(p, "alloc")
  /\ CanTake(cur[p])
  /\ TakeLock(cur[p])
  /\ Goto(p, "alloc_locked")
  /\ UNCHANGED <<status, cpuProc, ssip, times, sepc, on, spc, scur, cur,
                 stack, crash>>

\* Leave the scan of a syscall and return to the user.
Leave(p) == /\ Goto(p, "usertrapret")
            /\ cur' = [cur EXCEPT ![p] = 0]

\* The slot is in use; past the last one the table is full and fork fails.
AllocSkip(p) ==
  /\ At(p, "alloc_locked")
  /\ status[cur[p]] # "FREE"
  /\ CanDrop(cur[p])
  /\ DropLock(cur[p])
  /\ IF cur[p] + 1 < NPROC
     THEN /\ Goto(p, "alloc")
          /\ cur' = [cur EXCEPT ![p] = cur[p] + 1]
     ELSE Leave(p)
  /\ UNCHANGED <<status, cpuProc, ssip, times, sepc, on, spc, scur, stack,
                 crash>>

\* A mutation: a slot whose process has exited counts as free.
AllocFoundZombie(p) ==
  /\ At(p, "alloc_locked")
  /\ status[cur[p]] \in {"FREE", "ZOMBIE"}
  /\ status' = [status EXCEPT ![cur[p]] = "ALLOCATED"]
  /\ pc' = [pc EXCEPT ![p] = "fork_locked", ![cur[p]] = "forkret"]
  /\ UNCHANGED <<locked, cpu, cpuProc, ssip, times, sepc, on, spc, scur, cur,
                 stack, crash>>

\* A mutation: context.ra is left as the slot's last process had it.
AllocFoundNoContext(p) ==
  /\ At(p, "alloc_locked")
  /\ status[cur[p]] = "FREE"
  /\ status' = [status EXCEPT ![cur[p]] = "ALLOCATED"]
  /\ Goto(p, "fork_locked")
  /\ UNCHANGED <<locked, cpu, cpuProc, ssip, times, sepc, on, spc, scur, cur,
                 stack, crash>>

AllocFound(p) ==
  /\ At(p, "alloc_locked")
  /\ status[cur[p]] = "FREE"
  /\ status' = [status EXCEPT ![cur[p]] = "ALLOCATED"]
  /\ pc' = [pc EXCEPT ![p] = "fork_locked", ![cur[p]] = "forkret"]
  /\ UNCHANGED <<locked, cpu, cpuProc, ssip, times, sepc, on, spc, scur, cur,
                 stack, crash>>

\* No page for the trapframe, or for one of the mappings: the slot stays
\* FREE and its lock is released.
AllocNoPage(p) ==
  /\ KallocMayFail
  /\ At(p, "alloc_locked")
  /\ status[cur[p]] = "FREE"
  /\ CanDrop(cur[p])
  /\ DropLock(cur[p])
  /\ Leave(p)
  /\ UNCHANGED <<status, cpuProc, ssip, times, sepc, on, spc, scur, stack,
                 crash>>

\* uvmcreate fails: allocproc returns without releasing the slot's lock.
AllocNoTable(p) ==
  /\ KallocMayFail
  /\ At(p, "alloc_locked")
  /\ status[cur[p]] = "FREE"
  /\ Leave(p)
  /\ UNCHANGED <<status, locked, cpu, cpuProc, ssip, times, sepc, on, spc,
                 scur, stack, crash>>

ForkReady(p) ==
  /\ At(p, "fork_locked")
  /\ CanDrop(cur[p])
  /\ status' = [status EXCEPT ![cur[p]] = "READY"]
  /\ DropLock(cur[p])
  /\ Leave(p)
  /\ UNCHANGED <<cpuProc, ssip, times, sepc, on, spc, scur, stack, crash>>

\* uvmcopy fails: the lock is released, the slot stays ALLOCATED.
ForkCopyFails(p) ==
  /\ KallocMayFail
  /\ At(p, "fork_locked")
  /\ CanDrop(cur[p])
  /\ DropLock(cur[p])
  /\ Leave(p)
  /\ UNCHANGED <<status, cpuProc, ssip, times, sepc, on, spc, scur, stack,
                 crash>>

-------------------------------------------------------------------------
\* kwait()

WaitAcquire(p) ==
  /\ At(p, "wait")
  /\ CanTake(cur[p])
  /\ TakeLock(cur[p])
  /\ Goto(p, "wait_locked")
  /\ UNCHANGED <<status, cpuProc, ssip, times, sepc, on, spc, scur, cur,
                 stack, crash>>

\* A mutation: any slot that is not executing is reaped.
WaitReapAny(p) ==
  /\ At(p, "wait_locked")
  /\ status[cur[p]] \in {"ZOMBIE", "READY"}
  /\ CanDrop(cur[p])
  /\ status' = [status EXCEPT ![cur[p]] = "FREE"]
  /\ DropLock(cur[p])
  /\ Leave(p)
  /\ UNCHANGED <<cpuProc, ssip, times, sepc, on, spc, scur, stack, crash>>

\* freeproc on a zombie child.
WaitReap(p) ==
  /\ At(p, "wait_locked")
  /\ status[cur[p]] = "ZOMBIE"
  /\ CanDrop(cur[p])
  /\ status' = [status EXCEPT ![cur[p]] = "FREE"]
  /\ DropLock(cur[p])
  /\ Leave(p)
  /\ UNCHANGED <<cpuProc, ssip, times, sepc, on, spc, scur, stack, crash>>

\* Not a zombie child: go on; after the last slot start again, or return -1
\* if no slot held a child.
WaitSkip(p) ==
  /\ At(p, "wait_locked")
  /\ CanDrop(cur[p])
  /\ DropLock(cur[p])
  /\ \/ /\ cur[p] + 1 < NPROC
        /\ Goto(p, "wait")
        /\ cur' = [cur EXCEPT ![p] = cur[p] + 1]
     \/ /\ cur[p] + 1 = NPROC
        /\ Goto(p, "wait")
        /\ cur' = [cur EXCEPT ![p] = 0]
     \/ /\ cur[p] + 1 = NPROC
        /\ Leave(p)
  /\ UNCHANGED <<status, cpuProc, ssip, times, sepc, on, spc, scur, stack,
                 crash>>

-------------------------------------------------------------------------
\* The lock operations of a process that end in a panic.
ProcPanics(p) ==
  /\ \/ (At(p, "yield") \/ At(p, "exit")) /\ ~ CanTake(p)
     \/ (At(p, "forkret") \/ At(p, "yielded")) /\ ~ CanDrop(p)
     \/ (At(p, "alloc") \/ At(p, "wait")) /\ ~ CanTake(cur[p])
     \/ /\ At(p, "alloc_locked") \/ At(p, "fork_locked")
           \/ At(p, "wait_locked")
        /\ ~ CanDrop(cur[p])
  /\ Panic

-------------------------------------------------------------------------
\* Interrupts

\* timervec, in M-mode, whatever the kernel does.
TimerFires ==
  /\ crash = "no"
  /\ ~ ssip
  /\ ssip' = TRUE
  /\ UNCHANGED <<status, locked, cpu, cpuProc, times, sepc, on, spc, scur,
                 pc, cur, stack, crash>>

AtEpilogue == on # None /\ pc[on] = "epilogue"

CanInterrupt == /\ crash = "no"
                /\ cpu.sie
                /\ EpilogueTicks \/ ~ AtEpilogue

\* handle_timer_interrupt takes the yield branch.
Preempts == /\ times + 1 = Quantum
            /\ cpuProc # None
            /\ status[cpuProc] = "RUNNING"

\* The timer interrupt returns to what it interrupted.
TickQuiet ==
  /\ CanInterrupt
  /\ ssip
  /\ ~ Preempts
  /\ ssip'  = FALSE
  /\ times' = IF times + 1 = Quantum THEN 0 ELSE times + 1
  /\ sepc'  = "other"
  /\ UNCHANGED <<status, locked, cpu, cpuProc, on, spc, scur, pc, cur, stack,
                 crash>>

\* The timer interrupt calls yield, from usertrap or from sys_trap_handler
\* above the interrupted kernel code.  Trap entry switches interrupts off.
TickYield(p) ==
  /\ CanInterrupt
  /\ on = p
  /\ ssip
  /\ Preempts
  /\ ssip'  = FALSE
  /\ times' = 0
  /\ sepc'  = "other"
  /\ cpu'   = IntrOff(cpu)
  /\ \/ /\ pc[p] = "user"
        /\ UNCHANGED stack
     \/ /\ pc[p] # "user"
        /\ Len(stack[p]) < MaxNest
        /\ stack' = [stack EXCEPT ![p] = Append(stack[p], pc[p])]
  /\ Goto(p, "yield")
  /\ UNCHANGED <<status, locked, cpuProc, on, spc, scur, cur, crash>>

\* A UART interrupt: console_intr runs and the handler returns.
DeviceIntr ==
  /\ CanInterrupt
  /\ sepc' = "other"
  /\ UNCHANGED <<status, locked, cpu, cpuProc, ssip, times, on, spc, scur,
                 pc, cur, stack, crash>>

-------------------------------------------------------------------------
\* A panic is an endless loop with interrupts off; after a wild sret nothing
\* is said of the machine.
Halt == crash # "no" /\ UNCHANGED vars

\* What the kernel does on behalf of p without waiting for user code.
Kernel(p) ==
  \/ Syscall(p) \/ ForkRet(p) \/ UserTrapRet(p)
  \/ YieldAcquire(p) \/ YieldSwtch(p) \/ YieldRelease(p)
  \/ TrapRetSepc(p) \/ TrapSret(p)
  \/ ExitAcquire(p) \/ ExitSwtch(p)
  \/ AllocAcquire(p) \/ AllocSkip(p) \/ AllocFound(p)
  \/ AllocNoPage(p) \/ AllocNoTable(p)
  \/ ForkReady(p) \/ ForkCopyFails(p)
  \/ WaitAcquire(p) \/ WaitReap(p) \/ WaitSkip(p)

Next ==
  \/ Scheduler
  \/ SchedPanics
  \/ \E p \in Slots : \/ Ecall(p)
                      \/ Body(p)
                      \/ Kernel(p)
                      \/ TrapSretWild(p)
                      \/ ProcPanics(p)
                      \/ TickYield(p)
  \/ TimerFires
  \/ TickQuiet
  \/ DeviceIntr
  \/ Halt

Spec == Init /\ [][Next]_vars

\* The hart keeps executing kernel code, into a panic or a wild sret if need
\* be; the timer keeps firing; a pending interrupt is taken when interrupts
\* are enabled again and again.  User code owes nothing, nor does the body of a
\* system call that may wait for a device or for another process (Body).
Fairness ==
  /\ WF_vars(Scheduler \/ SchedPanics)
  /\ \A p \in Slots : WF_vars(Kernel(p) \/ TrapSretWild(p) \/ ProcPanics(p))
  /\ WF_vars(TimerFires)
  /\ SF_vars(TickQuiet \/ \E p \in Slots : TickYield(p))

FairSpec == Spec /\ Fairness

-------------------------------------------------------------------------
\* The promise of AbsSched, with a slot under construction still FREE.
Task == [p \in Slots |-> IF status[p] = "ALLOCATED" THEN "FREE" ELSE status[p]]

Abs == INSTANCE AbsSched WITH Proc <- Slots, Root <- 0, task <- Task

\* The kernel implements AbsSched: one process at a time is RUNNING, it alone
\* forks, exits and reaps, and no other change of a task's state happens.
ImplementsAbsSched == Abs!AbsSpec

TypeOK ==
  /\ status  \in [Slots -> Status]
  /\ locked  \in [Slots -> BOOLEAN]
  /\ cpu     \in CpuState
  /\ cpuProc \in Slots \cup {None}
  /\ ssip    \in BOOLEAN
  /\ times   \in 0 .. Quantum - 1
  /\ sepc    \in {"return", "other"}
  /\ on      \in Slots \cup {None}
  /\ spc     \in SchedLabels
  /\ scur    \in Slots
  /\ pc      \in [Slots -> Labels]
  /\ cur     \in [Slots -> Slots]
  /\ stack   \in [Slots -> Seq(Labels)]
  /\ crash   \in {"no", "panic", "wild"}

\* No lock operation of this code panics: nothing acquires a lock it holds,
\* releases one it does not hold, or reaches pop_off with interrupts on.
\* Locks are handed over by swtch, so no function shows this on its own.
NoPanic == crash # "panic"

\* Interrupts are off whenever the lock of a process is held: a timer
\* interrupt there would call yield and take a lock again.
InterruptsOffUnderLock == (\E q \in Slots : locked[q]) => ~ cpu.sie

\* At most one process is RUNNING, and it is the one that cpus[0].proc names
\* and whose context the hart executes (or is switching to or from).
OneRunning ==
  \A p \in Slots : status[p] = "RUNNING" => cpuProc = p /\ on = p

\* A process that is READY can be resumed: its saved context is in yield or
\* at forkret, where the code will release the lock the scheduler hands over.
ReadyHasContext ==
  \A p \in Slots : status[p] = "READY" => pc[p] \in {"yielded", "forkret"}

FreedOffCpu ==
  \A q \in Slots :
    status[q] = "ZOMBIE" /\ status'[q] # "ZOMBIE"
      => /\ status'[q] = "FREE"
         /\ on \notin {q, None} /\ cpuProc # q /\ scur # q

\* kwait frees a slot (page table, trapframe and kernel stack) only when its
\* process is not executing and never will: it is not the hart's context, nor
\* the process whose lock the scheduler is still to release.
FreedOnlyOffCpu == [][FreedOffCpu]_vars

\* The sret that ends sys_trap_handler returns to the interrupted instruction.
SretReturns == crash # "wild"

\* Where a system call runs outside the critical sections of this module.
Open == {"syscall", "working", "exit", "alloc", "wait"}

\* A system call runs with interrupts on outside its critical sections: what
\* the comment before intr_on in usertrap wants, since it may wait for a
\* device.  Each release has to restore what its acquire saved, whatever was
\* preempted and whichever contexts the hart went through meanwhile.
SystemCallsInterruptible == on # None /\ pc[on] \in Open => cpu.sie

\* The hart executes the body of a system call with interrupts off.
Deaf == on # None /\ pc[on] = "working" /\ ~ cpu.sie

\* Every READY process is eventually dispatched, unless the kernel panics,
\* returns from a trap to a wrong address, or polls for ever with interrupts
\* off in a system call: the lock that a failing fork leaks allows that.
ReadyRuns ==
  \A p \in Slots :
    status[p] = "READY" ~> \/ status[p] = "RUNNING"
                           \/ crash # "no"
                           \/ []Deaf

=========================================================================
