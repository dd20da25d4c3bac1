# TLA+ model of whu-riscv-os

A verification project for the teaching kernel in `src/`: a single-hart RISC-V
kernel in the style of xv6, with preemptive scheduling, fork/exec/wait, a page
allocator, a console and pipes. This directory holds TLA+ modules translated
from the C and assembly sources, TLC configurations that check them on small
instances, and theorems about them that TLAPS checks for every instance. Paths
below are relative to the repository; `trap.c:136` means
`src/kernel/trap/trap.c`, line 136.

```
tlc -config Sched_live.cfg Sched    # one run; PROJECT.json lists them all
tlapm SchedProofs.tla               # one module of proofs
```

## 1. The system

### Components, their state and operations

| component (source) | state | operations | modelled by |
|---|---|---|---|
| interrupt nesting, spinlocks (`proc/spinlock.c`) | `lock.locked`, `cpu.noff`, `cpu.intena`, `sstatus.SIE` | acquire, release, push_off, pop_off | `Spinlock` (operators), `Sched` |
| scheduler, context switch (`proc/proc.c`, `swtch.S`) | `proc[].status`, `cpus[0].proc`, saved contexts | scheduler, yield, forkret, swtch | `Sched`, `SchedBypass` |
| process system calls (`proc/proc.c`, `syscall/sysproc.c`) | `status`, `pid`, `parent`, `nextpid` | kfork, allocproc, sys_exit, kwait, freeproc | `Sched` (locking), `Proc` (pids, parents, results), `Files` (descriptors) |
| traps, timer (`trap/*`) | `sepc`, `sstatus`, pending software interrupt, `times` | usertrap, usertrapret, sys_trap_handler, timervec, handle_timer_interrupt, handle_plic_interrupt | `Sched` |
| page allocator (`mm/kalloc.c`) | `free_mem_list`, first word of free pages | kinit, kalloc, kfree | `KAlloc` |
| console input (`driver/console.c`, `uart.c`) | `cons.r/w/e`, `cons.buf` | console_intr, console_read | `Console` |
| pipes (`fs/pipe.c`) | `nread`, `nwrite`, `data` | pipewrite, piperead | `Pipe` |
| open files (`fs/file.c`, `syscall/sysfile.c`) | `ftable`, `ofile[]` | filealloc, filedup, fileclose, fdalloc, pipealloc, sys_pipe, the dispatch of fileread and filewrite | `Files` |
| page tables, exec (`mm/vm.c`, `mm/uvm.c`, `proc/proc.c`, `sys_exec`) | `pagetable`, `trapframe`, kernel stacks, the trees of tables | walk, mappages, uvmcopy, uvmunmap, freewalk, allocproc, freeproc, kexec, sys_exec | `VM` |
| copies to and from user memory, exec's arguments (`mm/vm.c`, `sys_exec`, `kexec`) | none | walkaddr, copyin, copyout, copyinstr; the strings and the stack of exec | `UserMem` |
| console output (`driver/console.c`) | none | printf, printint | `Format` |
| system call dispatch (`syscall/syscall.c`) | trapframe registers | syscall, argint, argaddr | a choice in `Sched` |
| buffer cache, file system (`fs/bio.c`, `fs/fs.c`) | | | no: in no build, called by nothing |
| boot (`boot/*`), user programs, libc | | | initial states; environment |

### How they interact

Everything runs on one hart (`NCPU` is 1), so the only concurrency is
preemption. The timer fires in M-mode (`timervec.S`) and raises a supervisor
software interrupt; when that is taken, in user code or anywhere in the kernel
with `SIE` set, the handler counts a tick and, once a quantum is over and a
process is RUNNING, calls `yield` **on the kernel stack of the interrupted
code**. System calls run with interrupts on (`usertrap` calls `intr_on`), so
kernel code outside a critical section can be interrupted at any instruction and
the hart given to any other process, nested as deep as the stack allows.

Critical sections are protected by masking interrupts (`push_off`), counted per
hart. So `push_off` and `pop_off` around a read of `c->proc` (`myproc`) restore
`SIE` only while `noff` is otherwise 0: once a lock is leaked, the first `myproc`
after `intr_on` turns interrupts off, and nothing turns them on again before the
return to the user. The lock of a process is taken by the scheduler and released by
the process (in `forkret` or after `swtch` in `yield`), and conversely: no function
holds both halves, so lock discipline is a property of the whole system, not of any
function. kfork holds the child's lock while it builds it; kwait and allocproc scan
the table one lock at a time. `pidlock` and `cons.lock` nest inside. `ftable`, pipes
and the page allocator have no lock at all.

### What is hard here

* a lock acquired in one context and released in another; `noff`/`intena` that
  belong to the hart while the section they describe moves between contexts;
* preemption inside the kernel and the return path of the trap handler, which
  runs with interrupts on again after `yield`;
* reuse of slots: contexts, parent pointers, kernel stacks and open files of the
  process that had the slot before;
* running out of pages half-way through fork;
* unlocked data shared between preemptible processes: the free list, a pipe, the
  file table;
* counters that wrap, and copies that wrap around a ring;
* liveness by polling: `kwait`, `console_read` and `piperead` spin and rely on
  the timer.

The `hazards` of PROJECT.json list these at their lines, with the properties that
would notice.

### What makes each component correct

* **Locks**: no acquire of a held lock, no release of one not held, no `pop_off`
  with interrupts on (`NoPanic`); interrupts are off under every process lock
  (`InterruptsOffUnderLock`) and on in every system call outside its critical
  sections (`SystemCallsInterruptible`), since it may have to wait for a device.
* **Scheduler**: one RUNNING process and it is the one the hart executes
  (`OneRunning`); a READY process has a context that will release the lock it is
  handed (`ReadyHasContext`); round robin (`BoundedBypass`); no starvation
  (`ReadyRuns`); the whole implements `AbsSched`.
* **Traps**: a preempted path is resumed where it was (`SretReturns`, which does
  not hold: `sched_sepc`).
* **Processes**: pids stay unique, a slot is not freed under its process
  (`FreedOnlyOffCpu`), parents stay (`ParentStays`, `ZombieHasParent`), wait
  returns (`WaitReturns`) and the user sees a tree of processes (`AbsProc`).
* **Open files**: nobody is given a file that somebody can reach (`RefCovers`), a
  pipe's ends go to two descriptors or to none, and what a descriptor stands for is
  the business of its process alone (`AbsFiles`).
* **Page allocator**: the list is exactly the free pages (`ListIsFreePages`), no
  page has two users (`OneOwner`), and it is a pool (`AbsPages`).
* **Page tables**: every page is free or has one owner (`OneOwner`), trees are torn
  down in an order that panics nowhere (`NeverFaults`), no path but a failed fork
  loses pages (`OnlyFailedForksLose`), and a program's memory is its own
  (`AbsImages`).
* **Copies, exec's arguments**: exactly the bytes asked for, or a refusal
  (`CopiesAgree`); a new program finds the strings it was given although `sp` may
  wrap around on the way (`ExecArgsArrive`).
* **Console output**: each conversion prints its own argument, in full unless it
  is an address that an int does not hold (`PrintsValue`).
* **Console, pipe**: ring buffers that are queues (`AbsConsole`, `AbsPipe`),
  indices that survive wrapping (`IndicesAgree`, `EndsApart`), readers that get
  what is there (`ReadersDrain`, `ReaderReturns`).

## 2. The modules

```
Spinlock <- Sched <- SchedBypass <- SchedProofs           AbsSched  (refined by Sched)
Proc    <- Files <- FilesProofs                           AbsProc   (refined by Proc)
        <- ProcProofs <-'                                 AbsFiles  (refined by Files)
KAlloc  <- KAllocProofs                                   AbsPages  (refined by KAlloc)
VM      <- MCVM <- VMProofs                               AbsImages (refined by VM)
UserMem <-'
Console <- MCConsole <- ConsoleProofs                     AbsConsole
Format  <-'
Pipe    <- PipeProofs                                     AbsPipe
DataLemmas <- ConsoleProofs, PipeProofs, VMProofs
Loops      <- UserMem, Format, DataLemmas
```

The components meet at stated interfaces instead of in one product, which would
have no more behaviours of interest and far more states: `Sched` gives the others
what they assume of preemption (any READY process runs again; a section under a
lock is not interrupted) and takes from `Proc` that kwait may find any zombie to
be its child or not; `Proc` treats each critical section as one step because
`InterruptsOffUnderLock` says nothing interrupts it; `KAlloc`, `Console` and
`Pipe` cut their steps where an interrupt can hit, and rely on `ReadyRuns` for
fairness; `VM` takes the allocator to be the pool `AbsPages` that `KAlloc` is
while one process at a time is inside. `Files` is composed with `Proc` itself, since
files travel with processes: its steps are those of `Proc` together with what they
do to the tables of files, and steps of its own that leave processes alone.

In every module a definition whose comment begins *A mutation* is not part of the
model: it is the definition next to it with a plausible mistake, used to confirm
that a property notices.

### Sched

A step is the code between two points where an interrupt can be taken or the hart
changes context. `on` is whose context the hart executes, `pc[p]` where a process
is or will resume, `stack[p]` the places where it was preempted inside the kernel
(one frame per nested timer interrupt), `cpu` the record `[noff, intena, sie]` of
`Spinlock`, `spc` and `scur` the scheduler's place and loop variable.

* `SchedIntrOn` .. `SchedResume`: the loop of `scheduler()`. `SchedDispatch` ends
  in `swtch`; `SchedResume` is the code after it, with the lock the process took.
* `Ecall`, `Syscall`, `UserTrapRet`, `ForkRet`: entering and leaving the kernel.
  `Ecall` ends in usertrap's `intr_on`, whatever `noff` is. `Syscall` is the
  `myproc()` of syscall() (`MyProc`: `push_off`, `pop_off`), which leaves interrupts
  off when a lock has been leaked, and chooses a handler. One that touches no process
  lock is at "working", and each `Body` is some more of it: it may stay as long as it
  likes, since console and pipe reads may wait, and interrupts are then as `MyProc`
  left them.
* `YieldAcquire/Swtch/Release`, `ExitAcquire/Swtch`.
* `Alloc*`, `Fork*`, `Wait*`: the locking skeletons of allocproc, kfork and kwait,
  with `cur[p]` their loop variable and every failure path (`AllocNoPage`,
  `AllocNoTable`, `ForkCopyFails`).
* `TimerFires`, `TickQuiet`, `TickYield`, `DeviceIntr`: interrupts. Enabled only
  when `cpu.sie`. `TickYield` pushes a frame when it hits kernel code.
* `TrapRetSepc`, `TrapSret`, `TrapSretWild`: the end of sys_trap_handler, one
  step for `w_sepc` and one for `w_sstatus` and `sret`, because interrupts are on
  between them.
* `SchedPanics`, `ProcPanics`: each lock operation whose panic condition holds;
  the hart stops (`Halt`).

Lock pairs nested inside a step with interrupts already off (`pidlock`,
`cons.lock`, a `myproc` under a lock) restore what they change and are not shown.
`times` starts again at zero when a quantum is over; how many ticks there were
before the first dispatch is arbitrary, hence the choice in `Init`.

### Proc

The same system calls at the level of the table: one step per critical section,
READY and RUNNING merged as `LIVE`. `ret[p]` records the last result, so that the
refinement to `AbsProc`, in which processes are named by pids and slots do not
exist, speaks of what programs see. `ReapBeforeExit` restricts programs to those
that wait for their children before they exit, as `sh.c` and `fork_test.c` do.
`ParentStays` and the tree of `AbsProc` are promises to such programs only: see
`proc_orphans`.

`leaked` is the set of slots whose lock a fork kept when uvmcreate found no page
(`ForkNoTable`; the other failures of allocproc, `ForkNoPage`, release it). Nobody
gets such a lock again (`Locks`): the scheduler, or a fork or wait that comes to it,
panics, or the caller polls with interrupts off. All of that is `Stop`, at any
moment after the leak and never instead of another process's step; which of them
it is, and when, is for `Sched`.

### Files

`Proc` with `ftable` and `ofile` (descriptors are slots' and not processes': they
outlive a process in its slot). `ForkFiles` is what allocproc (two console files
out of `ftable`, unchecked: `ForkDies`) and the loop of kfork do to the tables;
`LostForkFiles` what a fork leaves behind that fails in uvmcopy. sys_pipe runs with
interrupts on, so filealloc's test of `ref` (`PipeCall`, `PipeSecond`) and its store
(`PipeTake`) are two steps; the rest touches the caller's descriptors and two files
nobody else has, and is one (`PipeOpen`, or `PipeBad` when there are not two free
descriptors or copyout fails). `fileclose` is empty: nothing lowers a `ref`, and
exit and wait do nothing to files. `ReadFrom` and `WriteTo` are the dispatch of
fileread and filewrite; what they reach is `Pipe` or `Console`. `Serial` restricts
programs to those that call pipe while no other pipe or fork is under way. Without
it the two steps of filealloc interleave and one file is handed to two processes:
with `Serial = FALSE` the run violates `RefCovers` and `ImplementsAbsFiles`.

`AbsFiles` knows neither files nor counts: a read or a write on a descriptor goes
somewhere, fork copies that for what the parent has open, pipe opens the two lowest
closed descriptors on a fresh pipe. A slot keeps what its last process had open
wherever the parent has nothing: a child can so read a pipe of a process that is
gone and not its ancestor. The model has it as the code does.

### KAlloc

One step per load and store of the free list: kalloc loads the head (`KallocRead`)
and `r->next` (`KallocNext`) and stores the head (`KallocUnlink`); kfree loads the
head (`KfreeHead`), stores `r->next` (`KfreeLink`) and the head (`KfreePush`).
`loaded` is what a process has loaded and not yet stored. `masked` is the process
that executes with interrupts off: kfork and kwait call the allocator under a lock,
kexec, sys_exec and sys_pipe do not. Owners write what they like into the first word
of their pages (`Write`), and pages change hands in fork and wait (`Move`).
`Overlap` says whether a process may enter the allocator while another is inside.

### VM

`mem` is the memory: the free pages, the entries of the pages that are tables, and
what the others hold. The operators `Kalloc`, `Walk`, `MapPage`, `Unmap`, `Freewalk`
are the functions of kalloc.c, vm.c and uvm.c on it; of 512 entries the three that
lead to an image, to TRAMPOLINE and to TRAPFRAME are kept. `AllocProc` and `Uvmcopy`
chain them as allocproc and kfork do, and stop at the first failure with what was
taken so far. What allocproc does once it has a slot, with uvmcopy, and freeproc run
under that slot's lock, with interrupts off: `Fork` and `Wait` are one step each.
The scan that leads to the slot is part of the step, as if nothing could happen
between one lock of it and the next; `Proc` has it slot by slot, and here it only
decides which slot it is. `MapKstack` has the "remap" panic of mappages: `kstack` of
a slot is what the kernel's table maps at its address, and a fork that finds
something there is a fault. sys_exec and kexec take a step per change (`Exec*`),
with `argbuf` and `newimage` the pages that only their locals know. `mem.fault`
records a panic, and also a free of a free page, which the code would not notice.
`AcquirePanics` is the end of the hart after a fork that leaked a lock: it may come
at any later moment, or later than in the code, never instead of another step. The
pages of a slot that a failed fork left ALLOCATED for good count as owned by it:
that the slot and its pages are gone is not a violation of anything here, though
`OnlyFailedForksLose` names forks as the only place where it can happen. The shell
forks before it execs and never exits, as in `sh.c`.

### UserMem and Format

Pure functions as operators. A loop is a round, which does to the variables of the
loop what its body does, and nothing once the loop has ended, taken as often as the
loop can need (`Rounds` in `Loops`): a form that TLC evaluates and that can be
reasoned about by induction. In `UserMem`, memory is page table entries and bytes,
addresses are words that wrap, and a pointer takes `PTRSIZE` bytes: `CopyIn`,
`CopyOut` and `CopyInStr` go page by page as vm.c does, `CollectArgs` is the loop of
sys_exec, `PushArg` and `PushPointers` the rest of kexec. `Format` is printf's scan
of its format (`FormatRound`) and printint's loop of digits, with ints that wrap at
`IntMod`. `MCVM` and `MCConsole` give them inputs: a call is an initial state of its
own beside those of `VM` and `Console`, and the references of `CopiesAgree`,
`ExecArgsArrive` and `PrintsValue` are written byte by byte and digit by digit,
without pages, without chunks and in unbounded integers. For `%p` the reference is
the numeral of the whole `unsigned long`, which is what the comments of console.c
speak of (lines 59, 114, 162); `Fits` says which addresses printint's `int` holds,
and `PrintsValue` that the output is the reference if and only if every address
fits.

### Console

console_intr and the body of the loop of console_read hold `cons.lock` with
interrupts off, so each is a step. Indices are words modulo `WordMod`, a multiple
of the buffer size as 2^32 is of 128. A reader that finds nothing tries again,
which changes nothing and is no action.

### Pipe

pipewrite and piperead without any lock: the check for room, each copy of a chunk,
each advance of a counter is a step of its own, and the other end may run in
between. Either buffer may be only partly mapped, so that copyin or copyout fails
on any chunk. `src`, `written`, `dst`, `readn` are the locals. One process at each
end.

## 3. What the runs check

| run | question | bounds |
|---|---|---|
| `sched_safety` (SchedBypass) | With every interleaving of the timer, and the trap epilogue closed to interrupts: is lock discipline kept, is no slot freed under its process, is scheduling a round robin, do system calls take interrupts outside their critical sections? | 3 slots, a tick may always preempt, 2 nested frames |
| `sched_live` (Sched) | What survives when fork runs out of pages, the leaked lock included, and when an interrupt hits the epilogue? Does the kernel implement `AbsSched`, does every READY process get the hart, unless the kernel stops? | 3 slots, quantum 2, 1 frame |
| `sched_lockleak` (Sched) | *violation*: the panic that follows a failed uvmcreate | 2 slots |
| `sched_sepc` (Sched) | *violation*: an interrupt in the epilogue of sys_trap_handler | 2 slots |
| `proc_files` (Files) | Processes with their files: pids, parents, wait's result and termination and the tree of `AbsProc`, forks without memory included; reference counts and `AbsFiles` across pipe, fork, exit, slot reuse and every failure | 3 slots, 4 pids, 9 files, 5 descriptors |
| `files_leak` (Files) | *violation*: the file table is full though few files are open | 3 slots, 5 pids, 9 files |
| `proc_orphans` (Proc) | *violation*: a zombie whose parent has gone | 3 slots |
| `kalloc_serial` (KAlloc) | The allocator as a pool, preempted anywhere but entered by one process at a time | 3 pages, 3 processes |
| `kalloc_race` (KAlloc) | *violation*: preemption inside kalloc | 2 pages, 2 processes |
| `vm_pages` (MCVM) | Who owns each page while fork and exec fail for lack of memory at every place; what programs find in their image; the copy functions and exec's stack | 3 slots; 22 pages with 3 pipes, and 24 pages without; 3 pages of 32 bytes, 4 arguments |
| `console_ring` (MCConsole) | The input buffer as a queue, two readers, wrapping indices; printf | buffer of 4, words modulo 8; ints of 8 bits, longs of 11 |
| `pipe_ring` (Pipe) | A pipe as a queue, chunks around its end, faults, wrapping counters | buffer of 3, words modulo 6 |

**Why these bounds are enough to be interesting.** Three slots let a scan pass one
slot, preempt, fork into a slot behind it and free one ahead of it; the scheduler
uses slots only by position and status. With `Quantum = 1` every tick can preempt; 2
adds the ticks that do not. Two frames give a preemption inside the return from a
preemption. Deeper nesting repeats the same labels: an interrupt is only taken where
no lock is held, and `SchedProofs` does not depend on `MaxNest`. The first pid is 2,
and `MaxPid = 5` lets three forks take a pid, so that slots are reused with the pid
and the descriptors of their last process; `FilesProofs` and `ProcProofs` do not
depend on it. Each fork takes two files and a pipe two more: 9 is odd, so that one
file can be left for the second filealloc to miss, and of 5 descriptors two are the
console's, so that the second fdalloc can fail. Three pages and three users reach
empty, full and every order of the list. A process takes 8 pages: on 22 a third one
is built up to each place where a page can be missing, on 24 three exist, one of
them perhaps an orphan, and exec runs while two do. The rings wrap several times in
both the array and the counters, and are full and empty with the index at each
place; calls of up to the size of the pipe force two chunks. Copies are tried over
all 64 tables of three entries, from and to the byte before, at and after each end
of a page; one argument of exec just fits `MAXPATH`, one just does not, and four of
them fill the stack page and take `sp` below zero, where it wraps. printf gets every
int of 8 bits and every long of 11 alone, and pairs of conversions with the numbers
at the edges.

Bounds that cut behaviour: `Machines` (pages and pipes made), `MaxNest` (nested
frames; in the kernel the stack page bounds them), `MaxPid` (forks in a run),
`ReadMax`, `MaxWrite`, `MaxRead` (the largest count of a call).

### Fairness

* `Sched!Fairness`: the hart keeps executing instructions: weak fairness of the
  scheduler's code and of each process's kernel code (`Kernel(p)`), a panic being
  the next instruction where one is due; `mtime` advances, so the timer fires again
  and again; a pending interrupt is taken if interrupts are enabled infinitely
  often, which is strong fairness because every critical section disables it. User
  code owes nothing (it may loop for ever, and is then preempted), nor does a
  handler that waits for a device or for another process (`Body`). `ReadyRuns` allows
  the three ways in which this kernel is known to stop: the panic of
  `sched_lockleak`, the wrong return of `sched_sepc`, and, after the lock leak and
  before the panic, a system call that polls for ever with interrupts off
  (`[]Deaf`): the process whose fork failed can call read on the console, where
  `myproc` has turned them off, no character can arrive and no tick ends the quantum.
  `SystemCallsInterruptible` is the other half: without the leak there is no such
  state.
* `Files!FilesFairSpec`: a process in the kernel keeps executing, or, after a lock
  leak, the kernel stops (`FilesStop`). That is what `ReadyRuns` says of `Sched`.
  `WaitReturns` allows both, and the store through a null file that ends the kernel
  in `files_leak`.
* `Console!Fairness`, `Pipe!Fairness`: a process in a polling loop is scheduled
  again and again; nobody has to type, to write or to call.

### Disagreements between the code and what is said of it

1. `sched_lockleak`, proc.c:129. When uvmcreate fails, allocproc returns with the
   slot's lock held; the scheduler's next acquire of it panics. Every other
   failure path releases it. Before that acquire the caller may return and make
   another system call; one that polls then does so with interrupts off and never
   ends, without any panic (`Deaf`; the exception in `ReadyRuns`).
2. `sched_sepc`, trap.c:136. The handler restores `sepc` because nested interrupts
   may have changed it, but after `yield` interrupts are on, and one taken between
   `w_sepc` and `w_sstatus` changes it again: the outer `sret` goes wrong.
3. `proc_orphans`, sysproc.c:42. proc.h:26 calls a ZOMBIE a process whose parent
   has not yet called wait; after the parent has exited there is nobody left who
   could, and a process that reuses the parent's slot inherits the child.
4. `kalloc_race`, kalloc.c:110. A page that kalloc returned is no longer on the
   list, says its comment; without a lock, a preemption between the two accesses
   hands it out twice.
5. `files_leak`, file.c:28. param.h:8 says NFILE is how many files may be open at
   the same time; `fileclose` is empty, so it is how many may ever be opened. With
   100 of them and two for each new process, the kernel stores through a null file
   after some fifty forks, however many of those processes are gone.

One more is a theorem and no run of its own: the comments of console.c (59, 114, 162)
say that `%p` prints an `unsigned long` of 64 bits, but printint takes an int. What
is printed of an address that does not fit in an int is never its numeral
(`PrintsAreFaithful`, `PrintsValue`): the kernel's addresses fit, `TRAMPOLINE`
and the kernel stacks below it do not.

Some more that no run shows, because no document or comment says otherwise: a read
of more bytes than a pipe holds polls for ever (`writeopen` is never cleared); a
kfork that fails in uvmcopy leaves its slot ALLOCATED and its pages in use for good;
kexec, when the arguments do not fit, fails after it has replaced the image;
filealloc races with itself (see Files: the run and the theorems assume `Serial`,
which keeps its callers apart, so no property of the project catches that race); and
two messages of trap.c (121, 127) use `%ld`, which printf prints as it stands
without taking an argument, so that what follows prints the wrong one.

One suspicion was not confirmed: allocproc maps page 0 as a kernel stack when its
last kalloc fails, but no process ever runs on it or frees it, because the uvmcopy
that follows fails as well and the slot stays as it is (`NoNullStack`).

## 4. What is proved

TLAPS checks the proofs for every value of the constants that satisfies the named
assumptions of the modules (`NPROC`, `Quantum`, `Size` positive, and so on).

**SchedProofs.** The invariant has two layers.
`StateInv` needs no assumption: `OnInv` (the executing context, the scheduler's
`scur` and `cpuProc`, and the table agree), `StatusInv` (only `on` is RUNNING, a
READY process is at `yielded` or `forkret`), `ForkInv` (a fork under way owns an
ALLOCATED slot), `StackInv` and `FramesInv` (the return path of a trap has a frame
to return to, and no frame was pushed where a lock was held), `OffInv` (code that
holds a lock runs with interrupts off). The last two depend on each other: a frame
is never pushed under a lock because interrupts are off there, and `sret` turns
interrupts on again safely because no frame holds one. `OneRunning`,
`ReadyHasContext`, `FreedOnlyOffCpu` and the refinement of `AbsSched` follow.
`LockInv` says that the lock words are exactly the one lock that the code at `on`
takes itself to hold (`Held`) and that `noff` counts it; it needs
`~ KallocMayFail`, because allocproc leaks a lock otherwise, and gives `NoPanic`
and `InterruptsOffUnderLock`. `MaskInv` rests on it and gives
`SystemCallsInterruptible`: `pop_off` restores the `intena` of whichever section was
outermost on the hart, which a system call finds true because every one that can
hand the hart on began with interrupts on. The assumption is necessary:
`sched_lockleak` is the counterexample without it.

`BoundedBypass` holds for every `NPROC`: a READY process that has been passed
over k times has at most `NPROC - 1 - k` slots between the scheduler's position
and its own: the invariant bounds the sum of the counter and the distance
(`Ahead`).

**ProcProofs.** `PidsUnique` whatever programs do (pids in use are at most
`nextpid`, failed forks included). With `ReapBeforeExit`, `ZombieHasParent` and
`ParentStays`, from the invariant that the parent of every existing process is
live, and the refinement of `AbsProc`: no slots, only pids, so a process is the one
slot that has its pid (`MappingFacts`), and an action has to be shown to leave every
other pid alone. It needs that a process in fork or wait has no result yet
(`CallInv`), and that forks under way have pids left (`Budget`).

A fork that leaks a lock is one more that fails, and nothing above depends on
whether the kernel then stops.

**FilesProofs.** Every step of `Files` is a step of `Proc` or leaves processes alone,
so `PidsUnique` and the tree of `AbsProc` hold with files. With `Serial`, `RefCovers`
holds for every size of the tables: `CoverInv` adds that the file a process in
sys_pipe has found is still free when it stores, and that the files it has taken are
in nobody's descriptors (`Apart`). A fork adds at most the child to the holders of a
file and counts at least one reference for it (`ForkFilesEffect`, `Counted`), or
gets its console files from among those nobody holds. The refinement of `AbsFiles`,
with `Serial` too, follows: fork and pipealloc write only files that nobody holds, so
no descriptor but the caller's or the child's changes what it stands for
(`ViewFacts`). `FilesNamed` adds to `CoverInv` that a file given to nobody is blank,
so that an end of a pipe is not also an end of another; that a held file can be read
or written, so that the closed descriptors of `AbsFiles` are those `fdalloc` finds;
and that there are at most as many pipes as files, so that `AbsFiles` has a fresh
name left for each.

**KAllocProofs.** With `~ Overlap`: `ListIsFreePages`, `OneOwner` and the refinement
of `AbsPages`, for every number of pages and processes. `AllocInv` adds to the
checked invariants that one process at a time is inside, and what its local `r` and
the word it has loaded are at each place (`LocalsOK`). Unlinking takes the tail of
the list, pushing prepends to it; that a list of distinct free pages has room for
one more is the pigeonhole principle (`RoomForOne`).

**VMProofs.** `OneOwner`, `NeverFaults` (mappages's "remap" panic included: a FREE
slot has no kernel stack mapped, because a fork that mapped one and failed has left
its slot ALLOCATED), `NoNullStack`, type correctness and the refinement of
`AbsImages`, for every number of slots, pages and pipes, provided that boot has
eight pages. The invariant `VMInv` gives each slot the shape of its page table by
its status (`SlotOK`: what a failed fork left has the kernel's half and at most an
empty table of the user's; a process has both halves, and an image but for the
moment between the two halves of an exec) and says that a page is held in one place
of one slot, or by a pipe, or is free (`Apart`). `OneOwner` alone would not be
inductive: freewalk finds what to free by following entries, so it has to be known
where they lead. Three lemmas carry the proof. `AllocProcFacts` and `ForkOutcome`
say how allocproc and kfork end at each place where memory can run out. `StepKeeps`:
a step that touches one slot, its pages and free pages has to be looked at for that
slot only. `FreeProcFacts`: after the unmapping freewalk finds exactly the tables of
the zombie, without leaves. That mappages of the new image finds its tables, so that
kexec cannot be left without an image after it has freed the old one
(`ExecMapKeeps`), is what makes exec all or nothing in `AbsImages`. The proof showed
that `NoNullStack` needs no argument of its own: a fork that takes the last page for
the stack, or gets none, is one whose uvmcopy fails. `OnlyFailedForksLose` counts:
the pages that are free, or that a slot, a pipe or an exec holds, are as many
afterwards as before in every step but a fork, and a fork that fails takes its own
out of both (`LossStep`, which each of the lemmas `..Keeps` concludes; `AllocFailed`
bounds what allocproc leaves behind).

The copy functions are proved in the same module, for every size of page, memory and
word, and every content: `CopiesAgree`. After each round what was copied is what the
reference asks for, byte by byte, up to where the next round begins (`CopiedIn`,
`CopiedOut`, `CopiedInStr`), and when a round fails the next byte is one that the
reference cannot have either. A round stays in one page (`ChunkInPage`), so one entry
decides for all its bytes, and it moves on, so as many rounds as there are bytes are
enough. Copyout changes the memory that it goes on to translate by; what it changes
are bytes, not entries.

`ExecArgsArrive` puts them together: sys_exec's loop, kexec's, and what the new
program reads at last. It says `ExecAgrees` of the callers of `MCVM`; the theorem
`ExecOfAnyCaller` says it of every one: any entries and bytes of memory, the array
of pointers anywhere below the highest address (so also where it runs out of memory
or into a page that is not the program's), pointers and strings whatever lies
there, programs of every size, and arbitrary sizes of pages, memory, pointers and
addresses, `MAXARG` and `MAXPATH`. The lemmas below know of a caller only that its
memory is a memory and that `argv` is what its array holds as far as it can be read
(`IsCaller`). Every memory and address make such a caller (`AnyCaller`; that the
bytes of a pointer make an address is `LoadedIs`), and so does every exec call of
`MCVM` (`CallsHaveCallers`, which needs pages of four bytes, `StringAssumption`, so
that none of its strings begins below address 0).

* Collecting: after each round the loop either has the first strings of the
  caller, or has failed where it is certain that no number of arguments can be
  read (`CollectRoundKeeps`, `CollectIsExact`). The caller has one number of
  arguments at most (`OneCount`), which is what ties the two `\E n` of the property
  to the code's `argc`.
* Laying out: `IsTop` says where each string goes were addresses whole numbers, as
  the reference says, and these places only fall (`TopsFall`). Each `sp -= len` is
  the whole number, or, when that is negative, wraps to one above the page
  (`RoomIs`): nothing longer than memory is pushed, and the words go on for at
  least a page above memory. The guard `sp < size` lets that `sp` pass; that
  copyout refuses it is why kexec needs no other check. So a failure of kexec is
  one of the reference, and where it goes on each string is laid out below the
  ones before it and above the program (`LaidKeeps`, `PushArgKeeps`).
* Reading: a pointer that is stored as bytes is read back as it was
  (`LoadedStored`: dropping bytes is division, `DropByte`), so the new program finds
  the array, the strings it points to, and its own code below (`PushPointersLand`,
  `ArrivedIs`).

**PipeProofs.** `EndsApart` and type correctness for every buffer size, counter
width and call length: what a call has still to move fits, because the other end
can only help, and `nwrite - nread` in modular arithmetic changes by the chunk
(`AvailableMoves`). The refinement of `AbsPipe` adds where the bytes are: what is
written and not read is in its cells (`Stored`), and what a reader has copied but
not yet counted is still there (`Fetched`), because the writer's chunk and the
reader's chunk lie in cells apart. The abstract queue moves when a counter does.

**ConsoleProofs.** `IndicesAgree`, type correctness and the refinement of
`AbsConsole`, for every size of the buffer, width of the indices and number of
readers. The queue is read off the buffer from `r` on, so the proof is that a
character's cell does not depend on where its index has wrapped (`WrapKeepsSlot`)
and that storing at `e` hits no other character's cell (`CellsApart`). It needs the
number of words to be a multiple of the buffer size: 2^32 and 128.

`PrintsValue` is proved there for every width of int and long, in both directions.
The digits that printint finds, lowest first, are those of the positional numeral
(`LowDigitsStep`: dividing by the base shifts them), and there is only one number of
digits that fits (`DigitsUnique`); the negation of the smallest int wraps to itself,
and is the right magnitude when it is read as unsigned (`IntFacts`). A round of
printf consumes one piece of the format and its argument (`PieceRound`), and two
pieces are two rounds (`PrintsTwo`). That a wide address is printed wrongly, and
that what follows it cannot make up for that, is because two numbers never have the
same numeral (`NumeralsDiffer`) and the lower bits never have more digits than the
whole (`DigitsGrow`, `ConcatSplits`).

**DataLemmas.** The arithmetic of `%`, `\div` and powers that the last three share,
and induction and recursion over the natural numbers. The library's induction rule
takes a predicate, which these provers cannot instantiate; here induction is about a
set of numbers (`Induction`, from `LeastNat`), and that a recursive function exists is
shown by building it (`Recursion`).

**Only model-checked**: liveness (`ReadyRuns`, `WaitReturns`, `ReadersDrain`,
`ReaderReturns`), which is beyond this prover, as is ENABLED, and the disagreements
of the last section, which are single behaviours. Every other property of a passing
run is a theorem.

## 5. What is not modelled

* Several harts: `NCPU` is 1 and other harts never leave `entry.S`.
* Compiler reordering: the Makefile builds without optimisation, so memory
  accesses happen in source order.
* Exceptions (they panic or stop), register saving, `stvec`, the TLB (a remapped
  kernel stack is not flushed: nothing in the sources says what the hart does).
* Two processes at the same end of a pipe, which do corrupt it.
* Images of more than one page (no program has one), permissions of kernel pages,
  `kvmininit`.
* Echo, and how the output of two processes mixes; the console buffer of filewrite.
* System call dispatch, a look-up that reads registers, with argstr, which fetches
  the path of exec only: `UserMem` starts where the program was found.
* The shell's parser, libc, boot code: straight-line code of one process, or before
  there is any.
* The buffer cache and file system: in no build, called by nothing, and the disk
  driver they call does not exist.

## 6. Plan

What the code may come to need: two writers at one end of a pipe, if it gets a lock
for them, and the buffer cache, once something calls it.
