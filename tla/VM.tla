------------------------------- MODULE VM -------------------------------
(***************************************************************************)
(* Who owns each physical page: the page tables of kernel/mm/vm.c and      *)
(* kernel/mm/uvm.c, and the system calls that build and tear them down     *)
(* (fork, exec, wait, pipe in kernel/proc/proc.c, kernel/syscall).         *)
(*                                                                         *)
(* A page table is a tree of pages, three levels deep.  Of the 512 entries *)
(* of a table three matter: the one on the way to user address 0, the one  *)
(* on the way to TRAMPOLINE, and in the last table the one of TRAPFRAME.   *)
(* An image is one page (sz is PGSIZE for every process that can run).     *)
(*                                                                         *)
(* kfork and kwait work under the lock of the slot they build or free,     *)
(* with interrupts off, so each is one step.  Their scans of the process   *)
(* table are part of that step: they only decide which slot it is (Proc    *)
(* takes them slot by slot, with other processes in between).  sys_exec    *)
(* runs with interrupts on and takes a step for each change it makes.      *)
(* kalloc and kfree are atomic here (KAlloc shows what happens when they   *)
(* are not), and the file table has room (allocproc does not ask).         *)
(* A definition whose comment begins "A mutation" is not part of the       *)
(* model (see Sched).                                                      *)
(***************************************************************************)
EXTENDS Integers, FiniteSets

CONSTANTS
  NPROC,     \* entries of the process table
  NPAGE,     \* bound on the pages between end_address and PHYSTOP
  Content,   \* what a page of a program may hold
  Machines   \* pages left after kvmininit, with a bound on the pipes made

NoImage == "no_image"  \* an entry of the process table without a process

ASSUME NPROCAssumption    == NPROC \in Nat \ {0}
ASSUME NPAGEAssumption    == NPAGE \in Nat
ASSUME ContentAssumption  == Content # {} /\ NoImage \notin Content
ASSUME MachinesAssumption == Machines \subseteq [pages : 8 .. NPAGE, pipes : Nat]

Slots    == 0 .. NPROC - 1
Page     == 1 .. NPAGE
Null     == 0            \* physical address 0: what a failed kalloc returns
Text     == NPAGE + 1    \* the trampoline page, part of the kernel's text
Unmapped == -1           \* a kernel stack that is not mapped
None     == -1

Zeroed == "zeroed"       \* the content of a page that kalloc returns
Junk   == "junk"         \* the content of a page that kfree threaded

VARIABLES
  mem,        \* the free pages, page table entries and contents of pages
  status,     \* p->status, READY and RUNNING both "LIVE"
  parent,     \* p->parent
  trapframe,  \* p->trapframe
  pagetable,  \* p->pagetable
  kstack,     \* the page kernel_pagetable maps at p->kstack
  unreleased, \* slots whose lock allocproc never released
  pipes,      \* the pages of pipes
  quota,      \* pipes that may still be made
  pc,         \* "user", or where in sys_exec the process is
  argbuf,     \* the local of sys_exec
  newimage    \* the local mem of kexec, until it is mapped

procs == <<status, parent, trapframe, pagetable, kstack, unreleased>>
execs == <<pc, argbuf, newimage>>
files == <<pipes, quota>>
vars  == <<mem, procs, files, execs>>

-----------------------------------------------------------------------------
(* Page tables.  The operators take the memory m and return it changed;    *)
(* m.fault records a panic, or a free of a page that is free.              *)

Idx        == {"low", "frame", "top"}
UserVA     == <<"low", "low", "low">>
TRAMPOLINE == <<"top", "top", "top">>
TRAPFRAME  == <<"top", "top", "frame">>

Invalid  == [pa |-> Null, leaf |-> FALSE]
Leaf(q)  == [pa |-> q, leaf |-> TRUE]
Table(q) == [pa |-> q, leaf |-> FALSE]
Entry    == [pa : Page \cup {Null, Text}, leaf : BOOLEAN]

Empty == [i \in Idx |-> Invalid]

Faulted(m, f) == [m EXCEPT !.fault = f]

Kalloc(m) ==
  IF m.free = {} THEN [m |-> m, pa |-> Null]
  ELSE LET q == CHOOSE q \in m.free : TRUE
       IN  [m |-> [m EXCEPT !.free = @ \ {q}, !.pte[q] = Empty,
                            !.content[q] = Zeroed],
            pa |-> q]

Kfree(m, q) ==
  CASE q \notin Page -> Faulted(m, "invalid_address")
    [] q \in m.free  -> Faulted(m, "double_free")
    [] OTHER         -> [m EXCEPT !.free = @ \cup {q}, !.content[q] = Junk]

\* One level of walk(): w is the memory and the table reached so far, a the
\* next table, fresh or Null, for the case that there is none yet.
Enter(w, i, a) == IF a.pa = Null THEN a
                  ELSE [a EXCEPT !.m.pte[w.pa][i] = Table(a.pa)]
Descend(w, i)  == IF w.pa = Null THEN w
                  ELSE IF w.m.pte[w.pa][i] = Invalid THEN Enter(w, i, Kalloc(w.m))
                  ELSE [w EXCEPT !.pa = w.m.pte[w.pa][i].pa]

\* walk(root, va, 1): the table of the last level, Null when memory ran out.
Walk(m, root, va) == Descend(Descend([m |-> m, pa |-> root], va[1]), va[2])

\* mappages() of one page.
SetLeaf(w, i, pa) ==
  CASE w.pa = Null -> [m |-> w.m, ok |-> FALSE]
    [] w.pa # Null /\ w.m.pte[w.pa][i] # Invalid ->
         [m |-> Faulted(w.m, "remap"), ok |-> FALSE]
    [] OTHER -> [m |-> [w.m EXCEPT !.pte[w.pa][i] = Leaf(pa)], ok |-> TRUE]
MapPage(m, root, va, pa) == SetLeaf(Walk(m, root, va), va[3], pa)

\* walk(root, va, 0), and the entry it leads to (Invalid when it returns 0).
Next0(m, t, i)         == IF t = Null THEN Null ELSE m.pte[t][i].pa
LastTable(m, root, va) == Next0(m, Next0(m, root, va[1]), va[2])
EntryAt(m, t, i)       == IF t = Null THEN Invalid ELSE m.pte[t][i]
Lookup(m, root, va)    == EntryAt(m, LastTable(m, root, va), va[3])

\* A mutation: uvmunmap() leaves the entry of the page it freed.
ClearKeepsEntry(m, t, i, do_free) ==
  IF EntryAt(m, t, i) = Invalid THEN m
  ELSE IF do_free THEN Kfree(m, m.pte[t][i].pa)
  ELSE [m EXCEPT !.pte[t][i] = Invalid]

\* uvmunmap() of one page: what is not mapped is skipped.
Clear(m, t, i, do_free) ==
  IF EntryAt(m, t, i) = Invalid THEN m
  ELSE [(IF do_free THEN Kfree(m, m.pte[t][i].pa) ELSE m) EXCEPT !.pte[t][i] = Invalid]
Unmap(m, root, va, do_free) == Clear(m, LastTable(m, root, va), va[3], do_free)

\* The pages of the tree below root.
Below(m, T)     == {m.pte[t][i].pa : t \in T, i \in Idx} \cap Page
Tables(m, root) ==
  {root} \cup Below(m, {root}) \cup Below(m, Below(m, {root}))

\* freewalk(): every leaf must have been unmapped before.
FreeTables(m, T) ==
  CASE \E t \in T, i \in Idx : m.pte[t][i].leaf -> Faulted(m, "leaf")
    [] T \cap m.free # {} -> Faulted(m, "double_free")
    [] OTHER -> [m EXCEPT !.free = @ \cup T,
                          !.pte = [q \in Page |-> IF q \in T THEN Empty ELSE @[q]],
                          !.content = [q \in Page |-> IF q \in T THEN Junk ELSE @[q]]]
Freewalk(m, root) == FreeTables(m, Tables(m, root))

-----------------------------------------------------------------------------
(* allocproc() and uvmcopy() work on b: the memory, the pages that a new   *)
(* process got, and how the construction ended.  After a failure nothing   *)
(* more is done and nothing is given back.                                 *)

Start(m) == [m |-> m, end |-> "done", trapframe |-> Null, root |-> Null,
             kstack |-> Unmapped, image |-> Null]

\* A kalloc() whose result a is checked.
Put(b, field, a, why)  == IF a.pa = Null THEN [b EXCEPT !.end = why]
                          ELSE [b EXCEPT !.m = a.m, ![field] = a.pa]
Take(b, field, why)    == IF b.end = "done" THEN Put(b, field, Kalloc(b.m), why) ELSE b

Mapped(b, mp, why)     == [b EXCEPT !.m = mp.m, !.end = IF mp.ok THEN @ ELSE why]
Map(b, va, field, why) ==
  IF b.end # "done" THEN b
  ELSE Mapped(b, MapPage(b.m, b.root, va, IF field = "text" THEN Text ELSE b[field]), why)

\* The kernel stack: a is the result of kalloc(), mapped unchecked, and old what
\* kernel_pagetable maps at p->kstack already; mappages() panics when there is
\* something.  The tables on the way exist since kvmininit mapped TRAMPOLINE.
MapKstack(b, a, old) ==
  IF old = Unmapped THEN [b EXCEPT !.m = a.m, !.kstack = a.pa]
  ELSE [b EXCEPT !.m = Faulted(a.m, "remap"), !.end = "no_table"]
KernelStack(b, old) ==
  IF b.end # "done" THEN b ELSE MapKstack(b, Kalloc(b.m), old)

AllocProc(m, old) ==
  KernelStack(Map(Map(Take(Take(Start(m),
    "trapframe", "no_trapframe"),
    "root", "no_root"),
    TRAMPOLINE, "text", "no_table"),
    TRAPFRAME, "trapframe", "no_table"), old)

\* A page with content v at address 0; the caller sees to it when that fails.
Load(b, v) == IF b.end # "done" THEN b ELSE [b EXCEPT !.m.content[b.image] = v]
MapImage(b, v) ==
  Map(Load(Take(b, "image", "no_image"), v), UserVA, "image", "no_image")

\* A page that uvmcopy() could not map goes back.
GiveBack(b) == IF b.end = "no_image" /\ b.image # Null
               THEN [b EXCEPT !.m = Kfree(b.m, b.image)] ELSE b

\* A mutation: a page that cannot be copied is skipped.
UvmcopySkips(b, old) ==
  IF Lookup(b.m, old, UserVA) = Invalid \/ b.m.free = {} THEN b
  ELSE GiveBack(MapImage(b, b.m.content[Lookup(b.m, old, UserVA).pa]))

\* A mutation: the child's page table maps the parent's page.
UvmcopyShares(b, old) ==
  Map([b EXCEPT !.image = Lookup(b.m, old, UserVA).pa], UserVA, "image", "no_image")

\* uvmcopy() of an image of one page.
Uvmcopy(b, old) ==
  IF Lookup(b.m, old, UserVA) = Invalid THEN b
  ELSE GiveBack(MapImage(b, b.m.content[Lookup(b.m, old, UserVA).pa]))

\* A mutation: kinit() goes one page past PHYSTOP.
BootPastEnd(n, v) ==
  MapImage(AllocProc([free    |-> 1 .. n + 1,
                      pte     |-> [q \in Page |-> Empty],
                      content |-> [q \in Page |-> Junk],
                      fault   |-> "none"], Unmapped), v)

\* userinit(), on a memory of n pages that is all free.
Boot(n, v) ==
  MapImage(AllocProc([free    |-> 1 .. n,
                      pte     |-> [q \in Page |-> Empty],
                      content |-> [q \in Page |-> Junk],
                      fault   |-> "none"], Unmapped), v)

InSlot0(x, y) == [p \in Slots |-> IF p = 0 THEN x ELSE y]

Init ==
  /\ \E machine \in Machines, v \in Content :
       /\ quota = machine.pipes
       /\ \E b \in {Boot(machine.pages, v)} :
            /\ mem       = b.m
            /\ status    = InSlot0("LIVE", "FREE")
            /\ trapframe = InSlot0(b.trapframe, Null)
            /\ pagetable = InSlot0(b.root, Null)
            /\ kstack    = InSlot0(b.kstack, Unmapped)
  /\ parent     = [p \in Slots |-> None]
  /\ unreleased = {}
  /\ pipes      = {}
  /\ pc         = [p \in Slots |-> "user"]
  /\ argbuf     = [p \in Slots |-> Null]
  /\ newimage   = [p \in Slots |-> Null]

Running     == mem.fault = "none"
At(p, l)    == Running /\ status[p] = "LIVE" /\ pc[p] = l
FirstFree   == {s \in Slots : /\ status[s] = "FREE"
                              /\ \A t \in Slots : status[t] = "FREE" => s <= t}
Children(p)   == {s \in Slots : status[s] = "ZOMBIE" /\ parent[s] = p}
FirstChild(p) == {s \in Children(p) : \A t \in Children(p) : s <= t}

-----------------------------------------------------------------------------
(* fork *)

\* allocproc() fails.  Only without a page for the root does it return with
\* the slot's lock still held.
ForkNoProc(c, b) ==
  /\ b.end \in {"no_trapframe", "no_root", "no_table"}
  /\ unreleased' = unreleased \cup {s \in {c} : b.end = "no_root"}
  /\ UNCHANGED <<status, parent, pagetable, kstack>>

\* allocproc() succeeds, and leaves the slot in this state.
Allocated(c, b) ==
  /\ pagetable' = [pagetable EXCEPT ![c] = b.root]
  /\ kstack'    = [kstack    EXCEPT ![c] = b.kstack]
  /\ UNCHANGED unreleased

\* uvmcopy() fails: the slot stays as allocproc() left it, for good.
ForkNoImage(c, b) ==
  /\ b.end = "no_image"
  /\ Allocated(c, b)
  /\ status' = [status EXCEPT ![c] = "ALLOCATED"]
  /\ UNCHANGED parent

ForkDone(p, c, b) ==
  /\ b.end = "done"
  /\ Allocated(c, b)
  /\ status' = [status EXCEPT ![c] = "LIVE"]
  /\ parent' = [parent EXCEPT ![c] = p]

\* kfork() takes the first free slot.
Fork(p) ==
  /\ At(p, "user")
  /\ \E c \in FirstFree \ unreleased :
     \E b \in {Uvmcopy(AllocProc(mem, kstack[c]), pagetable[p])} :
       /\ mem'       = b.m
       /\ trapframe' = [trapframe EXCEPT ![c] = b.trapframe]
       /\ UNCHANGED <<files, execs>>
       /\ ForkNoProc(c, b) \/ ForkNoImage(c, b) \/ ForkDone(p, c, b)

\* The next scan of the process table reaches a lock that is still held.
AcquirePanics ==
  /\ Running /\ unreleased # {}
  /\ mem' = Faulted(mem, "acquire")
  /\ UNCHANGED <<procs, files, execs>>

-----------------------------------------------------------------------------
(* exit and wait *)

\* The program of initproc never exits.
Exit(p) ==
  /\ At(p, "user") /\ p # 0
  /\ status' = [status EXCEPT ![p] = "ZOMBIE"]
  /\ UNCHANGED <<mem, parent, trapframe, pagetable, kstack, unreleased, files, execs>>

FreeKstack(m, q) == IF q = Unmapped THEN m ELSE Kfree(m, q)

\* The pages that freeproc() gives back, in its order.
FreeProc(m, s) ==
  FreeKstack(
    Freewalk(
      Unmap(Unmap(Unmap(Kfree(m, trapframe[s]),
        pagetable[s], TRAMPOLINE, FALSE),
        pagetable[s], TRAPFRAME, FALSE),
        pagetable[s], UserVA, TRUE),
      pagetable[s]),
    kstack[s])

\* A mutation: freeproc() frees the page of the kernel stack and leaves it mapped.
WaitKeepsStack(p) ==
  /\ At(p, "user")
  /\ \E z \in FirstChild(p) :
       /\ \A s \in unreleased : s > z
       /\ mem'       = FreeProc(mem, z)
       /\ status'    = [status EXCEPT ![z] = "FREE"]
       /\ parent'    = [parent EXCEPT ![z] = None]
       /\ trapframe' = [trapframe EXCEPT ![z] = Null]
       /\ pagetable' = [pagetable EXCEPT ![z] = Null]
  /\ UNCHANGED <<kstack, unreleased, files, execs>>

\* kwait() finds the zombie z; the scan passes the slots before it.
Wait(p) ==
  /\ At(p, "user")
  /\ \E z \in FirstChild(p) :
       /\ \A s \in unreleased : s > z
       /\ mem'       = FreeProc(mem, z)
       /\ status'    = [status EXCEPT ![z] = "FREE"]
       /\ parent'    = [parent EXCEPT ![z] = None]
       /\ trapframe' = [trapframe EXCEPT ![z] = Null]
       /\ pagetable' = [pagetable EXCEPT ![z] = Null]
       /\ kstack'    = [kstack EXCEPT ![z] = Unmapped]
  /\ UNCHANGED <<unreleased, files, execs>>

-----------------------------------------------------------------------------
(* exec *)

\* A mutation: sys_exec() frees the page only when it succeeds.
ReturnFromExecKeeps(p, m) ==
  /\ mem'    = IF At(p, "stack") THEN Kfree(m, argbuf[p]) ELSE m
  /\ argbuf' = [argbuf EXCEPT ![p] = Null]
  /\ pc'     = [pc EXCEPT ![p] = "user"]

\* sys_exec() returns: it frees the page of the arguments on every path.
ReturnFromExec(p, m) ==
  /\ mem'    = Kfree(m, argbuf[p])
  /\ argbuf' = [argbuf EXCEPT ![p] = Null]
  /\ pc'     = [pc EXCEPT ![p] = "user"]

\* The shell of initproc forks before it execs.
ExecStart(p) ==
  /\ At(p, "user") /\ p # 0 /\ mem.free # {}
  /\ LET a == Kalloc(mem) IN /\ mem'    = a.m
                             /\ argbuf' = [argbuf EXCEPT ![p] = a.pa]
  /\ pc' = [pc EXCEPT ![p] = "args"]
  /\ UNCHANGED <<procs, files, newimage>>

\* A bad argument, no such program, or no page for it.
ExecRejected(p) ==
  /\ At(p, "args")
  /\ ReturnFromExec(p, mem)
  /\ UNCHANGED <<procs, files, newimage>>

\* kexec() loads program v into a new page.
ExecLoad(p, v) ==
  /\ At(p, "args") /\ mem.free # {}
  /\ LET a == Kalloc(mem) IN /\ mem'      = [a.m EXCEPT !.content[a.pa] = v]
                             /\ newimage' = [newimage EXCEPT ![p] = a.pa]
  /\ pc' = [pc EXCEPT ![p] = "unmap"]
  /\ UNCHANGED <<procs, files, argbuf>>

\* The old image goes first.
ExecUnmap(p) ==
  /\ At(p, "unmap")
  /\ mem' = Unmap(mem, pagetable[p], UserVA, TRUE)
  /\ pc'  = [pc EXCEPT ![p] = "map"]
  /\ UNCHANGED <<procs, files, argbuf, newimage>>

\* mappages() of the new one; when it fails sys_exec() returns -1.
ExecMap(p) ==
  /\ At(p, "map")
  /\ \E w \in {MapPage(mem, pagetable[p], UserVA, newimage[p])} :
       IF w.ok THEN /\ mem' = w.m
                    /\ pc' = [pc EXCEPT ![p] = "stack"]
                    /\ UNCHANGED argbuf
               ELSE ReturnFromExec(p, Kfree(w.m, newimage[p]))
  /\ newimage' = [newimage EXCEPT ![p] = Null]
  /\ UNCHANGED <<procs, files>>

\* The arguments are copied to the stack, or do not fit: nothing more of the
\* page tables changes either way.
ExecReturn(p) ==
  /\ At(p, "stack")
  /\ ReturnFromExec(p, mem)
  /\ UNCHANGED <<procs, files, newimage>>

-----------------------------------------------------------------------------
(* pipe, and the program's own stores *)

\* pipealloc(): the page stays with files whose reference counts never reach
\* zero.
PipeAlloc(p) ==
  /\ At(p, "user") /\ mem.free # {} /\ quota > 0
  /\ LET a == Kalloc(mem) IN /\ mem'   = a.m
                             /\ pipes' = pipes \cup {a.pa}
  /\ quota' = quota - 1
  /\ UNCHANGED <<procs, execs>>

Store(p, v) ==
  /\ At(p, "user")
  /\ mem' = [mem EXCEPT !.content[Lookup(mem, pagetable[p], UserVA).pa] = v]
  /\ UNCHANGED <<procs, files, execs>>

Next ==
  \/ AcquirePanics
  \/ \E p \in Slots :
       \/ Fork(p)
       \/ Exit(p)
       \/ Wait(p)
       \/ ExecStart(p)
       \/ ExecRejected(p)
       \/ \E v \in Content : ExecLoad(p, v)
       \/ ExecUnmap(p)
       \/ ExecMap(p)
       \/ ExecReturn(p)
       \/ PipeAlloc(p)
       \/ \E v \in Content : Store(p, v)

Spec == Init /\ [][Next]_vars

-----------------------------------------------------------------------------

TypeOK ==
  /\ mem \in [free    : SUBSET Page,
              pte     : [Page -> [Idx -> Entry]],
              content : [Page -> Content \cup {Zeroed, Junk}],
              fault   : {"none", "acquire", "invalid_address",
                         "double_free", "remap", "leaf"}]
  /\ status     \in [Slots -> {"FREE", "ALLOCATED", "LIVE", "ZOMBIE"}]
  /\ parent     \in [Slots -> Slots \cup {None}]
  /\ trapframe  \in [Slots -> Page \cup {Null}]
  /\ pagetable  \in [Slots -> Page \cup {Null}]
  /\ kstack     \in [Slots -> Page \cup {Null, Unmapped}]
  /\ unreleased \subseteq Slots
  /\ pipes      \subseteq Page
  /\ quota      \in Nat
  /\ pc         \in [Slots -> {"user", "args", "unmap", "map", "stack"}]
  /\ argbuf     \in [Slots -> Page \cup {Null}]
  /\ newimage   \in [Slots -> Page \cup {Null}]

Trees == UNION {Tables(mem, pagetable[s]) : s \in {s \in Slots : pagetable[s] # Null}}

\* Everything that refers to a page as its own, with the page.  The entry of
\* TRAPFRAME does not: its page is owned through p->trapframe.
SlotRefs(s) ==
  {<<"trapframe", s, trapframe[s]>>, <<"pagetable", s, pagetable[s]>>,
   <<"kstack", s, kstack[s]>>, <<"argbuf", s, argbuf[s]>>,
   <<"newimage", s, newimage[s]>>}
EntryRefs == {<<i, t, mem.pte[t][i].pa>> : t \in Trees, i \in {"low", "top"}}
PipeRefs  == {<<"pipe", q, q>> : q \in pipes}
Refs      == (UNION {SlotRefs(s) : s \in Slots}) \cup EntryRefs \cup PipeRefs

Owners == {r \in Refs : r[3] \in Page}
Owned  == {r[3] : r \in Owners}

\* On a smaller machine the pages up to NPAGE count as lost from the start.
Lost   == Page \ (mem.free \cup Owned)

\* A page is free or has one owner, whatever forks, execs, waits and pipes
\* run and wherever memory runs out: no two processes share a page, no tree
\* holds a page that freeproc() or kexec() gave back (kernel/proc/proc.c).
OneOwner ==
  /\ Cardinality(Owners) = Cardinality(Owned)
  /\ Owned \cap mem.free = {}

\* The panics of mappages(), freewalk() and kfree() are never reached, and no
\* page is freed twice (kernel/mm/vm.c, kernel/mm/kalloc.c).  In particular no
\* fork finds a kernel stack still mapped where it maps the new one: the slots
\* where a fork left its stack mapped are never free again.
NeverFaults == mem.fault \in {"none", "acquire"}

\* allocproc() does not check the kalloc() of the kernel stack, and maps page
\* 0 when it failed; but then the uvmcopy() that follows fails too, so no
\* process that can run, or be freed, has that stack.
NoNullStack ==
  \A s \in Slots : status[s] \in {"LIVE", "ZOMBIE"} => kstack[s] \in Page

\* The trapframe a failed fork left in a free slot: the next fork there
\* overwrites the pointer.
Stale == {trapframe[s] : s \in {s \in Slots : status[s] = "FREE"}}

\* Pages get lost in a fork that fails and nowhere else: a root and a table,
\* and later the trapframe.  An exec that fails anywhere, and an exit with
\* wait, give back all that was taken (allocproc, sys_exec, freeproc).
OnlyFailedForksLose ==
  [][LET new == Lost' \ (Lost \cup Stale)
     IN  \/ new = {}
         \/ /\ \E p \in Slots : Fork(p)
            /\ ~ \E c \in Slots : status[c] = "FREE" /\ status'[c] = "LIVE"
            /\ Cardinality(new) <= 2]_vars

\* What a process finds at address 0.  From the moment kexec() unmaps the old
\* program that is the new one: nothing it does after that can lose it.
Image(s) ==
  IF status[s] \notin {"LIVE", "ZOMBIE"} THEN NoImage
  ELSE IF pc[s] = "map" THEN mem.content[newimage[s]]
  ELSE IF Lookup(mem, pagetable[s], UserVA) = Invalid THEN NoImage
  ELSE mem.content[Lookup(mem, pagetable[s], UserVA).pa]

AbstractImages == INSTANCE AbsImages
  WITH None <- NoImage, image <- [s \in Slots |-> Image(s)]

\* A program sees its own stores and nobody else's: fork copies, exec
\* replaces all or nothing, whatever other processes do (kfork, kexec).
ImplementsAbsImages == AbstractImages!Spec
=============================================================================
