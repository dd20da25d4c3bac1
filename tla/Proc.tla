------------------------------ MODULE Proc ------------------------------
(***************************************************************************)
(* The process system calls of kernel/proc/proc.c at the level of the      *)
(* process table: pids, parent pointers, and what fork and wait return.    *)
(* A step is one critical section under the lock of one slot; between two  *)
(* of them any other process may run, because the kernel is preemptible    *)
(* (see Sched, which models the sections themselves).  READY and RUNNING   *)
(* are not told apart here: both are "LIVE".                               *)
(*                                                                         *)
(* Slot 0 is initproc, whose program (user/sh.c) never exits.              *)
(* A definition whose comment begins "A mutation" is not part of the       *)
(* model (see Sched).                                                      *)
(***************************************************************************)
EXTENDS Integers, FiniteSets

CONSTANTS
  NPROC,          \* entries of the process table
  MaxPid,         \* bound: the largest pid issued
  ReapBeforeExit  \* do programs wait for their children before they exit

ASSUME NPROCAssumption == NPROC \in Nat \ {0}
ASSUME PidAssumption   == MaxPid \in Nat /\ MaxPid >= 2
ASSUME FlagAssumption  == ReapBeforeExit \in BOOLEAN

Slots == 0 .. NPROC - 1
None  == -1

VARIABLES
  status,    \* p->status
  pid,       \* p->pid
  parent,    \* p->parent
  nextpid,   \* the last pid issued
  pc,        \* "user", or the system call the process executes
  cur,       \* the loop variable of allocproc and of kwait
  havekids,  \* the local of kwait
  ret,       \* the last system call (a7) and its result (a0)
  leaked,    \* slots whose lock a failing allocproc has kept
  stopped    \* has the kernel panicked, or the hart hung with interrupts off

vars == <<status, pid, parent, nextpid, pc, cur, havekids, ret, leaked, stopped>>

Returns == {"none", "fork", "wait"} \X (Nat \cup {-1})

\* allocpid() increments before it returns: nextpid starts at 1.
FirstPid == 1 + 1

\* After procinit and userinit.
Init ==
  /\ status   = [p \in Slots |-> IF p = 0 THEN "LIVE" ELSE "FREE"]
  /\ pid      = [p \in Slots |-> IF p = 0 THEN FirstPid ELSE 0]
  /\ parent   = [p \in Slots |-> None]
  /\ nextpid  = FirstPid
  /\ pc       = [p \in Slots |-> "user"]
  /\ cur      = [p \in Slots |-> 0]
  /\ havekids = [p \in Slots |-> FALSE]
  /\ ret      = [p \in Slots |-> <<"none", 0>>]
  /\ leaked   = {}
  /\ stopped  = FALSE

At(p, l) == ~ stopped /\ status[p] = "LIVE" /\ pc[p] = l

\* p is in the loop of allocproc or kwait and gets the lock of slot cur[p].
Locks(p, l) == At(p, l) /\ cur[p] \notin leaked

Exists(p) == status[p] \in {"LIVE", "ZOMBIE"}

ChildOf(p, q) == Exists(q) /\ parent[q] = p

Return(p, call, val) ==
  /\ ret' = [ret EXCEPT ![p] = <<call, val>>]
  /\ pc'  = [pc EXCEPT ![p] = "user"]
  /\ cur' = [cur EXCEPT ![p] = 0]

-------------------------------------------------------------------------
\* kfork() and allocproc()

Forking == {p \in Slots : At(p, "fork")}

ForkCall(p) ==
  /\ At(p, "user")
  /\ nextpid + Cardinality(Forking) < MaxPid
  /\ pc' = [pc EXCEPT ![p] = "fork"]
  /\ UNCHANGED <<status, pid, parent, nextpid, cur, havekids, ret, leaked, stopped>>

\* A mutation: the scan runs past the end of the table.
ForkSkipPastEnd(p) ==
  /\ Locks(p, "fork")
  /\ status[cur[p]] # "FREE"
  /\ cur' = [cur EXCEPT ![p] = cur[p] + 1]
  /\ UNCHANGED <<status, pid, parent, nextpid, pc, havekids, ret, leaked, stopped>>

ForkSkip(p) ==
  /\ Locks(p, "fork")
  /\ status[cur[p]] # "FREE"
  /\ cur[p] + 1 < NPROC
  /\ cur' = [cur EXCEPT ![p] = cur[p] + 1]
  /\ UNCHANGED <<status, pid, parent, nextpid, pc, havekids, ret, leaked, stopped>>

\* The table was full at each slot's turn.
ForkFull(p) ==
  /\ Locks(p, "fork")
  /\ status[cur[p]] # "FREE"
  /\ cur[p] + 1 = NPROC
  /\ Return(p, "fork", -1)
  /\ UNCHANGED <<status, pid, parent, nextpid, havekids, leaked, stopped>>

\* A mutation: the pid is read and not counted.
ForkFoundSamePid(p) ==
  LET c == cur[p]
      n == nextpid
  IN /\ Locks(p, "fork")
     /\ status[c] = "FREE"
     /\ pid'     = [pid EXCEPT ![c] = n]
     /\ status'  = [status EXCEPT ![c] = "LIVE"]
     /\ parent'  = [parent EXCEPT ![c] = p]
     /\ ret'     = [ret EXCEPT ![p] = <<"fork", n>>, ![c] = <<"fork", 0>>]
     /\ pc'      = [pc EXCEPT ![p] = "user"]
     /\ cur'     = [cur EXCEPT ![p] = 0]
     /\ UNCHANGED <<nextpid, havekids, leaked, stopped>>

\* A mutation: the child gets its grandparent as parent.
ForkFoundGrandparent(p) ==
  LET c == cur[p]
      n == nextpid + 1
  IN /\ Locks(p, "fork")
     /\ status[c] = "FREE"
     /\ nextpid' = n
     /\ pid'     = [pid EXCEPT ![c] = n]
     /\ status'  = [status EXCEPT ![c] = "LIVE"]
     /\ parent'  = [parent EXCEPT ![c] = parent[p]]
     /\ ret'     = [ret EXCEPT ![p] = <<"fork", n>>, ![c] = <<"fork", 0>>]
     /\ pc'      = [pc EXCEPT ![p] = "user"]
     /\ cur'     = [cur EXCEPT ![p] = 0]
     /\ UNCHANGED <<havekids, leaked, stopped>>

\* Under the child's lock: allocproc and the rest of kfork.
ForkFound(p) ==
  LET c == cur[p]
      n == nextpid + 1
  IN /\ Locks(p, "fork")
     /\ status[c] = "FREE"
     /\ nextpid' = n
     /\ pid'     = [pid EXCEPT ![c] = n]
     /\ status'  = [status EXCEPT ![c] = "LIVE"]
     /\ parent'  = [parent EXCEPT ![c] = p]
     /\ ret'     = [ret EXCEPT ![p] = <<"fork", n>>, ![c] = <<"fork", 0>>]
     /\ pc'      = [pc EXCEPT ![p] = "user"]
     /\ cur'     = [cur EXCEPT ![p] = 0]
     /\ UNCHANGED <<havekids, leaked, stopped>>

\* allocproc issues a pid and then finds no page for the trapframe or a
\* mapping: the slot stays FREE and its lock is released.
ForkNoPage(p) ==
  /\ Locks(p, "fork")
  /\ status[cur[p]] = "FREE"
  /\ nextpid' = nextpid + 1
  /\ pid'     = [pid EXCEPT ![cur[p]] = nextpid + 1]
  /\ Return(p, "fork", -1)
  /\ UNCHANGED <<status, parent, havekids, leaked, stopped>>

\* uvmcreate finds no page: allocproc returns with the slot's lock held.
ForkNoTable(p) ==
  /\ Locks(p, "fork")
  /\ status[cur[p]] = "FREE"
  /\ nextpid' = nextpid + 1
  /\ pid'     = [pid EXCEPT ![cur[p]] = nextpid + 1]
  /\ Return(p, "fork", -1)
  /\ leaked'  = leaked \cup {cur[p]}
  /\ UNCHANGED <<status, parent, havekids, stopped>>

\* uvmcopy finds no page: the slot is left ALLOCATED, for good.
ForkCopyFails(p) ==
  /\ Locks(p, "fork")
  /\ status[cur[p]] = "FREE"
  /\ nextpid' = nextpid + 1
  /\ pid'     = [pid EXCEPT ![cur[p]] = nextpid + 1]
  /\ status'  = [status EXCEPT ![cur[p]] = "ALLOCATED"]
  /\ Return(p, "fork", -1)
  /\ UNCHANGED <<parent, havekids, leaked, stopped>>

-------------------------------------------------------------------------
\* sys_exit()

Exit(p) ==
  /\ At(p, "user")
  /\ p # 0
  /\ ReapBeforeExit => \A q \in Slots : ~ ChildOf(p, q)
  /\ status' = [status EXCEPT ![p] = "ZOMBIE"]
  /\ ret'    = [ret EXCEPT ![p] = <<"none", 0>>]
  /\ UNCHANGED <<pid, parent, nextpid, pc, cur, havekids, leaked, stopped>>

-------------------------------------------------------------------------
\* kwait()

WaitCall(p) ==
  /\ At(p, "user")
  /\ pc' = [pc EXCEPT ![p] = "wait"]
  /\ havekids' = [havekids EXCEPT ![p] = FALSE]
  /\ UNCHANGED <<status, pid, parent, nextpid, cur, ret, leaked, stopped>>

\* A mutation: a child is reaped before it exits.
WaitReapLive(p) ==
  LET c == cur[p]
  IN /\ Locks(p, "wait")
     /\ parent[c] = p
     /\ status[c] # "FREE"
     /\ status' = [status EXCEPT ![c] = "FREE"]
     /\ pid'    = [pid EXCEPT ![c] = 0]
     /\ parent' = [parent EXCEPT ![c] = None]
     /\ Return(p, "wait", pid[c])
     /\ havekids' = [havekids EXCEPT ![p] = FALSE]
     /\ UNCHANGED <<nextpid, leaked, stopped>>

\* freeproc on the zombie child at cur[p].
WaitReap(p) ==
  LET c == cur[p]
  IN /\ Locks(p, "wait")
     /\ parent[c] = p
     /\ status[c] = "ZOMBIE"
     /\ status' = [status EXCEPT ![c] = "FREE"]
     /\ pid'    = [pid EXCEPT ![c] = 0]
     /\ parent' = [parent EXCEPT ![c] = None]
     /\ Return(p, "wait", pid[c])
     /\ havekids' = [havekids EXCEPT ![p] = FALSE]
     /\ UNCHANGED <<nextpid, leaked, stopped>>

\* Mutations: havekids is what the last slot says; the second round never
\* begins.
WaitPassLastKid(p) ==
  LET c    == cur[p]
      kids == parent[c] = p
  IN /\ Locks(p, "wait")
     /\ ~ (kids /\ status[c] = "ZOMBIE")
     /\ \/ /\ c + 1 < NPROC
           /\ cur' = [cur EXCEPT ![p] = c + 1]
           /\ UNCHANGED <<pc, ret>>
        \/ /\ c + 1 = NPROC
           /\ kids
           /\ cur' = [cur EXCEPT ![p] = 0]
           /\ UNCHANGED <<pc, ret>>
        \/ /\ c + 1 = NPROC
           /\ ~ kids
           /\ Return(p, "wait", -1)
     /\ UNCHANGED <<status, pid, parent, nextpid, havekids, leaked, stopped>>

WaitPassOnce(p) ==
  LET c    == cur[p]
      kids == havekids[p] \/ parent[c] = p
  IN /\ Locks(p, "wait")
     /\ ~ (parent[c] = p /\ status[c] = "ZOMBIE")
     /\ havekids' = [havekids EXCEPT ![p] = kids]
     /\ \/ /\ c + 1 < NPROC
           /\ cur' = [cur EXCEPT ![p] = c + 1]
           /\ UNCHANGED <<pc, ret>>
        \/ /\ c + 1 = NPROC
           /\ kids
           /\ UNCHANGED <<pc, ret, cur>>
        \/ /\ c + 1 = NPROC
           /\ ~ kids
           /\ Return(p, "wait", -1)
     /\ UNCHANGED <<status, pid, parent, nextpid, leaked, stopped>>

\* cur[p] holds no zombie child; kids is havekids after looking at it.
WaitPass(p) ==
  LET c    == cur[p]
      kids == havekids[p] \/ parent[c] = p
  IN /\ Locks(p, "wait")
     /\ ~ (parent[c] = p /\ status[c] = "ZOMBIE")
     /\ \/ /\ c + 1 < NPROC
           /\ cur' = [cur EXCEPT ![p] = c + 1]
           /\ havekids' = [havekids EXCEPT ![p] = kids]
           /\ UNCHANGED <<pc, ret>>
        \/ /\ c + 1 = NPROC
           /\ kids
           /\ cur' = [cur EXCEPT ![p] = 0]
           /\ havekids' = [havekids EXCEPT ![p] = FALSE]
           /\ UNCHANGED <<pc, ret>>
        \/ /\ c + 1 = NPROC
           /\ ~ kids
           /\ Return(p, "wait", -1)
           /\ havekids' = [havekids EXCEPT ![p] = FALSE]
     /\ UNCHANGED <<status, pid, parent, nextpid, leaked, stopped>>

-------------------------------------------------------------------------
\* After a leak: the scheduler, or a fork or wait, comes to the slot whose lock
\* is held, and acquire panics; or a system call polls for ever with interrupts
\* off.  Sched has the steps that lead there.
Stop ==
  /\ leaked # {} /\ ~ stopped
  /\ stopped' = TRUE
  /\ UNCHANGED <<status, pid, parent, nextpid, pc, cur, havekids, ret, leaked>>

Halt == stopped /\ UNCHANGED vars

Kernel(p) == ForkSkip(p) \/ ForkFull(p) \/ ForkFound(p) \/ ForkNoPage(p)
             \/ ForkNoTable(p) \/ ForkCopyFails(p) \/ WaitReap(p) \/ WaitPass(p)

Next == \/ Stop \/ Halt
        \/ \E p \in Slots : ForkCall(p) \/ WaitCall(p) \/ Exit(p) \/ Kernel(p)

Spec == Init /\ [][Next]_vars

-------------------------------------------------------------------------
TypeOK ==
  /\ status   \in [Slots -> {"FREE", "ALLOCATED", "LIVE", "ZOMBIE"}]
  /\ pid      \in [Slots -> Nat]
  /\ parent   \in [Slots -> Slots \cup {None}]
  /\ nextpid  \in Nat
  /\ pc       \in [Slots -> {"user", "fork", "wait"}]
  /\ cur      \in [Slots -> Slots]
  /\ havekids \in [Slots -> BOOLEAN]
  /\ ret      \in [Slots -> Returns]
  /\ leaked   \in SUBSET Slots
  /\ stopped  \in BOOLEAN

\* Two processes that exist at the same time have different pids, though a
\* failed fork leaves the pid it issued in a FREE slot.
PidsUnique ==
  \A p, q \in Slots :
    /\ status[p] # "FREE" => pid[p] \in FirstPid .. nextpid
    /\ status[p] # "FREE" /\ status[q] # "FREE" /\ p # q => pid[p] # pid[q]

ParentKept ==
  \A q \in Slots :
    Exists(q) /\ Exists(q)' /\ parent[q] # None
      => /\ status'[parent[q]] # "FREE"
         /\ pid'[parent[q]] = pid[parent[q]]

\* kfork's pointer keeps designating the process that forked: a slot is not
\* freed or reused while a child's parent pointer refers to it.
ParentStays == [][ParentKept]_vars

\* A zombie is waiting for a parent that can still call wait.
ZombieHasParent ==
  \A q \in Slots :
    status[q] = "ZOMBIE"
      => parent[q] # None /\ status[parent[q]] = "LIVE"

-------------------------------------------------------------------------
\* The processes by pid: what user programs see.

Present(x) == \E p \in Slots : Exists(p) /\ pid[p] = x
SlotOf(x)  == CHOOSE p \in Slots : Exists(p) /\ pid[p] = x

Life == [x \in FirstPid .. MaxPid |->
           IF x > nextpid THEN "unborn"
           ELSE IF ~ Present(x) THEN "gone"
           ELSE IF status[SlotOf(x)] = "LIVE" THEN "live"
           ELSE "zombie"]

Mother == [x \in FirstPid .. MaxPid |->
             IF Present(x) /\ parent[SlotOf(x)] # None
             THEN pid[parent[SlotOf(x)]] ELSE 0]

Ret == [x \in FirstPid .. MaxPid |->
          IF Present(x) THEN ret[SlotOf(x)] ELSE <<"none", 0>>]

Abs == INSTANCE AbsProc WITH Pid <- FirstPid .. MaxPid, Root <- FirstPid,
                             Nobody <- 0, life <- Life, mother <- Mother,
                             ret <- Ret

\* Programs that reap their children before they exit see the tree of AbsProc.
ImplementsAbsProc == Abs!AbsSpec

=========================================================================
