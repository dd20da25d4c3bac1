--------------------------- MODULE SchedProofs --------------------------
(***************************************************************************)
(* Theorems about Sched, for every number of slots, quantum and nesting    *)
(* bound.  The inductive invariant has two layers: StateInv, which holds   *)
(* even when memory runs out, and LockInv, which needs ~ KallocMayFail     *)
(* because allocproc leaks a lock when uvmcreate fails.  The last section  *)
(* is about SchedBypass.                                                   *)
(***************************************************************************)
EXTENDS SchedBypass, SequenceTheorems, TLAPS

\* Labels at which a process holds its own lock, and the lock of cur[p].
SelfLabels == {"forkret", "yielded", "yield_locked", "exit_locked"}
ScanLabels == {"alloc_locked", "fork_locked", "wait_locked"}
TrapLabels == {"trapret", "epilogue"}

\* The hart's context, the scheduler's variables and the table agree.
OnInv ==
  /\ on # None => /\ spc = "swtched"
                  /\ scur = on
                  /\ cpuProc = on
                  /\ status[on] = "RUNNING"
  /\ on = None /\ spc # "swtched" => cpuProc = None
  /\ on = None /\ spc = "swtched" => cpuProc = scur

StatusInv ==
  \A p \in Slots :
    /\ status[p] = "RUNNING" => on = p
    /\ status[p] = "READY" => pc[p] \in {"yielded", "forkret"}

\* A fork under way owns a slot that is ready to become READY.
ForkInv ==
  \A p \in Slots :
    on = p /\ pc[p] = "fork_locked"
      => status[cur[p]] = "ALLOCATED" /\ pc[cur[p]] = "forkret"

\* The return path of a nested trap has somewhere to return to.
StackInv ==
  \A p \in Slots :
    /\ pc[p] \in TrapLabels => stack[p] # <<>>
    /\ stack[p] # <<>> => stack[p][1] \notin TrapLabels

\* The one lock that the executing code takes itself to hold, if any.
Held ==
  IF on = None
  THEN IF spc \in {"locked", "swtched"} THEN {scur} ELSE {}
  ELSE IF pc[on] \in SelfLabels THEN {on}
  ELSE IF pc[on] \in ScanLabels THEN {cur[on]}
  ELSE {}

\* Code that holds a lock runs with interrupts off, so that a process is
\* preempted only where it holds none.
OffInv == Held # {} => ~ cpu.sie

FramesInv ==
  \A p \in Slots : \A i \in 1 .. Len(stack[p]) :
    stack[p][i] \notin SelfLabels \cup ScanLabels

StateInv ==
  TypeOK /\ OnInv /\ StatusInv /\ ForkInv /\ StackInv /\ OffInv /\ FramesInv

-------------------------------------------------------------------------
\* No other lock is held, and the hart counts it once.
LockWords == \A q \in Slots : locked[q] <=> q \in Held

CpuInv == cpu.noff = IF Held = {} THEN 0 ELSE 1

LockInv == LockWords /\ CpuInv /\ NoPanic

\* With memory to spare: what acquire saved in a system call is restored.
MaskInv ==
  /\ SystemCallsInterruptible
  /\ on # None /\ pc[on] \in ScanLabels => cpu.intena

-------------------------------------------------------------------------
\* Facts about the operators of Sched and Spinlock.

LEMMA CpuTypes ==
  ASSUME NEW c \in CpuState
  PROVE  /\ PushOff(c) \in CpuState
         /\ ~ PopOffPanics(c) => PopOff(c) \in CpuState
         /\ IntrOn(c) \in CpuState
         /\ IntrOff(c) \in CpuState
<1>1. PushOff(c) \in CpuState
  BY DEF CpuState, PushOff
<1>2. ASSUME ~ PopOffPanics(c)
      PROVE  PopOff(c) \in CpuState
  <2>1. c.noff - 1 \in Nat
    BY <1>2 DEF CpuState, PopOffPanics
  <2>2. (c.noff = 1 /\ c.intena) \in BOOLEAN
    OBVIOUS
  <2>. QED  BY <2>1, <2>2 DEF CpuState, PopOff
<1>3. IntrOn(c) \in CpuState /\ IntrOff(c) \in CpuState
  BY DEF CpuState, IntrOn, IntrOff
<1>. QED  BY <1>1, <1>2, <1>3

\* A balanced pair leaves the depth alone, and interrupts on when no section
\* encloses it.
LEMMA MyProcBalanced ==
  ASSUME NEW c \in CpuState
  PROVE  /\ MyProc(c) \in CpuState
         /\ MyProc(c).noff = c.noff
         /\ MyProc(c).sie = (c.noff = 0 /\ c.sie)
<1>1. /\ c.noff + 1 - 1 = c.noff
      /\ c.noff + 1 = 1 <=> c.noff = 0
      /\ c.noff \in Nat /\ c.intena \in BOOLEAN /\ c.sie \in BOOLEAN
  BY DEF CpuState
<1>2. /\ PushOff(c) \in CpuState
      /\ PushOff(c).noff = c.noff + 1 /\ ~ PushOff(c).sie
      /\ PushOff(c).intena = IF c.noff = 0 THEN c.sie ELSE c.intena
  BY <1>1, CpuTypes DEF PushOff
<1>3. MyProc(c) \in CpuState
  <2>1. ~ PopOffPanics(PushOff(c))
    BY <1>1, <1>2 DEF PopOffPanics
  <2>. QED  BY <1>2, <2>1, CpuTypes DEF MyProc
<1>4. /\ MyProc(c).noff = c.noff + 1 - 1
      /\ MyProc(c).sie = (c.noff + 1 = 1 /\ PushOff(c).intena)
  BY <1>2 DEF MyProc, PopOff, CpuState
<1>. QED  BY <1>1, <1>2, <1>3, <1>4

LEMMA PushFrame ==
  ASSUME NEW S, NEW s \in Seq(S), NEW e \in S
  PROVE  /\ Append(s, e) \in Seq(S)
         /\ Append(s, e) # <<>>
         /\ Len(Append(s, e)) = Len(s) + 1
         /\ \A i \in 1 .. Len(s) : Append(s, e)[i] = s[i]
         /\ Append(s, e)[Len(s) + 1] = e
  OBVIOUS

LEMMA PopFrame ==
  ASSUME NEW S, NEW s \in Seq(S), s # <<>>
  PROVE  /\ s[Len(s)] \in S
         /\ SubSeq(s, 1, Len(s) - 1) \in Seq(S)
         /\ Len(SubSeq(s, 1, Len(s) - 1)) = Len(s) - 1
         /\ \A i \in 1 .. Len(s) - 1 : SubSeq(s, 1, Len(s) - 1)[i] = s[i]
<1>1. Len(s) \in Nat \ {0}
  BY EmptySeq, LenProperties
<1>2. \A i \in 1 .. Len(s) : s[i] \in S
  BY ElementOfSeq
<1>3. \A i \in 1 .. Len(s) - 1 : s[i] \in S
  BY <1>1, <1>2
<1>4. /\ SubSeq(s, 1, Len(s) - 1) \in Seq(S)
      /\ Len(SubSeq(s, 1, Len(s) - 1))
           = IF 1 <= Len(s) - 1 THEN Len(s) - 1 - 1 + 1 ELSE 0
      /\ \A i \in 1 .. Len(s) - 1 - 1 + 1 :
           SubSeq(s, 1, Len(s) - 1)[i] = s[1 + i - 1]
  <2>1. 1 \in Int /\ Len(s) - 1 \in Int
    BY <1>1
  <2>. QED  BY <2>1, <1>3, SubSeqProperties
<1>5. /\ (IF 1 <= Len(s) - 1 THEN Len(s) - 1 - 1 + 1 ELSE 0) = Len(s) - 1
      /\ Len(s) - 1 - 1 + 1 = Len(s) - 1
      /\ \A i \in 1 .. Len(s) - 1 : 1 + i - 1 = i
  BY <1>1
<1>6. Len(SubSeq(s, 1, Len(s) - 1)) = Len(s) - 1
  BY <1>4, <1>5, Zenon
<1>7. \A i \in 1 .. Len(s) - 1 : SubSeq(s, 1, Len(s) - 1)[i] = s[i]
  BY <1>4, <1>5, Zenon
<1>8. s[Len(s)] \in S
  BY <1>1, <1>2
<1>. QED  BY <1>4, <1>6, <1>7, <1>8

LEMMA SlotFacts ==
  /\ 0 \in Slots
  /\ Slots \subseteq Int
  /\ None \notin Slots
  /\ \A q \in Slots : q + 1 < NPROC => q + 1 \in Slots
BY NPROCAssumption DEF Slots, None

-------------------------------------------------------------------------
\* The frame that a nested trap returns to.

LEMMA PoppedFrame ==
  ASSUME StateInv, NEW p \in Slots, TrapSret(p)
  PROVE  /\ stack[p] # <<>>
         /\ stack[p][Len(stack[p])] \in Labels \ (SelfLabels \cup ScanLabels)
<1>1. stack[p] # <<>> /\ stack[p] \in Seq(Labels)
  BY DEF StateInv, TypeOK, StackInv, TrapLabels, TrapSret, At
<1>2. Len(stack[p]) \in 1 .. Len(stack[p])
  BY <1>1, EmptySeq
<1>. QED  BY <1>1, <1>2, PopFrame DEF StateInv, FramesInv

-------------------------------------------------------------------------
\* Types.  TrapSret pops a frame, which needs StackInv.

LEMMA TypeStep == TypeOK /\ StackInv /\ [Next]_vars => TypeOK'
<1>. SUFFICES ASSUME TypeOK, StackInv, [Next]_vars
              PROVE  TypeOK'
  OBVIOUS
<1>. USE SlotFacts, CpuTypes
<1>1. CASE SchedIntrOn
  BY <1>1 DEF TypeOK, SchedIntrOn, SchedAt, SchedLabels
<1>2. CASE SchedAcquire
  BY <1>2 DEF TypeOK, SchedAcquire, SchedAt, TakeLock, SchedLabels
<1>3. CASE SchedSkip
  BY <1>3 DEF TypeOK, SchedSkip, SchedAt, CanDrop, DropLock, NextSlot,
      SchedLabels
<1>4. CASE SchedDispatch
  BY <1>4 DEF TypeOK, SchedDispatch, SchedAt, Status, SchedLabels
<1>5. CASE SchedResume
  BY <1>5 DEF TypeOK, SchedResume, SchedAt, CanDrop, DropLock, NextSlot,
      SchedLabels
<1>6. CASE SchedPanics
  BY <1>6 DEF TypeOK, SchedPanics, Panic
<1>7. ASSUME NEW p \in Slots, Ecall(p)
      PROVE  TypeOK'
  BY <1>7 DEF TypeOK, Ecall, At, Labels, Goto
<1>8. ASSUME NEW p \in Slots, Syscall(p) \/ Body(p)
      PROVE  TypeOK'
  BY <1>8, MyProcBalanced DEF TypeOK, Syscall, Body, At, Labels, Goto
<1>9. ASSUME NEW p \in Slots, ForkRet(p)
      PROVE  TypeOK'
  BY <1>9 DEF TypeOK, ForkRet, CanDrop, DropLock, At, Labels, Goto
<1>10. ASSUME NEW p \in Slots, UserTrapRet(p)
       PROVE  TypeOK'
  BY <1>10 DEF TypeOK, UserTrapRet, At, Labels, Goto
<1>11. ASSUME NEW p \in Slots, YieldAcquire(p)
       PROVE  TypeOK'
  BY <1>11 DEF TypeOK, YieldAcquire, TakeLock, At, Labels, Goto
<1>12. ASSUME NEW p \in Slots, YieldSwtch(p)
       PROVE  TypeOK'
  BY <1>12 DEF TypeOK, YieldSwtch, Status, At, Labels, Goto
<1>13. ASSUME NEW p \in Slots, YieldRelease(p)
       PROVE  TypeOK'
  BY <1>13 DEF TypeOK, YieldRelease, CanDrop, DropLock, At, Labels, Goto
<1>14. ASSUME NEW p \in Slots, TrapRetSepc(p)
       PROVE  TypeOK'
  BY <1>14 DEF TypeOK, TrapRetSepc, At, Labels, Goto
<1>15. ASSUME NEW p \in Slots, TrapSret(p)
       PROVE  TypeOK'
  BY <1>15, PopFrame DEF TypeOK, TrapSret, StackInv, TrapLabels, At,
      Labels, Goto
<1>16. ASSUME NEW p \in Slots, TrapSretWild(p)
       PROVE  TypeOK'
  BY <1>16 DEF TypeOK, TrapSretWild
<1>17. ASSUME NEW p \in Slots, ExitAcquire(p)
       PROVE  TypeOK'
  BY <1>17 DEF TypeOK, ExitAcquire, TakeLock, At, Labels, Goto
<1>18. ASSUME NEW p \in Slots, ExitSwtch(p)
       PROVE  TypeOK'
  BY <1>18 DEF TypeOK, ExitSwtch, Status, At, Labels, Goto
<1>19. ASSUME NEW p \in Slots, AllocAcquire(p)
       PROVE  TypeOK'
  BY <1>19 DEF TypeOK, AllocAcquire, TakeLock, At, Labels, Goto
<1>20. ASSUME NEW p \in Slots, AllocSkip(p)
       PROVE  TypeOK'
  <2>1. /\ locked' \in [Slots -> BOOLEAN]
        /\ cpu' \in CpuState
    BY <1>20 DEF TypeOK, AllocSkip, CanDrop, DropLock
  <2>2. /\ pc' \in [Slots -> Labels]
        /\ cur' \in [Slots -> Slots]
    <3>1. CASE cur[p] + 1 < NPROC
      <4>1. cur[p] + 1 \in Slots
        BY <3>1 DEF TypeOK
      <4>2. /\ pc' = [pc EXCEPT ![p] = "alloc"]
            /\ cur' = [cur EXCEPT ![p] = cur[p] + 1]
        BY <1>20, <3>1 DEF AllocSkip, Goto
      <4>. QED  BY <4>1, <4>2 DEF TypeOK, Labels
    <3>2. CASE ~ (cur[p] + 1 < NPROC)
      BY <1>20, <3>2 DEF TypeOK, AllocSkip, Labels, Goto, Leave
    <3>. QED  BY <3>1, <3>2
  <2>. QED  BY <1>20, <2>1, <2>2 DEF TypeOK, AllocSkip
<1>21. ASSUME NEW p \in Slots, AllocFound(p)
       PROVE  TypeOK'
  BY <1>21 DEF TypeOK, AllocFound, Status, At, Labels
<1>22. ASSUME NEW p \in Slots, AllocNoPage(p)
       PROVE  TypeOK'
  BY <1>22 DEF TypeOK, AllocNoPage, CanDrop, DropLock, Leave, At, Labels,
      Goto
<1>23. ASSUME NEW p \in Slots, AllocNoTable(p)
       PROVE  TypeOK'
  BY <1>23 DEF TypeOK, AllocNoTable, Leave, At, Labels, Goto
<1>24. ASSUME NEW p \in Slots, ForkReady(p)
       PROVE  TypeOK'
  BY <1>24 DEF TypeOK, ForkReady, Status, CanDrop, DropLock, Leave, At,
      Labels, Goto
<1>25. ASSUME NEW p \in Slots, ForkCopyFails(p)
       PROVE  TypeOK'
  BY <1>25 DEF TypeOK, ForkCopyFails, CanDrop, DropLock, Leave, At,
      Labels, Goto
<1>26. ASSUME NEW p \in Slots, WaitAcquire(p)
       PROVE  TypeOK'
  BY <1>26 DEF TypeOK, WaitAcquire, TakeLock, At, Labels, Goto
<1>27. ASSUME NEW p \in Slots, WaitReap(p)
       PROVE  TypeOK'
  BY <1>27 DEF TypeOK, WaitReap, Status, CanDrop, DropLock, Leave, At,
      Labels, Goto
<1>28. ASSUME NEW p \in Slots, WaitSkip(p)
       PROVE  TypeOK'
  <2>1. /\ locked' \in [Slots -> BOOLEAN]
        /\ cpu' \in CpuState
    BY <1>28 DEF TypeOK, WaitSkip, CanDrop, DropLock
  <2>2. /\ pc' \in [Slots -> Labels]
        /\ cur' \in [Slots -> Slots]
    <3>1. CASE cur[p] + 1 < NPROC
      <4>1. cur[p] + 1 \in Slots
        BY <3>1 DEF TypeOK
      <4>. QED  BY <1>28, <3>1, <4>1 DEF TypeOK, WaitSkip, Labels, Goto, Leave
    <3>2. CASE ~ (cur[p] + 1 < NPROC)
      <4>1. /\ pc' = [pc EXCEPT ![p] = "wait"]
               \/ pc' = [pc EXCEPT ![p] = "usertrapret"]
            /\ cur' = [cur EXCEPT ![p] = 0]
        BY <1>28, <3>2 DEF WaitSkip, Goto, Leave
      <4>. QED  BY <4>1 DEF TypeOK, Labels
    <3>. QED  BY <3>1, <3>2
  <2>. QED  BY <1>28, <2>1, <2>2 DEF TypeOK, WaitSkip
<1>29. ASSUME NEW p \in Slots, ProcPanics(p)
       PROVE  TypeOK'
  BY <1>29 DEF TypeOK, ProcPanics, Panic
<1>30. ASSUME NEW p \in Slots, TickYield(p)
       PROVE  TypeOK'
  <2>1. stack' \in [Slots -> Seq(Labels)]
    <3>1. Append(stack[p], pc[p]) \in Seq(Labels)
      BY PushFrame DEF TypeOK
    <3>. QED  BY <1>30, <3>1 DEF TypeOK, TickYield
  <2>2. /\ pc' \in [Slots -> Labels]
        /\ times' \in 0 .. Quantum - 1
        /\ cpu' \in CpuState
    BY <1>30, QuantumAssumption DEF TypeOK, TickYield, Labels, Goto
  <2>. QED  BY <1>30, <2>1, <2>2 DEF TypeOK, TickYield
<1>31. CASE TimerFires
  BY <1>31 DEF TypeOK, TimerFires
<1>32. CASE TickQuiet
  <2>1. times' \in 0 .. Quantum - 1
    BY <1>32, QuantumAssumption DEF TypeOK, TickQuiet
  <2>. QED  BY <1>32, <2>1 DEF TypeOK, TickQuiet
<1>33. CASE DeviceIntr
  BY <1>33 DEF TypeOK, DeviceIntr
<1>34. CASE UNCHANGED vars
  BY <1>34 DEF TypeOK, vars
<1>. QED
  BY <1>1, <1>2, <1>3, <1>4, <1>5, <1>6, <1>7, <1>8, <1>9, <1>10, <1>11,
      <1>12, <1>13, <1>14, <1>15, <1>16, <1>17, <1>18, <1>19, <1>20,
      <1>21, <1>22, <1>23, <1>24, <1>25, <1>26, <1>27, <1>28, <1>29,
      <1>30, <1>31, <1>32, <1>33, <1>34 DEF Next, Scheduler, Kernel, Halt

-------------------------------------------------------------------------
\* The hart's context, the table and the forks under way.

LEMMA StateStep ==
  StateInv /\ [Next]_vars => (OnInv /\ StatusInv /\ ForkInv)'
<1>. SUFFICES ASSUME StateInv, [Next]_vars
              PROVE  (OnInv /\ StatusInv /\ ForkInv)'
  OBVIOUS
<1>. USE SlotFacts DEF StateInv
<1>1. CASE SchedIntrOn
  BY <1>1 DEF TypeOK, OnInv, StatusInv, ForkInv, SchedIntrOn, SchedAt
<1>2. CASE SchedAcquire
  BY <1>2 DEF TypeOK, OnInv, StatusInv, ForkInv, SchedAcquire, SchedAt
<1>3. CASE SchedSkip
  BY <1>3 DEF TypeOK, OnInv, StatusInv, ForkInv, SchedSkip, NextSlot,
      SchedAt
<1>4. CASE SchedDispatch
  BY <1>4 DEF TypeOK, OnInv, StatusInv, ForkInv, SchedDispatch, SchedAt
<1>5. CASE SchedResume
  BY <1>5 DEF TypeOK, OnInv, StatusInv, ForkInv, SchedResume, NextSlot,
      SchedAt
<1>6. CASE SchedPanics
  BY <1>6 DEF TypeOK, OnInv, StatusInv, ForkInv, SchedPanics, Panic
<1>7. ASSUME NEW p \in Slots, Ecall(p)
      PROVE  (OnInv /\ StatusInv /\ ForkInv)'
  BY <1>7 DEF TypeOK, OnInv, StatusInv, ForkInv, Ecall, At, Goto
<1>8. ASSUME NEW p \in Slots, Syscall(p) \/ Body(p)
      PROVE  (OnInv /\ StatusInv /\ ForkInv)'
  BY <1>8 DEF TypeOK, OnInv, StatusInv, ForkInv, Syscall, Body, At, Goto
<1>9. ASSUME NEW p \in Slots, ForkRet(p)
      PROVE  (OnInv /\ StatusInv /\ ForkInv)'
  BY <1>9 DEF TypeOK, OnInv, StatusInv, ForkInv, ForkRet, At, Goto
<1>10. ASSUME NEW p \in Slots, UserTrapRet(p)
       PROVE  (OnInv /\ StatusInv /\ ForkInv)'
  BY <1>10 DEF TypeOK, OnInv, StatusInv, ForkInv, UserTrapRet, At, Goto
<1>11. ASSUME NEW p \in Slots, YieldAcquire(p)
       PROVE  (OnInv /\ StatusInv /\ ForkInv)'
  BY <1>11 DEF TypeOK, OnInv, StatusInv, ForkInv, YieldAcquire, At, Goto
<1>12. ASSUME NEW p \in Slots, YieldSwtch(p)
       PROVE  (OnInv /\ StatusInv /\ ForkInv)'
  BY <1>12 DEF TypeOK, OnInv, StatusInv, ForkInv, YieldSwtch, At, Goto
<1>13. ASSUME NEW p \in Slots, YieldRelease(p)
       PROVE  (OnInv /\ StatusInv /\ ForkInv)'
  BY <1>13 DEF TypeOK, OnInv, StatusInv, ForkInv, YieldRelease, At, Goto
<1>14. ASSUME NEW p \in Slots, TrapRetSepc(p)
       PROVE  (OnInv /\ StatusInv /\ ForkInv)'
  BY <1>14 DEF TypeOK, OnInv, StatusInv, ForkInv, TrapRetSepc, At, Goto
<1>15. ASSUME NEW p \in Slots, TrapSret(p)
       PROVE  (OnInv /\ StatusInv /\ ForkInv)'
  <2>1. stack[p][Len(stack[p])] \notin ScanLabels
    BY <1>15, PoppedFrame
  <2>. QED
    BY <1>15, <2>1 DEF TypeOK, OnInv, StatusInv, ForkInv, TrapSret, At,
        Goto, ScanLabels
<1>16. ASSUME NEW p \in Slots, TrapSretWild(p)
       PROVE  (OnInv /\ StatusInv /\ ForkInv)'
  BY <1>16 DEF TypeOK, OnInv, StatusInv, ForkInv, TrapSretWild
<1>17. ASSUME NEW p \in Slots, ExitAcquire(p)
       PROVE  (OnInv /\ StatusInv /\ ForkInv)'
  BY <1>17 DEF TypeOK, OnInv, StatusInv, ForkInv, ExitAcquire, At, Goto
<1>18. ASSUME NEW p \in Slots, ExitSwtch(p)
       PROVE  (OnInv /\ StatusInv /\ ForkInv)'
  BY <1>18 DEF TypeOK, OnInv, StatusInv, ForkInv, ExitSwtch, At, Goto
<1>19. ASSUME NEW p \in Slots, AllocAcquire(p)
       PROVE  (OnInv /\ StatusInv /\ ForkInv)'
  BY <1>19 DEF TypeOK, OnInv, StatusInv, ForkInv, AllocAcquire, At, Goto
<1>20. ASSUME NEW p \in Slots, AllocSkip(p)
       PROVE  (OnInv /\ StatusInv /\ ForkInv)'
  BY <1>20 DEF TypeOK, OnInv, StatusInv, ForkInv, AllocSkip, At, Goto,
      Leave
<1>21. ASSUME NEW p \in Slots, AllocFound(p)
       PROVE  (OnInv /\ StatusInv /\ ForkInv)'
  BY <1>21 DEF TypeOK, OnInv, StatusInv, ForkInv, AllocFound, At
<1>22. ASSUME NEW p \in Slots, AllocNoPage(p)
       PROVE  (OnInv /\ StatusInv /\ ForkInv)'
  BY <1>22 DEF TypeOK, OnInv, StatusInv, ForkInv, AllocNoPage, At, Goto,
      Leave
<1>23. ASSUME NEW p \in Slots, AllocNoTable(p)
       PROVE  (OnInv /\ StatusInv /\ ForkInv)'
  BY <1>23 DEF TypeOK, OnInv, StatusInv, ForkInv, AllocNoTable, At, Goto,
      Leave
<1>24. ASSUME NEW p \in Slots, ForkReady(p)
       PROVE  (OnInv /\ StatusInv /\ ForkInv)'
  BY <1>24 DEF TypeOK, OnInv, StatusInv, ForkInv, ForkReady, At, Goto,
      Leave
<1>25. ASSUME NEW p \in Slots, ForkCopyFails(p)
       PROVE  (OnInv /\ StatusInv /\ ForkInv)'
  BY <1>25 DEF TypeOK, OnInv, StatusInv, ForkInv, ForkCopyFails, At,
      Goto, Leave
<1>26. ASSUME NEW p \in Slots, WaitAcquire(p)
       PROVE  (OnInv /\ StatusInv /\ ForkInv)'
  BY <1>26 DEF TypeOK, OnInv, StatusInv, ForkInv, WaitAcquire, At, Goto
<1>27. ASSUME NEW p \in Slots, WaitReap(p)
       PROVE  (OnInv /\ StatusInv /\ ForkInv)'
  BY <1>27 DEF TypeOK, OnInv, StatusInv, ForkInv, WaitReap, At, Goto,
      Leave
<1>28. ASSUME NEW p \in Slots, WaitSkip(p)
       PROVE  (OnInv /\ StatusInv /\ ForkInv)'
  BY <1>28 DEF TypeOK, OnInv, StatusInv, ForkInv, WaitSkip, At, Goto,
      Leave
<1>29. ASSUME NEW p \in Slots, ProcPanics(p)
       PROVE  (OnInv /\ StatusInv /\ ForkInv)'
  BY <1>29 DEF TypeOK, OnInv, StatusInv, ForkInv, ProcPanics, Panic
<1>30. ASSUME NEW p \in Slots, TickYield(p)
       PROVE  (OnInv /\ StatusInv /\ ForkInv)'
  BY <1>30 DEF TypeOK, OnInv, StatusInv, ForkInv, TickYield, Goto
<1>31. CASE TimerFires
  BY <1>31 DEF TypeOK, OnInv, StatusInv, ForkInv, TimerFires
<1>32. CASE TickQuiet
  BY <1>32 DEF TypeOK, OnInv, StatusInv, ForkInv, TickQuiet
<1>33. CASE DeviceIntr
  BY <1>33 DEF TypeOK, OnInv, StatusInv, ForkInv, DeviceIntr
<1>34. CASE UNCHANGED vars
  BY <1>34 DEF OnInv, StatusInv, ForkInv, vars
<1>. QED
  BY <1>1, <1>2, <1>3, <1>4, <1>5, <1>6, <1>7, <1>8, <1>9, <1>10, <1>11,
      <1>12, <1>13, <1>14, <1>15, <1>16, <1>17, <1>18, <1>19, <1>20,
      <1>21, <1>22, <1>23, <1>24, <1>25, <1>26, <1>27, <1>28, <1>29,
      <1>30, <1>31, <1>32, <1>33, <1>34 DEF Next, Scheduler, Kernel, Halt

-------------------------------------------------------------------------
\* Interrupts are off in the code that holds a lock.

LEMMA OffStep == StateInv /\ [Next]_vars => OffInv'
<1>. SUFFICES ASSUME StateInv, [Next]_vars
              PROVE  OffInv'
  OBVIOUS
<1>. USE SlotFacts DEF StateInv
<1>1. CASE SchedIntrOn
  BY <1>1 DEF TypeOK, OffInv, Held, OnInv, SelfLabels, ScanLabels,
      SchedIntrOn, SchedAt, IntrOn, IntrOff
<1>2. CASE SchedAcquire
  BY <1>2 DEF TypeOK, OffInv, Held, OnInv, SelfLabels, ScanLabels,
      SchedAcquire, SchedAt, TakeLock, PushOff
<1>3. CASE SchedSkip
  BY <1>3 DEF TypeOK, OffInv, Held, OnInv, SelfLabels, ScanLabels,
      SchedSkip, NextSlot, SchedAt
<1>4. CASE SchedDispatch
  BY <1>4 DEF TypeOK, OffInv, Held, OnInv, SelfLabels, ScanLabels,
      SchedDispatch, SchedAt
<1>5. CASE SchedResume
  BY <1>5 DEF TypeOK, OffInv, Held, OnInv, SelfLabels, ScanLabels,
      SchedResume, NextSlot, SchedAt
<1>6. CASE SchedPanics
  BY <1>6 DEF TypeOK, OffInv, Held, OnInv, SelfLabels, ScanLabels,
      SchedPanics, Panic
<1>7. ASSUME NEW p \in Slots, Ecall(p)
      PROVE  OffInv'
  BY <1>7 DEF TypeOK, OffInv, Held, OnInv, SelfLabels, ScanLabels, Ecall,
      At, Goto, IntrOn, IntrOff
<1>8. ASSUME NEW p \in Slots, Syscall(p) \/ Body(p)
      PROVE  OffInv'
  BY <1>8 DEF TypeOK, OffInv, Held, OnInv, SelfLabels, ScanLabels,
      Syscall, Body, At, Goto
<1>9. ASSUME NEW p \in Slots, ForkRet(p)
      PROVE  OffInv'
  BY <1>9 DEF TypeOK, OffInv, Held, OnInv, SelfLabels, ScanLabels,
      ForkRet, At, Goto
<1>10. ASSUME NEW p \in Slots, UserTrapRet(p)
       PROVE  OffInv'
  BY <1>10 DEF TypeOK, OffInv, Held, OnInv, SelfLabels, ScanLabels,
      UserTrapRet, At, Goto, IntrOn, IntrOff
<1>11. ASSUME NEW p \in Slots, YieldAcquire(p)
       PROVE  OffInv'
  BY <1>11 DEF TypeOK, OffInv, Held, OnInv, SelfLabels, ScanLabels,
      YieldAcquire, At, Goto, TakeLock, PushOff
<1>12. ASSUME NEW p \in Slots, YieldSwtch(p)
       PROVE  OffInv'
  BY <1>12 DEF TypeOK, OffInv, Held, OnInv, SelfLabels, ScanLabels,
      YieldSwtch, At, Goto
<1>13. ASSUME NEW p \in Slots, YieldRelease(p)
       PROVE  OffInv'
  BY <1>13 DEF TypeOK, OffInv, Held, OnInv, SelfLabels, ScanLabels,
      YieldRelease, At, Goto
<1>14. ASSUME NEW p \in Slots, TrapRetSepc(p)
       PROVE  OffInv'
  BY <1>14 DEF TypeOK, OffInv, Held, OnInv, SelfLabels, ScanLabels,
      TrapRetSepc, At, Goto
<1>15. ASSUME NEW p \in Slots, TrapSret(p)
       PROVE  OffInv'
  <2>1. Held' = {}
    BY <1>15, PoppedFrame DEF TypeOK, Held, TrapSret, At, Goto
  <2>. QED  BY <2>1 DEF OffInv
<1>16. ASSUME NEW p \in Slots, TrapSretWild(p)
       PROVE  OffInv'
  BY <1>16 DEF TypeOK, OffInv, Held, OnInv, SelfLabels, ScanLabels,
      TrapSretWild
<1>17. ASSUME NEW p \in Slots, ExitAcquire(p)
       PROVE  OffInv'
  BY <1>17 DEF TypeOK, OffInv, Held, OnInv, SelfLabels, ScanLabels,
      ExitAcquire, At, Goto, TakeLock, PushOff
<1>18. ASSUME NEW p \in Slots, ExitSwtch(p)
       PROVE  OffInv'
  BY <1>18 DEF TypeOK, OffInv, Held, OnInv, SelfLabels, ScanLabels,
      ExitSwtch, At, Goto
<1>19. ASSUME NEW p \in Slots, AllocAcquire(p)
       PROVE  OffInv'
  BY <1>19 DEF TypeOK, OffInv, Held, OnInv, SelfLabels, ScanLabels,
      AllocAcquire, At, Goto, TakeLock, PushOff
<1>20. ASSUME NEW p \in Slots, AllocSkip(p)
       PROVE  OffInv'
  BY <1>20 DEF TypeOK, OffInv, Held, OnInv, SelfLabels, ScanLabels,
      AllocSkip, At, Goto, Leave
<1>21. ASSUME NEW p \in Slots, AllocFound(p)
       PROVE  OffInv'
  BY <1>21 DEF TypeOK, OffInv, Held, OnInv, SelfLabels, ScanLabels,
      AllocFound, At
<1>22. ASSUME NEW p \in Slots, AllocNoPage(p)
       PROVE  OffInv'
  BY <1>22 DEF TypeOK, OffInv, Held, OnInv, SelfLabels, ScanLabels,
      AllocNoPage, At, Goto, Leave
<1>23. ASSUME NEW p \in Slots, AllocNoTable(p)
       PROVE  OffInv'
  BY <1>23 DEF TypeOK, OffInv, Held, OnInv, SelfLabels, ScanLabels,
      AllocNoTable, At, Goto, Leave
<1>24. ASSUME NEW p \in Slots, ForkReady(p)
       PROVE  OffInv'
  BY <1>24 DEF TypeOK, OffInv, Held, OnInv, SelfLabels, ScanLabels,
      ForkReady, At, Goto, Leave
<1>25. ASSUME NEW p \in Slots, ForkCopyFails(p)
       PROVE  OffInv'
  BY <1>25 DEF TypeOK, OffInv, Held, OnInv, SelfLabels, ScanLabels,
      ForkCopyFails, At, Goto, Leave
<1>26. ASSUME NEW p \in Slots, WaitAcquire(p)
       PROVE  OffInv'
  BY <1>26 DEF TypeOK, OffInv, Held, OnInv, SelfLabels, ScanLabels,
      WaitAcquire, At, Goto, TakeLock, PushOff
<1>27. ASSUME NEW p \in Slots, WaitReap(p)
       PROVE  OffInv'
  BY <1>27 DEF TypeOK, OffInv, Held, OnInv, SelfLabels, ScanLabels,
      WaitReap, At, Goto, Leave
<1>28. ASSUME NEW p \in Slots, WaitSkip(p)
       PROVE  OffInv'
  BY <1>28 DEF TypeOK, OffInv, Held, OnInv, SelfLabels, ScanLabels,
      WaitSkip, At, Goto, Leave
<1>29. ASSUME NEW p \in Slots, ProcPanics(p)
       PROVE  OffInv'
  BY <1>29 DEF TypeOK, OffInv, Held, OnInv, SelfLabels, ScanLabels,
      ProcPanics, Panic
<1>30. ASSUME NEW p \in Slots, TickYield(p)
       PROVE  OffInv'
  BY <1>30 DEF TypeOK, OffInv, Held, OnInv, SelfLabels, ScanLabels,
      TickYield, Goto, IntrOff
<1>31. CASE TimerFires
  BY <1>31 DEF TypeOK, OffInv, Held, OnInv, SelfLabels, ScanLabels,
      TimerFires
<1>32. CASE TickQuiet
  BY <1>32 DEF TypeOK, OffInv, Held, OnInv, SelfLabels, ScanLabels,
      TickQuiet
<1>33. CASE DeviceIntr
  BY <1>33 DEF TypeOK, OffInv, Held, OnInv, SelfLabels, ScanLabels,
      DeviceIntr
<1>34. CASE UNCHANGED vars
  BY <1>34 DEF OffInv, Held, vars
<1>. QED
  BY <1>1, <1>2, <1>3, <1>4, <1>5, <1>6, <1>7, <1>8, <1>9, <1>10, <1>11,
      <1>12, <1>13, <1>14, <1>15, <1>16, <1>17, <1>18, <1>19, <1>20,
      <1>21, <1>22, <1>23, <1>24, <1>25, <1>26, <1>27, <1>28, <1>29,
      <1>30, <1>31, <1>32, <1>33, <1>34 DEF Next, Scheduler, Kernel, Halt

-------------------------------------------------------------------------
\* The frames of preempted kernel code.

LEMMA StackStep == StateInv /\ [Next]_vars => (StackInv /\ FramesInv)'
<1>. SUFFICES ASSUME StateInv, [Next]_vars
              PROVE  (StackInv /\ FramesInv)'
  OBVIOUS
<1>. USE SlotFacts DEF StateInv
<1>1. CASE SchedIntrOn
  BY <1>1 DEF TypeOK, StackInv, FramesInv, TrapLabels, SchedIntrOn,
      SchedAt
<1>2. CASE SchedAcquire
  BY <1>2 DEF TypeOK, StackInv, FramesInv, TrapLabels, SchedAcquire,
      SchedAt
<1>3. CASE SchedSkip
  BY <1>3 DEF TypeOK, StackInv, FramesInv, TrapLabels, SchedSkip,
      NextSlot, SchedAt
<1>4. CASE SchedDispatch
  BY <1>4 DEF TypeOK, StackInv, FramesInv, TrapLabels, SchedDispatch,
      SchedAt
<1>5. CASE SchedResume
  BY <1>5 DEF TypeOK, StackInv, FramesInv, TrapLabels, SchedResume,
      NextSlot, SchedAt
<1>6. CASE SchedPanics
  BY <1>6 DEF TypeOK, StackInv, FramesInv, TrapLabels, SchedPanics, Panic
<1>7. ASSUME NEW p \in Slots, Ecall(p)
      PROVE  (StackInv /\ FramesInv)'
  BY <1>7 DEF TypeOK, StackInv, FramesInv, TrapLabels, Ecall, At, Goto
<1>8. ASSUME NEW p \in Slots, Syscall(p) \/ Body(p)
      PROVE  (StackInv /\ FramesInv)'
  BY <1>8 DEF TypeOK, StackInv, FramesInv, TrapLabels, Syscall, Body, At,
      Goto
<1>9. ASSUME NEW p \in Slots, ForkRet(p)
      PROVE  (StackInv /\ FramesInv)'
  BY <1>9 DEF TypeOK, StackInv, FramesInv, TrapLabels, ForkRet, At, Goto
<1>10. ASSUME NEW p \in Slots, UserTrapRet(p)
       PROVE  (StackInv /\ FramesInv)'
  BY <1>10 DEF TypeOK, StackInv, FramesInv, TrapLabels, UserTrapRet, At,
      Goto
<1>11. ASSUME NEW p \in Slots, YieldAcquire(p)
       PROVE  (StackInv /\ FramesInv)'
  BY <1>11 DEF TypeOK, StackInv, FramesInv, TrapLabels, YieldAcquire, At,
      Goto
<1>12. ASSUME NEW p \in Slots, YieldSwtch(p)
       PROVE  (StackInv /\ FramesInv)'
  BY <1>12 DEF TypeOK, StackInv, FramesInv, TrapLabels, YieldSwtch, At,
      Goto
<1>13. ASSUME NEW p \in Slots, YieldRelease(p)
       PROVE  (StackInv /\ FramesInv)'
  BY <1>13 DEF TypeOK, StackInv, FramesInv, TrapLabels, YieldRelease, At,
      Goto
<1>14. ASSUME NEW p \in Slots, TrapRetSepc(p)
       PROVE  (StackInv /\ FramesInv)'
  BY <1>14 DEF TypeOK, StackInv, FramesInv, TrapLabels, TrapRetSepc, At,
      Goto
<1>15. ASSUME NEW p \in Slots, TrapSret(p)
       PROVE  (StackInv /\ FramesInv)'
  <2>1. /\ stack[p] \in Seq(Labels) /\ stack[p] # <<>>
        /\ stack[p][1] \notin TrapLabels
        /\ pc' = [pc EXCEPT ![p] = stack[p][Len(stack[p])]]
        /\ stack' = [stack EXCEPT ![p] = SubSeq(stack[p], 1, Len(stack[p]) - 1)]
    BY <1>15, PoppedFrame DEF TypeOK, StackInv, TrapSret, Goto
  <2>2. \A q \in Slots : q # p => pc'[q] = pc[q] /\ stack'[q] = stack[q]
    BY <2>1 DEF TypeOK
  <2>3. /\ Len(stack'[p]) = Len(stack[p]) - 1
        /\ \A i \in 1 .. Len(stack'[p]) : stack'[p][i] = stack[p][i]
        /\ pc'[p] = stack[p][Len(stack[p])]
        /\ Len(stack[p]) \in Nat \ {0}
    BY <2>1, PopFrame, EmptySeq DEF TypeOK
  <2>4. Len(stack'[p]) = 0 => pc'[p] \notin TrapLabels
    BY <2>1, <2>3
  <2>5. stack'[p] # <<>> => Len(stack'[p]) > 0
    BY <2>1, <2>3, PopFrame, EmptySeq DEF TypeOK
  <2>6. stack'[p] # <<>> => stack'[p][1] \notin TrapLabels
    BY <2>1, <2>3, <2>5
  <2>7. Len(<<>>) = 0
    OBVIOUS
  <2>8. StackInv'
    BY <2>2, <2>4, <2>6, <2>7 DEF StackInv
  <2>9. \A i \in 1 .. Len(stack'[p]) : i \in 1 .. Len(stack[p])
    BY <2>3
  <2>10. FramesInv'
    BY <2>2, <2>3, <2>9 DEF FramesInv
  <2>. QED  BY <2>8, <2>10
<1>16. ASSUME NEW p \in Slots, TrapSretWild(p)
       PROVE  (StackInv /\ FramesInv)'
  BY <1>16 DEF TypeOK, StackInv, FramesInv, TrapLabels, TrapSretWild
<1>17. ASSUME NEW p \in Slots, ExitAcquire(p)
       PROVE  (StackInv /\ FramesInv)'
  BY <1>17 DEF TypeOK, StackInv, FramesInv, TrapLabels, ExitAcquire, At,
      Goto
<1>18. ASSUME NEW p \in Slots, ExitSwtch(p)
       PROVE  (StackInv /\ FramesInv)'
  BY <1>18 DEF TypeOK, StackInv, FramesInv, TrapLabels, ExitSwtch, At,
      Goto
<1>19. ASSUME NEW p \in Slots, AllocAcquire(p)
       PROVE  (StackInv /\ FramesInv)'
  BY <1>19 DEF TypeOK, StackInv, FramesInv, TrapLabels, AllocAcquire, At,
      Goto
<1>20. ASSUME NEW p \in Slots, AllocSkip(p)
       PROVE  (StackInv /\ FramesInv)'
  BY <1>20 DEF TypeOK, StackInv, FramesInv, TrapLabels, AllocSkip, At,
      Goto, Leave
<1>21. ASSUME NEW p \in Slots, AllocFound(p)
       PROVE  (StackInv /\ FramesInv)'
  BY <1>21 DEF TypeOK, StackInv, FramesInv, TrapLabels, AllocFound, At
<1>22. ASSUME NEW p \in Slots, AllocNoPage(p)
       PROVE  (StackInv /\ FramesInv)'
  BY <1>22 DEF TypeOK, StackInv, FramesInv, TrapLabels, AllocNoPage, At,
      Goto, Leave
<1>23. ASSUME NEW p \in Slots, AllocNoTable(p)
       PROVE  (StackInv /\ FramesInv)'
  BY <1>23 DEF TypeOK, StackInv, FramesInv, TrapLabels, AllocNoTable, At,
      Goto, Leave
<1>24. ASSUME NEW p \in Slots, ForkReady(p)
       PROVE  (StackInv /\ FramesInv)'
  BY <1>24 DEF TypeOK, StackInv, FramesInv, TrapLabels, ForkReady, At,
      Goto, Leave
<1>25. ASSUME NEW p \in Slots, ForkCopyFails(p)
       PROVE  (StackInv /\ FramesInv)'
  BY <1>25 DEF TypeOK, StackInv, FramesInv, TrapLabels, ForkCopyFails,
      At, Goto, Leave
<1>26. ASSUME NEW p \in Slots, WaitAcquire(p)
       PROVE  (StackInv /\ FramesInv)'
  BY <1>26 DEF TypeOK, StackInv, FramesInv, TrapLabels, WaitAcquire, At,
      Goto
<1>27. ASSUME NEW p \in Slots, WaitReap(p)
       PROVE  (StackInv /\ FramesInv)'
  BY <1>27 DEF TypeOK, StackInv, FramesInv, TrapLabels, WaitReap, At,
      Goto, Leave
<1>28. ASSUME NEW p \in Slots, WaitSkip(p)
       PROVE  (StackInv /\ FramesInv)'
  BY <1>28 DEF TypeOK, StackInv, FramesInv, TrapLabels, WaitSkip, At,
      Goto, Leave
<1>29. ASSUME NEW p \in Slots, ProcPanics(p)
       PROVE  (StackInv /\ FramesInv)'
  BY <1>29 DEF TypeOK, StackInv, FramesInv, TrapLabels, ProcPanics, Panic
<1>30. ASSUME NEW p \in Slots, TickYield(p)
       PROVE  (StackInv /\ FramesInv)'
  <2>1. /\ pc' = [pc EXCEPT ![p] = "yield"]
        /\ Held = {} /\ on = p
    BY <1>30 DEF TickYield, Goto, OffInv, CanInterrupt
  <2>2. pc[p] \in Labels \ (SelfLabels \cup ScanLabels)
    BY <2>1 DEF TypeOK, Held
  <2>3. CASE UNCHANGED stack
    BY <2>1, <2>3 DEF TypeOK, StackInv, FramesInv, TrapLabels
  <2>4. CASE stack' = [stack EXCEPT ![p] = Append(stack[p], pc[p])]
    <3>1. \A q \in Slots : q # p => pc'[q] = pc[q] /\ stack'[q] = stack[q]
      BY <2>1, <2>4 DEF TypeOK
    <3>2. /\ stack[p] \in Seq(Labels)
          /\ stack'[p] = Append(stack[p], pc[p])
          /\ pc'[p] = "yield"
      BY <2>1, <2>4 DEF TypeOK
    <3>3. /\ Len(stack'[p]) = Len(stack[p]) + 1
          /\ \A i \in 1 .. Len(stack[p]) : stack'[p][i] = stack[p][i]
          /\ stack'[p][Len(stack[p]) + 1] = pc[p]
          /\ Len(stack[p]) \in Nat
      BY <3>2, <2>2, PushFrame, LenProperties
    <3>4. stack'[p][1] \notin TrapLabels
      <4>1. CASE stack[p] = <<>>
        BY <4>1, <3>3 DEF StackInv
      <4>2. CASE stack[p] # <<>>
        BY <4>2, <3>2, <3>3, EmptySeq DEF StackInv
      <4>. QED  BY <4>1, <4>2
    <3>5. StackInv'
      BY <3>1, <3>2, <3>4 DEF StackInv, TrapLabels
    <3>6. \A i \in 1 .. Len(stack'[p]) :
             i \in 1 .. Len(stack[p]) \/ i = Len(stack[p]) + 1
      BY <3>3
    <3>7. FramesInv'
      BY <2>2, <3>1, <3>3, <3>6 DEF FramesInv
    <3>. QED  BY <3>5, <3>7
  <2>. QED  BY <1>30, <2>3, <2>4 DEF TickYield
<1>31. CASE TimerFires
  BY <1>31 DEF TypeOK, StackInv, FramesInv, TrapLabels, TimerFires
<1>32. CASE TickQuiet
  BY <1>32 DEF TypeOK, StackInv, FramesInv, TrapLabels, TickQuiet
<1>33. CASE DeviceIntr
  BY <1>33 DEF TypeOK, StackInv, FramesInv, TrapLabels, DeviceIntr
<1>34. CASE UNCHANGED vars
  BY <1>34 DEF StackInv, FramesInv, vars
<1>. QED
  BY <1>1, <1>2, <1>3, <1>4, <1>5, <1>6, <1>7, <1>8, <1>9, <1>10, <1>11,
      <1>12, <1>13, <1>14, <1>15, <1>16, <1>17, <1>18, <1>19, <1>20,
      <1>21, <1>22, <1>23, <1>24, <1>25, <1>26, <1>27, <1>28, <1>29,
      <1>30, <1>31, <1>32, <1>33, <1>34 DEF Next, Scheduler, Kernel, Halt

-------------------------------------------------------------------------
\* With memory to spare, lock words and nesting count follow Held: a step
\* keeps what is held, takes one lock when none is held, or drops it.

LEMMA LockKept ==
  ASSUME LockInv, Held' = Held, locked' = locked, cpu'.noff = cpu.noff,
         crash' # "panic"
  PROVE  LockInv'
BY DEF LockInv, LockWords, CpuInv, NoPanic

LEMMA LockTaken ==
  ASSUME StateInv, LockInv, NEW q \in Slots, Held = {}, Held' = {q},
         TakeLock(q), crash' = crash
  PROVE  LockInv'
<1>1. cpu.noff = 0 /\ cpu'.noff = 1
  BY DEF LockInv, CpuInv, TakeLock, PushOff, StateInv, TypeOK, CpuState
<1>2. LockWords'
  BY DEF LockInv, LockWords, TakeLock, StateInv, TypeOK
<1>. QED  BY <1>1, <1>2 DEF LockInv, CpuInv, NoPanic

LEMMA LockDropped ==
  ASSUME StateInv, LockInv, NEW q \in Slots, Held = {q}, Held' = {},
         DropLock(q), crash' = crash
  PROVE  LockInv'
<1>1. cpu.noff = 1
  BY DEF LockInv, CpuInv
<1>2. cpu'.noff = 0
  BY <1>1 DEF DropLock, PopOff, StateInv, TypeOK, CpuState
<1>3. LockWords'
  BY DEF LockInv, LockWords, DropLock, StateInv, TypeOK
<1>. QED  BY <1>2, <1>3 DEF LockInv, CpuInv, NoPanic

\* What is held can be dropped, and nothing else is in the way of acquire.
LEMMA LockReady ==
  ASSUME StateInv, LockInv
  PROVE  /\ \A q \in Slots : Held = {q} => CanDrop(q)
         /\ \A q \in Slots : Held = {} => CanTake(q)
<1>1. ASSUME NEW q \in Slots, Held = {q}
      PROVE  CanDrop(q)
  <2>1. locked[q] /\ cpu.noff = 1 /\ ~ cpu.sie
    BY <1>1 DEF LockInv, LockWords, CpuInv, StateInv, OffInv
  <2>. QED  BY <2>1 DEF CanDrop, PopOffPanics
<1>2. ASSUME NEW q \in Slots, Held = {}
      PROVE  CanTake(q)
  BY <1>2 DEF LockInv, LockWords, CanTake
<1>. QED  BY <1>1, <1>2

LEMMA LockStep ==
  ASSUME ~ KallocMayFail
  PROVE  StateInv /\ LockInv /\ [Next]_vars => LockInv'
<1>. SUFFICES ASSUME StateInv, LockInv, [Next]_vars
              PROVE  LockInv'
  OBVIOUS
<1>. USE SlotFacts
<1>. USE DEF Held, SelfLabels, ScanLabels
<1>0. NoPanic
  BY DEF LockInv
<1>1. CASE SchedIntrOn
  <2>1. Held' = Held /\ locked' = locked /\ cpu'.noff = cpu.noff
    BY <1>1 DEF StateInv, TypeOK, OnInv, SchedIntrOn, SchedAt, IntrOn,
        IntrOff, CpuState
  <2>2. crash' # "panic"
    BY <1>1, <1>0 DEF NoPanic, SchedIntrOn
  <2>. QED  BY <2>1, <2>2, LockKept
<1>2. CASE SchedAcquire
  <2>1. /\ Held = {} /\ Held' = {scur}
        /\ TakeLock(scur) /\ scur \in Slots /\ crash' = crash
    BY <1>2 DEF StateInv, TypeOK, OnInv, SchedAcquire, SchedAt
  <2>. QED  BY <2>1, LockTaken
<1>3. CASE SchedSkip
  <2>1. /\ Held = {scur} /\ Held' = {}
        /\ DropLock(scur) /\ scur \in Slots /\ crash' = crash
    BY <1>3 DEF StateInv, TypeOK, OnInv, SchedSkip, NextSlot, SchedAt
  <2>. QED  BY <2>1, LockDropped
<1>4. CASE SchedDispatch
  <2>1. Held' = Held /\ locked' = locked /\ cpu'.noff = cpu.noff
    BY <1>4 DEF StateInv, TypeOK, OnInv, StatusInv, SchedDispatch, SchedAt
  <2>2. crash' # "panic"
    BY <1>4, <1>0 DEF NoPanic, SchedDispatch
  <2>. QED  BY <2>1, <2>2, LockKept
<1>5. CASE SchedResume
  <2>1. /\ Held = {scur} /\ Held' = {}
        /\ DropLock(scur) /\ scur \in Slots /\ crash' = crash
    BY <1>5 DEF StateInv, TypeOK, OnInv, SchedResume, NextSlot, SchedAt
  <2>. QED  BY <2>1, LockDropped
<1>6. CASE SchedPanics
  <2>. QED
    BY <1>6, LockReady DEF StateInv, TypeOK, OnInv, SchedPanics, SchedAt
<1>7. ASSUME NEW p \in Slots, Ecall(p)
      PROVE  LockInv'
  <2>1. Held' = Held /\ locked' = locked /\ cpu'.noff = cpu.noff
    BY <1>7 DEF StateInv, TypeOK, OnInv, Ecall, At, Goto, IntrOn,
        IntrOff, CpuState
  <2>2. crash' # "panic"
    BY <1>7, <1>0 DEF NoPanic, Ecall
  <2>. QED  BY <2>1, <2>2, LockKept
<1>8. ASSUME NEW p \in Slots, Syscall(p) \/ Body(p)
      PROVE  LockInv'
  <2>1. cpu'.noff = cpu.noff
    BY <1>8, MyProcBalanced DEF StateInv, TypeOK, Syscall, Body
  <2>2. Held' = Held /\ locked' = locked
    BY <1>8 DEF StateInv, TypeOK, OnInv, Syscall, Body, At, Goto
  <2>3. crash' # "panic"
    BY <1>8, <1>0 DEF NoPanic, Syscall, Body
  <2>. QED  BY <2>1, <2>2, <2>3, LockKept
<1>9. ASSUME NEW p \in Slots, ForkRet(p)
      PROVE  LockInv'
  <2>1. /\ Held = {p} /\ Held' = {}
        /\ DropLock(p) /\ p \in Slots /\ crash' = crash
    BY <1>9 DEF StateInv, TypeOK, OnInv, ForkRet, At, Goto
  <2>. QED  BY <2>1, LockDropped
<1>10. ASSUME NEW p \in Slots, UserTrapRet(p)
       PROVE  LockInv'
  <2>1. Held' = Held /\ locked' = locked /\ cpu'.noff = cpu.noff
    BY <1>10 DEF StateInv, TypeOK, OnInv, UserTrapRet, At, Goto, IntrOn,
        IntrOff, CpuState
  <2>2. crash' # "panic"
    BY <1>10, <1>0 DEF NoPanic, UserTrapRet
  <2>. QED  BY <2>1, <2>2, LockKept
<1>11. ASSUME NEW p \in Slots, YieldAcquire(p)
       PROVE  LockInv'
  <2>1. /\ Held = {} /\ Held' = {p}
        /\ TakeLock(p) /\ p \in Slots /\ crash' = crash
    BY <1>11 DEF StateInv, TypeOK, OnInv, YieldAcquire, At, Goto
  <2>. QED  BY <2>1, LockTaken
<1>12. ASSUME NEW p \in Slots, YieldSwtch(p)
       PROVE  LockInv'
  <2>1. Held' = Held /\ locked' = locked /\ cpu'.noff = cpu.noff
    BY <1>12 DEF StateInv, TypeOK, OnInv, YieldSwtch, At, Goto
  <2>2. crash' # "panic"
    BY <1>12, <1>0 DEF NoPanic, YieldSwtch
  <2>. QED  BY <2>1, <2>2, LockKept
<1>13. ASSUME NEW p \in Slots, YieldRelease(p)
       PROVE  LockInv'
  <2>1. /\ Held = {p} /\ Held' = {}
        /\ DropLock(p) /\ p \in Slots /\ crash' = crash
    BY <1>13 DEF StateInv, TypeOK, OnInv, YieldRelease, At, Goto
  <2>. QED  BY <2>1, LockDropped
<1>14. ASSUME NEW p \in Slots, TrapRetSepc(p)
       PROVE  LockInv'
  <2>1. Held' = Held /\ locked' = locked /\ cpu'.noff = cpu.noff
    BY <1>14 DEF StateInv, TypeOK, OnInv, TrapRetSepc, At, Goto
  <2>2. crash' # "panic"
    BY <1>14, <1>0 DEF NoPanic, TrapRetSepc
  <2>. QED  BY <2>1, <2>2, LockKept
<1>15. ASSUME NEW p \in Slots, TrapSret(p)
       PROVE  LockInv'
  <2>1. Held' = Held /\ locked' = locked /\ cpu'.noff = cpu.noff
    BY <1>15, PoppedFrame DEF StateInv, TypeOK, OnInv, TrapSret, At,
        Goto, IntrOn, IntrOff, CpuState
  <2>2. crash' # "panic"
    BY <1>15, <1>0 DEF NoPanic, TrapSret
  <2>. QED  BY <2>1, <2>2, LockKept
<1>16. ASSUME NEW p \in Slots, TrapSretWild(p)
       PROVE  LockInv'
  <2>1. Held' = Held /\ locked' = locked /\ cpu'.noff = cpu.noff
    BY <1>16 DEF StateInv, TypeOK, OnInv, TrapSretWild
  <2>2. crash' # "panic"
    BY <1>16, <1>0 DEF NoPanic, TrapSretWild
  <2>. QED  BY <2>1, <2>2, LockKept
<1>17. ASSUME NEW p \in Slots, ExitAcquire(p)
       PROVE  LockInv'
  <2>1. /\ Held = {} /\ Held' = {p}
        /\ TakeLock(p) /\ p \in Slots /\ crash' = crash
    BY <1>17 DEF StateInv, TypeOK, OnInv, ExitAcquire, At, Goto
  <2>. QED  BY <2>1, LockTaken
<1>18. ASSUME NEW p \in Slots, ExitSwtch(p)
       PROVE  LockInv'
  <2>1. Held' = Held /\ locked' = locked /\ cpu'.noff = cpu.noff
    BY <1>18 DEF StateInv, TypeOK, OnInv, ExitSwtch, At, Goto
  <2>2. crash' # "panic"
    BY <1>18, <1>0 DEF NoPanic, ExitSwtch
  <2>. QED  BY <2>1, <2>2, LockKept
<1>19. ASSUME NEW p \in Slots, AllocAcquire(p)
       PROVE  LockInv'
  <2>1. /\ Held = {} /\ Held' = {cur[p]}
        /\ TakeLock(cur[p]) /\ cur[p] \in Slots /\ crash' = crash
    BY <1>19 DEF StateInv, TypeOK, OnInv, AllocAcquire, At, Goto
  <2>. QED  BY <2>1, LockTaken
<1>20. ASSUME NEW p \in Slots, AllocSkip(p)
       PROVE  LockInv'
  <2>1. /\ Held = {cur[p]} /\ Held' = {}
        /\ DropLock(cur[p]) /\ cur[p] \in Slots /\ crash' = crash
    BY <1>20 DEF StateInv, TypeOK, OnInv, AllocSkip, At, Goto, Leave
  <2>. QED  BY <2>1, LockDropped
<1>21. ASSUME NEW p \in Slots, AllocFound(p)
       PROVE  LockInv'
  <2>1. Held' = Held /\ locked' = locked /\ cpu'.noff = cpu.noff
    BY <1>21 DEF StateInv, TypeOK, OnInv, AllocFound, At
  <2>2. crash' # "panic"
    BY <1>21, <1>0 DEF NoPanic, AllocFound
  <2>. QED  BY <2>1, <2>2, LockKept
<1>22. ASSUME NEW p \in Slots, AllocNoPage(p)
       PROVE  LockInv'
  BY <1>22 DEF AllocNoPage
<1>23. ASSUME NEW p \in Slots, AllocNoTable(p)
       PROVE  LockInv'
  BY <1>23 DEF AllocNoTable
<1>24. ASSUME NEW p \in Slots, ForkReady(p)
       PROVE  LockInv'
  <2>1. /\ Held = {cur[p]} /\ Held' = {}
        /\ DropLock(cur[p]) /\ cur[p] \in Slots /\ crash' = crash
    BY <1>24 DEF StateInv, TypeOK, OnInv, ForkReady, At, Goto, Leave
  <2>. QED  BY <2>1, LockDropped
<1>25. ASSUME NEW p \in Slots, ForkCopyFails(p)
       PROVE  LockInv'
  BY <1>25 DEF ForkCopyFails
<1>26. ASSUME NEW p \in Slots, WaitAcquire(p)
       PROVE  LockInv'
  <2>1. /\ Held = {} /\ Held' = {cur[p]}
        /\ TakeLock(cur[p]) /\ cur[p] \in Slots /\ crash' = crash
    BY <1>26 DEF StateInv, TypeOK, OnInv, WaitAcquire, At, Goto
  <2>. QED  BY <2>1, LockTaken
<1>27. ASSUME NEW p \in Slots, WaitReap(p)
       PROVE  LockInv'
  <2>1. /\ Held = {cur[p]} /\ Held' = {}
        /\ DropLock(cur[p]) /\ cur[p] \in Slots /\ crash' = crash
    BY <1>27 DEF StateInv, TypeOK, OnInv, WaitReap, At, Goto, Leave
  <2>. QED  BY <2>1, LockDropped
<1>28. ASSUME NEW p \in Slots, WaitSkip(p)
       PROVE  LockInv'
  <2>1. /\ Held = {cur[p]} /\ Held' = {}
        /\ DropLock(cur[p]) /\ cur[p] \in Slots /\ crash' = crash
    BY <1>28 DEF StateInv, TypeOK, OnInv, WaitSkip, At, Goto, Leave
  <2>. QED  BY <2>1, LockDropped
<1>29. ASSUME NEW p \in Slots, ProcPanics(p)
       PROVE  LockInv'
  <2>. QED
    BY <1>29, LockReady DEF StateInv, TypeOK, OnInv, ProcPanics, At
<1>30. ASSUME NEW p \in Slots, TickYield(p)
       PROVE  LockInv'
  <2>1. Held' = Held /\ locked' = locked /\ cpu'.noff = cpu.noff
    BY <1>30 DEF StateInv, TypeOK, OnInv, TickYield, Goto, IntrOff,
        CpuState, OffInv, CanInterrupt
  <2>2. crash' # "panic"
    BY <1>30, <1>0 DEF NoPanic, TickYield
  <2>. QED  BY <2>1, <2>2, LockKept
<1>31. CASE TimerFires
  <2>1. Held' = Held /\ locked' = locked /\ cpu'.noff = cpu.noff
    BY <1>31 DEF StateInv, TypeOK, OnInv, TimerFires
  <2>2. crash' # "panic"
    BY <1>31, <1>0 DEF NoPanic, TimerFires
  <2>. QED  BY <2>1, <2>2, LockKept
<1>32. CASE TickQuiet
  <2>1. Held' = Held /\ locked' = locked /\ cpu'.noff = cpu.noff
    BY <1>32 DEF StateInv, TypeOK, OnInv, TickQuiet
  <2>2. crash' # "panic"
    BY <1>32, <1>0 DEF NoPanic, TickQuiet
  <2>. QED  BY <2>1, <2>2, LockKept
<1>33. CASE DeviceIntr
  <2>1. Held' = Held /\ locked' = locked /\ cpu'.noff = cpu.noff
    BY <1>33 DEF StateInv, TypeOK, OnInv, DeviceIntr
  <2>2. crash' # "panic"
    BY <1>33, <1>0 DEF NoPanic, DeviceIntr
  <2>. QED  BY <2>1, <2>2, LockKept
<1>34. CASE UNCHANGED vars
  BY <1>34, <1>0, LockKept DEF vars, NoPanic
<1>. QED
  BY <1>1, <1>2, <1>3, <1>4, <1>5, <1>6, <1>7, <1>8, <1>9, <1>10, <1>11,
      <1>12, <1>13, <1>14, <1>15, <1>16, <1>17, <1>18, <1>19, <1>20,
      <1>21, <1>22, <1>23, <1>24, <1>25, <1>26, <1>27, <1>28, <1>29,
      <1>30, <1>31, <1>32, <1>33, <1>34 DEF Next, Scheduler, Kernel, Halt

-------------------------------------------------------------------------
\* With memory to spare, interrupts come back after each critical section.

LEMMA DepthKnown ==
  ASSUME StateInv, LockInv, NEW p \in Slots, on = p
  PROVE  /\ pc[p] \in ScanLabels => cpu.noff = 1
         /\ pc[p] \in Open => cpu.noff = 0
BY SlotFacts DEF LockInv, CpuInv, Held, SelfLabels, ScanLabels, Open

LEMMA MaskStep ==
  ASSUME ~ KallocMayFail
  PROVE  StateInv /\ LockInv /\ MaskInv /\ [Next]_vars => MaskInv'
<1>. SUFFICES ASSUME StateInv, LockInv, MaskInv, [Next]_vars
              PROVE  MaskInv'
  OBVIOUS
<1>. USE SlotFacts DEF StateInv, Open, ScanLabels
<1>1. CASE SchedIntrOn
  BY <1>1 DEF TypeOK, OnInv, MaskInv, SystemCallsInterruptible, SchedIntrOn, SchedAt
<1>2. CASE SchedAcquire
  BY <1>2 DEF TypeOK, OnInv, MaskInv, SystemCallsInterruptible, SchedAcquire, SchedAt
<1>3. CASE SchedSkip
  BY <1>3 DEF TypeOK, OnInv, MaskInv, SystemCallsInterruptible, SchedSkip, NextSlot,
      SchedAt
<1>4. CASE SchedDispatch
  BY <1>4 DEF TypeOK, OnInv, MaskInv, SystemCallsInterruptible, SchedDispatch,
      SchedAt, StatusInv
<1>5. CASE SchedResume
  BY <1>5 DEF TypeOK, OnInv, MaskInv, SystemCallsInterruptible, SchedResume, NextSlot,
      SchedAt
<1>6. CASE SchedPanics
  BY <1>6 DEF TypeOK, OnInv, MaskInv, SystemCallsInterruptible, SchedPanics, Panic
<1>7. ASSUME NEW p \in Slots, Ecall(p)
      PROVE  MaskInv'
  BY <1>7 DEF TypeOK, OnInv, MaskInv, SystemCallsInterruptible, Ecall, At, Goto, IntrOn, CpuState
<1>8. ASSUME NEW p \in Slots, Syscall(p) \/ Body(p)
      PROVE  MaskInv'
  <2>1. cpu \in CpuState /\ cpu.sie /\ cpu.noff = 0
    BY <1>8, DepthKnown DEF TypeOK, MaskInv, SystemCallsInterruptible,
        Syscall, Body, At
  <2>2. cpu'.sie
    BY <1>8, <2>1, MyProcBalanced DEF Syscall, Body
  <2>. QED
    BY <1>8, <2>2 DEF TypeOK, MaskInv, SystemCallsInterruptible, Syscall,
        Body, At, Goto
<1>9. ASSUME NEW p \in Slots, ForkRet(p)
      PROVE  MaskInv'
  BY <1>9 DEF TypeOK, OnInv, MaskInv, SystemCallsInterruptible, ForkRet, At, Goto
<1>10. ASSUME NEW p \in Slots, UserTrapRet(p)
       PROVE  MaskInv'
  BY <1>10 DEF TypeOK, OnInv, MaskInv, SystemCallsInterruptible, UserTrapRet, At, Goto
<1>11. ASSUME NEW p \in Slots, YieldAcquire(p)
       PROVE  MaskInv'
  BY <1>11 DEF TypeOK, OnInv, MaskInv, SystemCallsInterruptible, YieldAcquire, At,
      Goto
<1>12. ASSUME NEW p \in Slots, YieldSwtch(p)
       PROVE  MaskInv'
  BY <1>12 DEF TypeOK, OnInv, MaskInv, SystemCallsInterruptible, YieldSwtch, At, Goto
<1>13. ASSUME NEW p \in Slots, YieldRelease(p)
       PROVE  MaskInv'
  BY <1>13 DEF TypeOK, OnInv, MaskInv, SystemCallsInterruptible, YieldRelease, At,
      Goto
<1>14. ASSUME NEW p \in Slots, TrapRetSepc(p)
       PROVE  MaskInv'
  BY <1>14 DEF TypeOK, OnInv, MaskInv, SystemCallsInterruptible, TrapRetSepc, At, Goto
<1>15. ASSUME NEW p \in Slots, TrapSret(p)
       PROVE  MaskInv'
  <2>1. /\ on' = p /\ cpu' = IntrOn(IntrOff(cpu))
        /\ pc'[p] \notin ScanLabels
    BY <1>15, PoppedFrame DEF TypeOK, TrapSret, At, Goto
  <2>2. cpu'.sie
    BY <2>1 DEF TypeOK, CpuState, IntrOn, IntrOff
  <2>. QED  BY <2>1, <2>2 DEF MaskInv, SystemCallsInterruptible
<1>16. ASSUME NEW p \in Slots, TrapSretWild(p)
       PROVE  MaskInv'
  BY <1>16 DEF TypeOK, OnInv, MaskInv, SystemCallsInterruptible, TrapSretWild, At
<1>17. ASSUME NEW p \in Slots, ExitAcquire(p)
       PROVE  MaskInv'
  BY <1>17 DEF TypeOK, OnInv, MaskInv, SystemCallsInterruptible, ExitAcquire, At, Goto
<1>18. ASSUME NEW p \in Slots, ExitSwtch(p)
       PROVE  MaskInv'
  BY <1>18 DEF TypeOK, OnInv, MaskInv, SystemCallsInterruptible, ExitSwtch, At, Goto
<1>19. ASSUME NEW p \in Slots, AllocAcquire(p)
       PROVE  MaskInv'
  <2>1. cpu.sie /\ cpu.noff = 0
    BY <1>19, DepthKnown DEF MaskInv, SystemCallsInterruptible, AllocAcquire, At
  <2>2. cpu'.intena
    BY <1>19, <2>1 DEF AllocAcquire, TakeLock, PushOff
  <2>. QED
    BY <1>19, <2>2 DEF TypeOK, MaskInv, SystemCallsInterruptible, AllocAcquire,
        At, Goto
<1>20. ASSUME NEW p \in Slots, AllocSkip(p)
       PROVE  MaskInv'
  <2>1. cpu.intena /\ cpu.noff = 1 /\ cpu \in CpuState
    BY <1>20, DepthKnown DEF TypeOK, MaskInv, AllocSkip, At
  <2>2. cpu'.sie
    BY <1>20, <2>1 DEF CpuState, AllocSkip, DropLock, PopOff
  <2>. QED
    BY <1>20, <2>2 DEF TypeOK, MaskInv, SystemCallsInterruptible, AllocSkip,
        At, Goto, Leave
<1>21. ASSUME NEW p \in Slots, AllocFound(p)
       PROVE  MaskInv'
  BY <1>21 DEF TypeOK, OnInv, MaskInv, SystemCallsInterruptible, AllocFound, At
<1>22. ASSUME NEW p \in Slots, AllocNoPage(p)
       PROVE  MaskInv'
  BY <1>22 DEF AllocNoPage
<1>23. ASSUME NEW p \in Slots, AllocNoTable(p)
       PROVE  MaskInv'
  BY <1>23 DEF AllocNoTable
<1>24. ASSUME NEW p \in Slots, ForkReady(p)
       PROVE  MaskInv'
  <2>1. cpu.intena /\ cpu.noff = 1 /\ cpu \in CpuState
    BY <1>24, DepthKnown DEF TypeOK, MaskInv, ForkReady, At
  <2>2. cpu'.sie
    BY <1>24, <2>1 DEF CpuState, ForkReady, DropLock, PopOff
  <2>. QED
    BY <1>24, <2>2 DEF TypeOK, MaskInv, SystemCallsInterruptible, ForkReady,
        At, Goto, Leave
<1>25. ASSUME NEW p \in Slots, ForkCopyFails(p)
       PROVE  MaskInv'
  BY <1>25 DEF ForkCopyFails
<1>26. ASSUME NEW p \in Slots, WaitAcquire(p)
       PROVE  MaskInv'
  <2>1. cpu.sie /\ cpu.noff = 0
    BY <1>26, DepthKnown DEF MaskInv, SystemCallsInterruptible, WaitAcquire, At
  <2>2. cpu'.intena
    BY <1>26, <2>1 DEF WaitAcquire, TakeLock, PushOff
  <2>. QED
    BY <1>26, <2>2 DEF TypeOK, MaskInv, SystemCallsInterruptible, WaitAcquire,
        At, Goto
<1>27. ASSUME NEW p \in Slots, WaitReap(p)
       PROVE  MaskInv'
  <2>1. cpu.intena /\ cpu.noff = 1 /\ cpu \in CpuState
    BY <1>27, DepthKnown DEF TypeOK, MaskInv, WaitReap, At
  <2>2. cpu'.sie
    BY <1>27, <2>1 DEF CpuState, WaitReap, DropLock, PopOff
  <2>. QED
    BY <1>27, <2>2 DEF TypeOK, MaskInv, SystemCallsInterruptible, WaitReap,
        At, Goto, Leave
<1>28. ASSUME NEW p \in Slots, WaitSkip(p)
       PROVE  MaskInv'
  <2>1. cpu.intena /\ cpu.noff = 1 /\ cpu \in CpuState
    BY <1>28, DepthKnown DEF TypeOK, MaskInv, WaitSkip, At
  <2>2. cpu'.sie
    BY <1>28, <2>1 DEF CpuState, WaitSkip, DropLock, PopOff
  <2>. QED
    BY <1>28, <2>2 DEF TypeOK, MaskInv, SystemCallsInterruptible, WaitSkip,
        At, Goto, Leave
<1>29. ASSUME NEW p \in Slots, ProcPanics(p)
       PROVE  MaskInv'
  BY <1>29 DEF TypeOK, OnInv, MaskInv, SystemCallsInterruptible, ProcPanics, Panic
<1>30. ASSUME NEW p \in Slots, TickYield(p)
       PROVE  MaskInv'
  BY <1>30 DEF TypeOK, MaskInv, SystemCallsInterruptible, TickYield, Goto
<1>31. CASE TimerFires
  BY <1>31 DEF TypeOK, OnInv, MaskInv, SystemCallsInterruptible, TimerFires
<1>32. CASE TickQuiet
  BY <1>32 DEF TypeOK, OnInv, MaskInv, SystemCallsInterruptible, TickQuiet,
      CanInterrupt, AtEpilogue
<1>33. CASE DeviceIntr
  BY <1>33 DEF TypeOK, OnInv, MaskInv, SystemCallsInterruptible, DeviceIntr,
      CanInterrupt, AtEpilogue
<1>34. CASE UNCHANGED vars
  BY <1>34 DEF MaskInv, SystemCallsInterruptible, vars
<1>. QED
  BY <1>1, <1>2, <1>3, <1>4, <1>5, <1>6, <1>7, <1>8, <1>9, <1>10, <1>11,
      <1>12, <1>13, <1>14, <1>15, <1>16, <1>17, <1>18, <1>19, <1>20,
      <1>21, <1>22, <1>23, <1>24, <1>25, <1>26, <1>27, <1>28, <1>29,
      <1>30, <1>31, <1>32, <1>33, <1>34 DEF Next, Scheduler, Kernel, Halt

-------------------------------------------------------------------------
\* The state machine of AbsSched.

LEMMA AbsStep == StateInv /\ [Next]_vars => [Abs!AbsNext]_Task
<1>. SUFFICES ASSUME StateInv, [Next]_vars
              PROVE  Abs!AbsNext \/ Task' = Task
  OBVIOUS
<1>. USE SlotFacts DEF StateInv
<1>1. CASE UNCHANGED status
  BY <1>1 DEF Task
<1>2. CASE SchedDispatch
  <2>1. /\ Task[scur] = "READY"
        /\ \A q \in Slots : Task[q] # "RUNNING"
        /\ Task' = [Task EXCEPT ![scur] = "RUNNING"]
    BY <1>2 DEF SchedDispatch, SchedAt, StatusInv, TypeOK, Task
  <2>. QED
    BY <2>1 DEF TypeOK, Abs!AbsNext, Abs!Dispatch, Abs!Running
<1>3. ASSUME NEW p \in Slots, YieldSwtch(p)
      PROVE  Abs!AbsNext
  <2>1. Task[p] = "RUNNING" /\ Task' = [Task EXCEPT ![p] = "READY"]
    BY <1>3 DEF YieldSwtch, At, OnInv, TypeOK, Task
  <2>. QED  BY <2>1 DEF Abs!AbsNext, Abs!Deschedule, Abs!Running
<1>4. ASSUME NEW p \in Slots, ExitSwtch(p)
      PROVE  Abs!AbsNext
  <2>1. Task[p] = "RUNNING" /\ Task' = [Task EXCEPT ![p] = "ZOMBIE"]
    BY <1>4 DEF ExitSwtch, At, OnInv, TypeOK, Task
  <2>. QED  BY <2>1 DEF Abs!AbsNext, Abs!Exit, Abs!Running
<1>5. ASSUME NEW p \in Slots, AllocFound(p)
      PROVE  Task' = Task
  BY <1>5 DEF AllocFound, TypeOK, Task
<1>6. ASSUME NEW p \in Slots, ForkReady(p)
      PROVE  Abs!AbsNext
  <2>1. /\ Task[p] = "RUNNING" /\ Task[cur[p]] = "FREE" /\ cur[p] \in Slots
        /\ Task' = [Task EXCEPT ![cur[p]] = "READY"]
    BY <1>6 DEF ForkReady, At, OnInv, ForkInv, TypeOK, Task
  <2>. QED  BY <2>1 DEF Abs!AbsNext, Abs!Fork, Abs!Running
<1>7. ASSUME NEW p \in Slots, WaitReap(p)
      PROVE  Abs!AbsNext
  <2>1. /\ Task[p] = "RUNNING" /\ Task[cur[p]] = "ZOMBIE" /\ cur[p] \in Slots
        /\ Task' = [Task EXCEPT ![cur[p]] = "FREE"]
    BY <1>7 DEF WaitReap, At, OnInv, TypeOK, Task
  <2>. QED  BY <2>1 DEF Abs!AbsNext, Abs!Reap, Abs!Running
<1>. QED
  BY <1>1, <1>2, <1>3, <1>4, <1>5, <1>6, <1>7 DEF Next, Scheduler, Kernel,
      Halt, vars, Panic, SchedIntrOn, SchedAcquire, SchedSkip, SchedResume, SchedPanics,
      Ecall, Syscall, Body, ForkRet, UserTrapRet, YieldAcquire, YieldRelease,
      TrapRetSepc, TrapSret, TrapSretWild, ExitAcquire, AllocAcquire,
      AllocSkip, AllocNoPage, AllocNoTable, ForkCopyFails, WaitAcquire,
      WaitSkip, ProcPanics, TickYield, TimerFires, TickQuiet, DeviceIntr

-------------------------------------------------------------------------
\* Theorems

LEMMA StateInit == Init => StateInv
<1>. SUFFICES ASSUME Init
              PROVE  StateInv
  OBVIOUS
<1>. USE SlotFacts DEF Init
<1>1. TypeOK
  BY QuantumAssumption, EmptySeq DEF TypeOK, Status, SchedLabels, Labels,
      CpuState, CpuBoot
<1>2. OnInv /\ StatusInv /\ ForkInv
  BY DEF OnInv, StatusInv, ForkInv
<1>3. StackInv /\ FramesInv
  BY DEF StackInv, FramesInv, TrapLabels
<1>4. OffInv
  BY DEF OffInv, Held
<1>. QED  BY <1>1, <1>2, <1>3, <1>4 DEF StateInv

\* StateInv is an invariant, whether or not memory runs out.
THEOREM StateInvariant == Spec => []StateInv
<1>1. StateInv /\ [Next]_vars => StateInv'
  BY TypeStep, StateStep, OffStep, StackStep DEF StateInv
<1>. QED  BY StateInit, <1>1, PTL DEF Spec

\* Every variable keeps its type.
THEOREM TypeCorrect == Spec => []TypeOK
BY StateInvariant, PTL DEF StateInv

\* At most one process is RUNNING, the one cpus[0].proc names, even after
\* allocproc has leaked a lock.
THEOREM OneRunningProcess == Spec => []OneRunning
<1>1. StateInv => OneRunning
  BY SlotFacts DEF StateInv, OnInv, StatusInv, OneRunning, TypeOK
<1>. QED  BY StateInvariant, <1>1, PTL

\* Whatever the scheduler may pick has a context that releases its lock.
THEOREM ReadyIsResumable == Spec => []ReadyHasContext
<1>1. StateInv => ReadyHasContext
  BY DEF StateInv, StatusInv, ReadyHasContext
<1>. QED  BY StateInvariant, <1>1, PTL

\* Every step of the kernel is a step of the promised life cycle or none.
THEOREM Refinement == Spec => ImplementsAbsSched
<1>1. Init => Abs!AbsInit
  BY DEF Init, Task, Abs!AbsInit
<1>. QED
  BY StateInvariant, AbsStep, <1>1, PTL DEF Spec, ImplementsAbsSched, Abs!AbsSpec

\* Nothing is freed under a context that the hart still uses.
THEOREM ReapedOffCpu == Spec => FreedOnlyOffCpu
<1>1. StateInv /\ [Next]_vars => [FreedOffCpu]_vars
  <2>. SUFFICES ASSUME StateInv, Next
                PROVE  FreedOffCpu
    BY DEF vars
  <2>. USE SlotFacts DEF StateInv
  <2>1. CASE UNCHANGED status
    BY <2>1 DEF FreedOffCpu
  <2>2. CASE SchedDispatch
    BY <2>2 DEF SchedDispatch, TypeOK, FreedOffCpu
  <2>3. ASSUME NEW p \in Slots, YieldSwtch(p) \/ ExitSwtch(p)
        PROVE  FreedOffCpu
    BY <2>3 DEF YieldSwtch, ExitSwtch, At, OnInv, TypeOK, FreedOffCpu
  <2>4. ASSUME NEW p \in Slots, AllocFound(p)
        PROVE  FreedOffCpu
    BY <2>4 DEF AllocFound, TypeOK, FreedOffCpu
  <2>5. ASSUME NEW p \in Slots, ForkReady(p)
        PROVE  FreedOffCpu
    BY <2>5 DEF ForkReady, At, ForkInv, TypeOK, FreedOffCpu
  <2>6. ASSUME NEW p \in Slots, WaitReap(p)
        PROVE  FreedOffCpu
    BY <2>6 DEF WaitReap, At, OnInv, TypeOK, FreedOffCpu
  <2>. QED
    BY <2>1, <2>2, <2>3, <2>4, <2>5, <2>6 DEF Next, Scheduler, Kernel, Halt,
        vars, Panic, SchedIntrOn, SchedAcquire, SchedSkip, SchedResume, SchedPanics,
        Ecall, Syscall, Body, ForkRet, UserTrapRet, YieldAcquire,
        YieldRelease, TrapRetSepc, TrapSret, TrapSretWild, ExitAcquire,
        AllocAcquire, AllocSkip, AllocNoPage, AllocNoTable,
        ForkCopyFails, WaitAcquire, WaitSkip, ProcPanics, TickYield,
        TimerFires, TickQuiet, DeviceIntr
<1>. QED  BY StateInvariant, <1>1, PTL DEF Spec, FreedOnlyOffCpu

LEMMA LockInvariant ==
  ASSUME ~ KallocMayFail
  PROVE  Spec => [](StateInv /\ LockInv)
<1>1. Init => LockInv
  BY SlotFacts DEF Init, LockInv, LockWords, CpuInv, NoPanic, Held, CpuBoot
<1>2. StateInv /\ LockInv /\ [Next]_vars => LockInv'
  BY LockStep
<1>. QED  BY StateInvariant, <1>1, <1>2, PTL DEF Spec

\* As long as memory lasts, no acquire, release or pop_off of this code panics.
THEOREM LocksNeverPanic ==
  ASSUME ~ KallocMayFail
  PROVE  Spec => []NoPanic
<1>1. LockInv => NoPanic
  BY DEF LockInv
<1>. QED  BY LockInvariant, <1>1, PTL

\* As long as memory lasts, interrupts are off while a process lock is held.
THEOREM LocksMaskInterrupts ==
  ASSUME ~ KallocMayFail
  PROVE  Spec => []InterruptsOffUnderLock
<1>1. StateInv /\ LockInv => InterruptsOffUnderLock
  BY DEF StateInv, OffInv, LockInv, LockWords, InterruptsOffUnderLock
<1>. QED  BY LockInvariant, <1>1, PTL

\* As long as memory lasts, a system call takes interrupts wherever it holds no
\* process lock: a reader that polls does not keep the hart to itself.
THEOREM SystemCallsTakeInterrupts ==
  ASSUME ~ KallocMayFail
  PROVE  Spec => []SystemCallsInterruptible
<1>1. Init => MaskInv
  BY SlotFacts DEF Init, MaskInv, SystemCallsInterruptible
<1>2. StateInv /\ LockInv /\ MaskInv /\ [Next]_vars => MaskInv'
  BY MaskStep
<1>3. MaskInv => SystemCallsInterruptible
  BY DEF MaskInv
<1>. QED  BY LockInvariant, <1>1, <1>2, <1>3, PTL DEF Spec

-----------------------------------------------------------------------------
(* The round robin's bound on waiting, for every number of slots: the      *)
(* dispatches a READY process has seen and the slots the scheduler is yet  *)
(* to visit before its own add up to less than NPROC.                      *)

\* The next slot the scheduler looks at, and how many it visits before q.
Front == IF spc = "swtched" THEN scur + 1 ELSE scur

Ahead(q) == IF q >= Front THEN q - Front ELSE q - Front + NPROC

BypassInv ==
  /\ bypass \in [Slots -> Nat]
  /\ spc = "intr_on" => scur = 0
  /\ \A q \in Slots : bypass[q] + Ahead(q) <= NPROC - 1
  /\ \A q \in Slots : status[q] # "READY" => bypass[q] = 0

AheadOK ==
  \A q \in Slots : Ahead(q) \in Int /\ 0 <= Ahead(q) /\ Ahead(q) < NPROC

LEMMA SlotRange ==
  ASSUME TypeOK
  PROVE  /\ NPROC \in Int
         /\ scur \in Int /\ 0 <= scur /\ scur < NPROC
         /\ \A q \in Slots : q \in Int /\ 0 <= q /\ q < NPROC
BY NPROCAssumption DEF TypeOK, Slots

LEMMA AheadRange == TypeOK => AheadOK
<1>. SUFFICES ASSUME TypeOK, NEW q \in Slots
              PROVE  Ahead(q) \in Int /\ 0 <= Ahead(q) /\ Ahead(q) < NPROC
  BY DEF AheadOK
<1>1. /\ NPROC \in Int /\ q \in Int /\ scur \in Int
      /\ 0 <= q /\ q < NPROC /\ 0 <= scur /\ scur < NPROC
  BY SlotRange
<1>2. Front \in Int /\ 0 <= Front /\ Front <= NPROC
  BY <1>1 DEF Front
<1>3. CASE q >= Front
  BY <1>1, <1>2, <1>3 DEF Ahead
<1>4. CASE ~ (q >= Front)
  BY <1>1, <1>2, <1>4 DEF Ahead
<1>. QED  BY <1>3, <1>4, <1>1, <1>2

\* The scheduler's step past slot scur brings every other slot nearer.
LEMMA FrontPasses ==
  ASSUME TypeOK, NEW q \in Slots, NEW n \in Int,
         n = scur + 1 \/ (n = 0 /\ scur = NPROC - 1), q # scur
  PROVE  (IF q >= n THEN q - n ELSE q - n + NPROC)
           < (IF q >= scur THEN q - scur ELSE q - scur + NPROC)
<1>1. /\ NPROC \in Int /\ q \in Int /\ scur \in Int
      /\ 0 <= q /\ q < NPROC /\ 0 <= scur /\ scur < NPROC
  BY SlotRange
<1>2. CASE q > scur
  BY <1>1, <1>2
<1>3. CASE q < scur
  BY <1>1, <1>3
<1>. QED  BY <1>1, <1>2, <1>3

\* Every step but the scheduler's leaves its position alone and dispatches
\* nobody.
LEMMA OtherSteps ==
  ASSUME StateInv, [Next]_vars, ~ SchedIntrOn, ~ SchedAcquire, ~ SchedSkip,
         ~ SchedDispatch, ~ SchedResume
  PROVE  /\ spc' = spc /\ scur' = scur
         /\ \A p \in Slots : ~ Dispatched(p)
<1>1. CASE spc' = spc /\ scur' = scur /\ status' = status
  BY <1>1 DEF Dispatched
<1>2. ASSUME NEW p \in Slots,
             YieldSwtch(p) \/ ExitSwtch(p) \/ AllocFound(p) \/ ForkReady(p)
               \/ WaitReap(p)
      PROVE  /\ spc' = spc /\ scur' = scur
             /\ \A q \in Slots : ~ Dispatched(q)
  <2>1. spc' = spc /\ scur' = scur
    BY <1>2 DEF YieldSwtch, ExitSwtch, AllocFound, ForkReady, WaitReap
  <2>2. ASSUME NEW q \in Slots
        PROVE  status'[q] = "RUNNING" => status[q] = "RUNNING"
    BY <1>2 DEF YieldSwtch, ExitSwtch, AllocFound, ForkReady, WaitReap,
        StateInv, TypeOK
  <2>. QED  BY <2>1, <2>2 DEF Dispatched
<1>. QED
  BY <1>1, <1>2 DEF Next, Scheduler, Kernel, Halt, vars, Panic,
      SchedPanics, Ecall, Syscall, Body, ForkRet, UserTrapRet, YieldAcquire, YieldRelease,
      TrapRetSepc, TrapSret, TrapSretWild, ExitAcquire, AllocAcquire,
      AllocSkip, AllocNoPage, AllocNoTable, ForkCopyFails, WaitAcquire,
      WaitSkip, ProcPanics, TickYield, TimerFires, TickQuiet, DeviceIntr

\* Reaching the bound again after one step, given where the front moved.
LEMMA CountStep ==
  ASSUME StateInv, TypeOK', BypassInv, Count,
         \A q \in Slots : Waiting(q) =>
            IF \E p \in Slots : Dispatched(p) THEN Ahead(q)' < Ahead(q)
            ELSE Ahead(q)' <= Ahead(q),
         spc' = "intr_on" => scur' = 0
  PROVE  BypassInv'
<1>1. ASSUME NEW q \in Slots
      PROVE  /\ bypass'[q] \in Nat
             /\ bypass'[q] + Ahead(q)' <= NPROC - 1
             /\ status'[q] # "READY" => bypass'[q] = 0
  <2>1. Ahead(q) \in Int /\ 0 <= Ahead(q) /\ Ahead(q) < NPROC
    BY AheadRange DEF StateInv, AheadOK
  <2>2. Ahead(q)' \in Int /\ 0 <= Ahead(q)' /\ Ahead(q)' < NPROC
    <3>1. (TypeOK => AheadOK)'
      BY AheadRange, PTL
    <3>. QED  BY <3>1 DEF AheadOK
  <2>3. CASE ~ Waiting(q)
    BY <2>2, <2>3, NPROCAssumption DEF Count
  <2>4. CASE Waiting(q)
    BY <2>1, <2>2, <2>4, NPROCAssumption DEF Count, BypassInv, Waiting
  <2>. QED  BY <2>3, <2>4
<1>. QED  BY <1>1 DEF BypassInv, Count

LEMMA BypassStep ==
  StateInv /\ StateInv' /\ BypassInv /\ [Next /\ Count]_<<vars, bypass>>
    => BypassInv'
<1>. SUFFICES ASSUME StateInv, StateInv', BypassInv, Next, Count
              PROVE  BypassInv'
  BY DEF BypassInv, Ahead, Front, vars
<1>. USE NPROCAssumption
<1>1. CASE SchedDispatch
  <2>1. ASSUME NEW q \in Slots, Waiting(q)
        PROVE  Ahead(q)' < Ahead(q)
    <3>1. q # scur
      BY <1>1, <2>1 DEF SchedDispatch, Waiting, StateInv, TypeOK
    <3>2. /\ Ahead(q) = IF q >= scur THEN q - scur ELSE q - scur + NPROC
          /\ Ahead(q)' = IF q >= scur + 1 THEN q - (scur + 1)
                         ELSE q - (scur + 1) + NPROC
      BY <1>1 DEF SchedDispatch, SchedAt, Ahead, Front
    <3>3. TypeOK /\ scur + 1 \in Int
      <4>1. TypeOK
        BY DEF StateInv
      <4>. QED  BY <4>1, SlotRange
    <3>. QED  BY <3>1, <3>2, <3>3, FrontPasses
  <2>2. Dispatched(scur) /\ scur \in Slots /\ spc' # "intr_on"
    BY <1>1 DEF SchedDispatch, Dispatched, StateInv, TypeOK
  <2>. QED  BY <2>1, <2>2, CountStep DEF StateInv
<1>2. CASE SchedSkip \/ SchedResume
  <2>1. status' = status
    BY <1>2 DEF SchedSkip, SchedResume
  <2>2. ASSUME NEW q \in Slots, Waiting(q)
        PROVE  Ahead(q)' <= Ahead(q)
    <3>. DEFINE n == IF scur + 1 < NPROC THEN scur + 1 ELSE 0
    <3>1. /\ TypeOK /\ n \in Int
          /\ n = scur + 1 \/ (n = 0 /\ scur = NPROC - 1)
          /\ scur \in Int /\ 0 <= scur /\ scur < NPROC
          /\ q \in Int /\ 0 <= q /\ q < NPROC
      <4>1. TypeOK
        BY DEF StateInv
      <4>. QED  BY <4>1, SlotRange
    <3>2. Ahead(q)' = IF q >= n THEN q - n ELSE q - n + NPROC
      BY <1>2 DEF SchedSkip, SchedResume, NextSlot, Ahead, Front
    <3>3. CASE SchedSkip
      <4>1. q # scur
        BY <2>2, <3>3 DEF SchedSkip, Waiting
      <4>2. Ahead(q) = IF q >= scur THEN q - scur ELSE q - scur + NPROC
        BY <3>3 DEF SchedSkip, SchedAt, Ahead, Front
      <4>3. Ahead(q)' < Ahead(q)
        BY <3>1, <3>2, <4>1, <4>2, FrontPasses
      <4>. QED  BY <3>1, <3>2, <4>2, <4>3
    <3>4. CASE SchedResume
      <4>1. Ahead(q) = IF q >= scur + 1 THEN q - (scur + 1)
                       ELSE q - (scur + 1) + NPROC
        BY <3>4 DEF SchedResume, SchedAt, Ahead, Front
      <4>. QED  BY <3>1, <3>2, <4>1
    <3>. QED  BY <1>2, <3>3, <3>4
  <2>3. spc' = "intr_on" => scur' = 0
    BY <1>2 DEF SchedSkip, SchedResume, NextSlot
  <2>4. \A p \in Slots : ~ Dispatched(p)
    BY <2>1 DEF Dispatched
  <2>. QED  BY <2>2, <2>3, <2>4, CountStep DEF StateInv
<1>3. CASE SchedIntrOn \/ SchedAcquire
  <2>1. ASSUME NEW q \in Slots
        PROVE  Ahead(q)' = Ahead(q)
    BY <1>3 DEF SchedIntrOn, SchedAcquire, SchedAt, BypassInv, Ahead, Front
  <2>2. \A p \in Slots : ~ Dispatched(p)
    BY <1>3 DEF SchedIntrOn, SchedAcquire, Dispatched
  <2>3. spc' = "intr_on" => scur' = 0
    BY <1>3 DEF SchedIntrOn, SchedAcquire
  <2>4. \A q \in Slots : Ahead(q)' <= Ahead(q)
    BY <2>1, AheadRange DEF AheadOK, StateInv
  <2>. QED  BY <2>2, <2>3, <2>4, CountStep DEF StateInv
<1>4. CASE ~ (SchedIntrOn \/ SchedAcquire \/ SchedSkip \/ SchedDispatch
              \/ SchedResume)
  <2>1. /\ spc' = spc /\ scur' = scur
        /\ \A p \in Slots : ~ Dispatched(p)
    BY <1>4, OtherSteps
  <2>2. \A q \in Slots : Ahead(q)' <= Ahead(q)
    BY <2>1, AheadRange DEF AheadOK, StateInv, Ahead, Front
  <2>3. spc' = "intr_on" => scur' = 0
    BY <2>1 DEF BypassInv
  <2>. QED  BY <2>1, <2>2, <2>3, CountStep DEF StateInv
<1>. QED  BY <1>1, <1>2, <1>3, <1>4

\* A READY process sees at most NPROC - 1 other dispatches before its own.
THEOREM RoundRobinBound == BypassSpec => []BoundedBypass
<1>1. BypassSpec => []StateInv
  <2>1. BypassInit => StateInv
    BY StateInit DEF BypassInit
  <2>2. StateInv /\ [Next /\ Count]_<<vars, bypass>> => StateInv'
    BY TypeStep, StateStep, OffStep, StackStep DEF StateInv
  <2>. QED  BY <2>1, <2>2, PTL DEF BypassSpec
<1>2. BypassInit => BypassInv
  BY NPROCAssumption DEF BypassInit, Init, BypassInv, Ahead, Front, Slots
<1>3. BypassInv /\ TypeOK => BoundedBypass
  BY AheadRange, NPROCAssumption DEF AheadOK, BypassInv, BoundedBypass
<1>4. StateInv => TypeOK
  BY DEF StateInv
<1>. QED  BY <1>1, <1>2, <1>3, <1>4, BypassStep, PTL DEF BypassSpec

=========================================================================
