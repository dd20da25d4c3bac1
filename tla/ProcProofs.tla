---------------------------- MODULE ProcProofs --------------------------
(***************************************************************************)
(* Theorems about Proc, for every size of the process table: pids stay     *)
(* unique whatever programs do; if they wait for their children before     *)
(* they exit, parent pointers stay valid and what they see is AbsProc.     *)
(***************************************************************************)
EXTENDS Proc, FiniteSetTheorems, TLAPS

LEMMA SlotFacts ==
  /\ 0 \in Slots
  /\ Slots \subseteq Int
  /\ None \notin Slots
  /\ \A q \in Slots : q + 1 < NPROC => q + 1 \in Slots
BY NPROCAssumption DEF Slots, None

LEMMA TypeInit == Init => TypeOK
<1>. SUFFICES ASSUME Init
              PROVE  TypeOK
  OBVIOUS
<1>1. leaked \in SUBSET Slots /\ stopped \in BOOLEAN
  BY DEF Init
<1>. QED  BY <1>1, SlotFacts DEF Init, TypeOK, Returns, FirstPid

LEMMA TypeStep == TypeOK /\ [Next]_vars => TypeOK'
<1>. SUFFICES ASSUME TypeOK, [Next]_vars
              PROVE  TypeOK'
  OBVIOUS
<1>. USE SlotFacts
<1>1. ASSUME NEW p \in Slots, ForkCall(p)
      PROVE  TypeOK'
  BY <1>1 DEF TypeOK, Returns, ForkCall, At
<1>2. ASSUME NEW p \in Slots, ForkSkip(p)
      PROVE  TypeOK'
  BY <1>2 DEF TypeOK, Returns, ForkSkip, At, Locks
<1>3. ASSUME NEW p \in Slots, ForkFull(p)
      PROVE  TypeOK'
  BY <1>3 DEF TypeOK, Returns, ForkFull, At, Locks, Return
<1>4. ASSUME NEW p \in Slots, ForkFound(p)
      PROVE  TypeOK'
  BY <1>4 DEF TypeOK, Returns, ForkFound, At, Locks
<1>5. ASSUME NEW p \in Slots, ForkNoPage(p) \/ ForkNoTable(p)
      PROVE  TypeOK'
  <2>1. leaked' = leaked \/ leaked' = leaked \cup {cur[p]}
    BY <1>5 DEF ForkNoPage, ForkNoTable
  <2>2. leaked' \in SUBSET Slots
    <3>1. leaked \in SUBSET Slots /\ cur[p] \in Slots
      BY DEF TypeOK
    <3>. QED  BY <2>1, <3>1
  <2>3. /\ status' = status /\ parent' = parent /\ havekids' = havekids
        /\ stopped' = stopped
        /\ nextpid' = nextpid + 1 /\ pid' = [pid EXCEPT ![cur[p]] = nextpid + 1]
        /\ ret' = [ret EXCEPT ![p] = <<"fork", -1>>]
        /\ pc' = [pc EXCEPT ![p] = "user"] /\ cur' = [cur EXCEPT ![p] = 0]
    BY <1>5 DEF ForkNoPage, ForkNoTable, Return
  <2>. QED  BY <2>2, <2>3 DEF TypeOK, Returns
<1>6. ASSUME NEW p \in Slots, ForkCopyFails(p)
      PROVE  TypeOK'
  BY <1>6 DEF TypeOK, Returns, ForkCopyFails, At, Locks, Return
<1>7. ASSUME NEW p \in Slots, Exit(p)
      PROVE  TypeOK'
  BY <1>7 DEF TypeOK, Returns, Exit, At
<1>8. ASSUME NEW p \in Slots, WaitCall(p)
      PROVE  TypeOK'
  BY <1>8 DEF TypeOK, Returns, WaitCall, At
<1>9. ASSUME NEW p \in Slots, WaitReap(p)
      PROVE  TypeOK'
  BY <1>9 DEF TypeOK, Returns, WaitReap, At, Locks, Return
<1>10. ASSUME NEW p \in Slots, WaitPass(p)
       PROVE  TypeOK'
  <2>1. havekids' \in [Slots -> BOOLEAN]
    <3>1. (havekids[p] \/ parent[cur[p]] = p) \in BOOLEAN
      OBVIOUS
    <3>2. havekids' = [havekids EXCEPT ![p] = havekids[p] \/ parent[cur[p]] = p]
            \/ havekids' = [havekids EXCEPT ![p] = FALSE]
      BY <1>10 DEF WaitPass
    <3>. QED  BY <3>1, <3>2 DEF TypeOK
  <2>2. CASE cur[p] + 1 < NPROC
    <3>1. cur[p] + 1 \in Slots
      BY <2>2 DEF TypeOK
    <3>2. cur' = [cur EXCEPT ![p] = cur[p] + 1] /\ UNCHANGED <<pc, ret>>
      BY <1>10, <2>2, NPROCAssumption DEF WaitPass
    <3>. QED  BY <1>10, <2>1, <3>1, <3>2 DEF TypeOK, WaitPass
  <2>3. CASE ~ (cur[p] + 1 < NPROC)
    <3>1. /\ cur' = [cur EXCEPT ![p] = 0]
          /\ UNCHANGED <<pc, ret>>
               \/ /\ pc' = [pc EXCEPT ![p] = "user"]
                  /\ ret' = [ret EXCEPT ![p] = <<"wait", -1>>]
      BY <1>10, <2>3 DEF WaitPass, Return
    <3>. QED  BY <1>10, <2>1, <3>1 DEF TypeOK, WaitPass, Returns
  <2>. QED  BY <2>2, <2>3
<1>11. CASE UNCHANGED vars
  BY <1>11 DEF TypeOK, Returns, vars
<1>12. CASE Stop
  BY <1>12 DEF TypeOK, Returns, Stop
<1>. QED
  BY <1>1, <1>2, <1>3, <1>4, <1>5, <1>6, <1>7, <1>8, <1>9, <1>10, <1>11,
     <1>12 DEF Next, Kernel, Halt

\* Every variable keeps its type.
THEOREM TypeCorrect == Spec => []TypeOK
BY TypeInit, TypeStep, PTL DEF Spec

-------------------------------------------------------------------------
LEMMA PidsStep == TypeOK /\ PidsUnique /\ [Next]_vars => PidsUnique'
<1>. SUFFICES ASSUME TypeOK, PidsUnique, [Next]_vars
              PROVE  PidsUnique'
  OBVIOUS
<1>. USE SlotFacts DEF FirstPid
<1>1. ASSUME NEW p \in Slots, ForkCall(p)
      PROVE  PidsUnique'
  BY <1>1 DEF TypeOK, PidsUnique, ForkCall, At
<1>2. ASSUME NEW p \in Slots, ForkSkip(p)
      PROVE  PidsUnique'
  BY <1>2 DEF TypeOK, PidsUnique, ForkSkip, At, Locks
<1>3. ASSUME NEW p \in Slots, ForkFull(p)
      PROVE  PidsUnique'
  BY <1>3 DEF TypeOK, PidsUnique, ForkFull, At, Locks, Return
<1>4. ASSUME NEW p \in Slots, ForkFound(p)
      PROVE  PidsUnique'
  BY <1>4 DEF TypeOK, PidsUnique, ForkFound, At, Locks
<1>5. ASSUME NEW p \in Slots, ForkNoPage(p) \/ ForkNoTable(p)
      PROVE  PidsUnique'
  BY <1>5 DEF TypeOK, PidsUnique, ForkNoPage, ForkNoTable, At, Locks, Return
<1>6. ASSUME NEW p \in Slots, ForkCopyFails(p)
      PROVE  PidsUnique'
  BY <1>6 DEF TypeOK, PidsUnique, ForkCopyFails, At, Locks, Return
<1>7. ASSUME NEW p \in Slots, Exit(p)
      PROVE  PidsUnique'
  BY <1>7 DEF TypeOK, PidsUnique, Exit, At
<1>8. ASSUME NEW p \in Slots, WaitCall(p)
      PROVE  PidsUnique'
  BY <1>8 DEF TypeOK, PidsUnique, WaitCall, At
<1>9. ASSUME NEW p \in Slots, WaitReap(p)
      PROVE  PidsUnique'
  BY <1>9 DEF TypeOK, PidsUnique, WaitReap, At, Locks, Return
<1>10. ASSUME NEW p \in Slots, WaitPass(p)
       PROVE  PidsUnique'
  BY <1>10 DEF TypeOK, PidsUnique, WaitPass, At, Locks, Return
<1>11. CASE UNCHANGED vars
  BY <1>11 DEF TypeOK, PidsUnique, vars
<1>12. CASE Stop
  BY <1>12 DEF TypeOK, PidsUnique, Stop
<1>. QED
  BY <1>1, <1>2, <1>3, <1>4, <1>5, <1>6, <1>7, <1>8, <1>9, <1>10, <1>11,
     <1>12 DEF Next, Kernel, Halt

\* No two existing processes share a pid, also after forks that failed.
THEOREM PidsAreUnique == Spec => []PidsUnique
<1>1. Init => PidsUnique
  BY SlotFacts DEF Init, PidsUnique, FirstPid
<1>. QED  BY TypeCorrect, PidsStep, <1>1, PTL DEF Spec

-------------------------------------------------------------------------
\* The parent of an existing process is live, and only existing processes
\* have one.
ParentInv ==
  \A q \in Slots :
    /\ parent[q] # None => /\ Exists(q)
                          /\ parent[q] # q
                          /\ status[parent[q]] = "LIVE"
    /\ Exists(q) /\ parent[q] = None => q = 0 /\ status[q] = "LIVE"

LEMMA ParentStep ==
  ASSUME ReapBeforeExit
  PROVE  TypeOK /\ ParentInv /\ [Next]_vars => ParentInv'
<1>. SUFFICES ASSUME TypeOK, ParentInv, [Next]_vars
              PROVE  ParentInv'
  OBVIOUS
<1>. USE SlotFacts
<1>1. ASSUME NEW p \in Slots, ForkCall(p)
      PROVE  ParentInv'
  BY <1>1 DEF TypeOK, ParentInv, Exists, ForkCall, At
<1>2. ASSUME NEW p \in Slots, ForkSkip(p)
      PROVE  ParentInv'
  BY <1>2 DEF TypeOK, ParentInv, Exists, ForkSkip, At, Locks
<1>3. ASSUME NEW p \in Slots, ForkFull(p)
      PROVE  ParentInv'
  BY <1>3 DEF TypeOK, ParentInv, Exists, ForkFull, At, Locks, Return
<1>4. ASSUME NEW p \in Slots, ForkFound(p)
      PROVE  ParentInv'
  BY <1>4 DEF TypeOK, ParentInv, Exists, ForkFound, At, Locks
<1>5. ASSUME NEW p \in Slots, ForkNoPage(p) \/ ForkNoTable(p)
      PROVE  ParentInv'
  BY <1>5 DEF TypeOK, ParentInv, Exists, ForkNoPage, ForkNoTable, At, Locks, Return
<1>6. ASSUME NEW p \in Slots, ForkCopyFails(p)
      PROVE  ParentInv'
  BY <1>6 DEF TypeOK, ParentInv, Exists, ForkCopyFails, At, Locks, Return
<1>7. ASSUME NEW p \in Slots, Exit(p)
      PROVE  ParentInv'
  BY <1>7 DEF TypeOK, ParentInv, Exists, Exit, At, ChildOf
<1>8. ASSUME NEW p \in Slots, WaitCall(p)
      PROVE  ParentInv'
  BY <1>8 DEF TypeOK, ParentInv, Exists, WaitCall, At
<1>9. ASSUME NEW p \in Slots, WaitReap(p)
      PROVE  ParentInv'
  BY <1>9 DEF TypeOK, ParentInv, Exists, WaitReap, At, Locks, Return
<1>10. ASSUME NEW p \in Slots, WaitPass(p)
       PROVE  ParentInv'
  BY <1>10 DEF TypeOK, ParentInv, Exists, WaitPass, At, Locks, Return
<1>11. CASE UNCHANGED vars
  BY <1>11 DEF TypeOK, ParentInv, Exists, vars
<1>12. CASE Stop
  BY <1>12 DEF TypeOK, ParentInv, Exists, Stop
<1>. QED
  BY <1>1, <1>2, <1>3, <1>4, <1>5, <1>6, <1>7, <1>8, <1>9, <1>10, <1>11,
     <1>12 DEF Next, Kernel, Halt

LEMMA ParentInvariant ==
  ASSUME ReapBeforeExit
  PROVE  Spec => [](TypeOK /\ ParentInv)
<1>1. Init => ParentInv
  BY SlotFacts DEF Init, ParentInv, Exists
<1>2. TypeOK /\ ParentInv /\ [Next]_vars => ParentInv'
  BY ParentStep
<1>. QED  BY TypeCorrect, <1>1, <1>2, PTL DEF Spec

\* With programs that reap before they exit, a zombie's parent is live.
THEOREM ZombiesHaveParents ==
  ASSUME ReapBeforeExit
  PROVE  Spec => []ZombieHasParent
<1>1. TypeOK /\ ParentInv => ZombieHasParent
  BY DEF TypeOK, ParentInv, ZombieHasParent, Exists
<1>. QED  BY ParentInvariant, <1>1, PTL

\* With such programs a parent pointer designates one process all its life.
THEOREM ParentsStay ==
  ASSUME ReapBeforeExit
  PROVE  Spec => ParentStays
<1>1. TypeOK /\ ParentInv /\ [Next]_vars => [ParentKept]_vars
  <2>. SUFFICES ASSUME TypeOK, ParentInv, Next
                PROVE  ParentKept
    BY DEF vars
  <2>. USE SlotFacts DEF TypeOK, ParentInv, ParentKept, Exists
  <2>1. ASSUME NEW p \in Slots, ForkCall(p)
        PROVE  ParentKept
    BY <2>1 DEF ForkCall, At
  <2>2. ASSUME NEW p \in Slots, ForkSkip(p)
        PROVE  ParentKept
    BY <2>2 DEF ForkSkip, At, Locks
  <2>3. ASSUME NEW p \in Slots, ForkFull(p)
        PROVE  ParentKept
    BY <2>3 DEF ForkFull, At, Locks, Return
  <2>4. ASSUME NEW p \in Slots, ForkFound(p)
        PROVE  ParentKept
    BY <2>4 DEF ForkFound, At, Locks
  <2>5. ASSUME NEW p \in Slots, ForkNoPage(p) \/ ForkNoTable(p)
        PROVE  ParentKept
    <3>1. CASE ForkNoPage(p)
      BY <3>1 DEF ForkNoPage, At, Locks, Return
    <3>2. CASE ForkNoTable(p)
      BY <3>2 DEF ForkNoTable, At, Locks, Return
    <3>. QED  BY <2>5, <3>1, <3>2
  <2>6. ASSUME NEW p \in Slots, ForkCopyFails(p)
        PROVE  ParentKept
    BY <2>6 DEF ForkCopyFails, At, Locks, Return
  <2>7. ASSUME NEW p \in Slots, Exit(p)
        PROVE  ParentKept
    BY <2>7 DEF Exit, At, ChildOf
  <2>8. ASSUME NEW p \in Slots, WaitCall(p)
        PROVE  ParentKept
    BY <2>8 DEF WaitCall, At
  <2>9. ASSUME NEW p \in Slots, WaitReap(p)
        PROVE  ParentKept
    BY <2>9 DEF WaitReap, At, Locks, Return
  <2>10. ASSUME NEW p \in Slots, WaitPass(p)
         PROVE  ParentKept
    BY <2>10 DEF WaitPass, At, Locks, Return
  <2>11. CASE Stop \/ Halt
    BY <2>11 DEF Stop, Halt, vars
  <2>. QED
    BY <2>1, <2>2, <2>3, <2>4, <2>5, <2>6, <2>7, <2>8, <2>9, <2>10, <2>11
        DEF Next, Kernel
<1>. QED  BY ParentInvariant, <1>1, PTL DEF Spec, ParentStays

-------------------------------------------------------------------------
(* With programs that reap before they exit, Proc implements AbsProc.      *)

\* What the locals of the system calls say of the table.
CallInv ==
  /\ \A q \in Slots : status[q] # "LIVE" => pc[q] = "user"
  /\ \A q \in Slots : pc[q] = "user" => cur[q] = 0
  /\ \A q \in Slots : status[q] = "ZOMBIE" => ret[q] = <<"none", 0>>
  /\ \A p, q \in Slots :
       pc[p] = "wait" /\ ~ havekids[p] /\ q < cur[p] => parent[q] # p

LEMMA CallStep == TypeOK /\ CallInv /\ [Next]_vars => CallInv'
<1>. SUFFICES ASSUME TypeOK, CallInv, [Next]_vars
              PROVE  CallInv'
  OBVIOUS
<1>. USE SlotFacts
<1>1. ASSUME NEW p \in Slots, ForkCall(p)
      PROVE  CallInv'
  BY <1>1 DEF TypeOK, CallInv, ForkCall, At
<1>2. ASSUME NEW p \in Slots, ForkSkip(p)
      PROVE  CallInv'
  BY <1>2 DEF TypeOK, CallInv, ForkSkip, At, Locks
<1>3. ASSUME NEW p \in Slots, ForkFull(p)
      PROVE  CallInv'
  BY <1>3 DEF TypeOK, CallInv, ForkFull, At, Locks, Return
<1>4. ASSUME NEW p \in Slots, ForkFound(p)
      PROVE  CallInv'
  <2>1. PICK c \in Slots : c = cur[p]
    BY DEF TypeOK
  <2>2. /\ status[p] = "LIVE" /\ status[c] = "FREE"
        /\ status' = [status EXCEPT ![c] = "LIVE"]
        /\ parent' = [parent EXCEPT ![c] = p]
        /\ pc' = [pc EXCEPT ![p] = "user"] /\ cur' = [cur EXCEPT ![p] = 0]
        /\ UNCHANGED havekids
    BY <1>4, <2>1 DEF ForkFound, At, Locks
  <2>3. \A q \in Slots : status'[q] # "LIVE" => pc'[q] = "user"
    BY <2>2 DEF TypeOK, CallInv
  <2>4. \A q \in Slots : pc'[q] = "user" => cur'[q] = 0
    BY <2>2 DEF TypeOK, CallInv
  <2>5. \A q \in Slots : status'[q] = "ZOMBIE" => ret'[q] = <<"none", 0>>
    BY <1>4, <2>1, <2>2 DEF ForkFound, TypeOK, CallInv
  <2>6. ASSUME NEW r \in Slots, NEW q \in Slots,
               pc'[r] = "wait", ~ havekids'[r], q < cur'[r]
        PROVE  parent'[q] # r
    <3>1. r # p /\ pc[r] = "wait" /\ ~ havekids[r] /\ q < cur[r]
      BY <2>2, <2>6 DEF TypeOK
    <3>2. parent[q] # r
      BY <3>1 DEF CallInv
    <3>. QED  BY <2>2, <3>1, <3>2 DEF TypeOK
  <2>. QED  BY <2>3, <2>4, <2>5, <2>6 DEF CallInv
<1>5. ASSUME NEW p \in Slots, ForkNoPage(p) \/ ForkNoTable(p)
      PROVE  CallInv'
  BY <1>5 DEF TypeOK, CallInv, ForkNoPage, ForkNoTable, At, Locks, Return
<1>6. ASSUME NEW p \in Slots, ForkCopyFails(p)
      PROVE  CallInv'
  BY <1>6 DEF TypeOK, CallInv, ForkCopyFails, At, Locks, Return
<1>7. ASSUME NEW p \in Slots, Exit(p)
      PROVE  CallInv'
  BY <1>7 DEF TypeOK, CallInv, Exit, At
<1>8. ASSUME NEW p \in Slots, WaitCall(p)
      PROVE  CallInv'
  <2>1. /\ pc' = [pc EXCEPT ![p] = "wait"] /\ status[p] = "LIVE"
        /\ UNCHANGED <<status, parent, cur, ret>> /\ cur[p] = 0
        /\ havekids' = [havekids EXCEPT ![p] = FALSE]
    BY <1>8 DEF WaitCall, At, CallInv
  <2>2. \A q \in Slots : ~ (q < 0)
    BY NPROCAssumption DEF Slots
  <2>3. ASSUME NEW r \in Slots, NEW q \in Slots,
               pc'[r] = "wait", ~ havekids'[r], q < cur'[r]
        PROVE  parent'[q] # r
    <3>1. r # p
      BY <2>1, <2>2, <2>3
    <3>2. pc[r] = "wait" /\ ~ havekids[r] /\ q < cur[r]
      BY <2>1, <2>3, <3>1 DEF TypeOK
    <3>. QED  BY <2>1, <3>2 DEF CallInv
  <2>4. \A q \in Slots : /\ status'[q] # "LIVE" => pc'[q] = "user"
                         /\ pc'[q] = "user" => cur'[q] = 0
                         /\ status'[q] = "ZOMBIE" => ret'[q] = <<"none", 0>>
    BY <2>1 DEF TypeOK, CallInv
  <2>. QED  BY <2>3, <2>4 DEF CallInv
<1>9. ASSUME NEW p \in Slots, WaitReap(p)
      PROVE  CallInv'
  <2>1. PICK c \in Slots : c = cur[p]
    BY DEF TypeOK
  <2>2. /\ status[c] = "ZOMBIE" /\ pc[p] = "wait" /\ status[p] = "LIVE"
        /\ status' = [status EXCEPT ![c] = "FREE"]
        /\ parent' = [parent EXCEPT ![c] = None]
        /\ pc' = [pc EXCEPT ![p] = "user"] /\ cur' = [cur EXCEPT ![p] = 0]
        /\ havekids' = [havekids EXCEPT ![p] = FALSE]
        /\ ret' = [ret EXCEPT ![p] = <<"wait", pid[c]>>]
    BY <1>9, <2>1 DEF WaitReap, Return, At, Locks
  <2>3. \A q \in Slots : status'[q] # "LIVE" => pc'[q] = "user"
    BY <2>2 DEF TypeOK, CallInv
  <2>4. \A q \in Slots : pc'[q] = "user" => cur'[q] = 0
    BY <2>2 DEF TypeOK, CallInv
  <2>5. \A q \in Slots : status'[q] = "ZOMBIE" => ret'[q] = <<"none", 0>>
    BY <2>2 DEF TypeOK, CallInv
  <2>6. ASSUME NEW r \in Slots, NEW q \in Slots,
               pc'[r] = "wait", ~ havekids'[r], q < cur'[r]
        PROVE  parent'[q] # r
    <3>1. r # p /\ pc[r] = "wait" /\ ~ havekids[r] /\ q < cur[r]
      BY <2>2, <2>6 DEF TypeOK
    <3>2. parent[q] # r
      BY <3>1 DEF CallInv
    <3>. QED  BY <2>2, <3>2 DEF TypeOK
  <2>. QED  BY <2>3, <2>4, <2>5, <2>6 DEF CallInv
<1>10. ASSUME NEW p \in Slots, WaitPass(p)
       PROVE  CallInv'
  <2>1. /\ At(p, "wait") /\ cur[p] \in Slots /\ cur[p] \in Int
        /\ UNCHANGED <<status, pid, parent, nextpid>>
    BY <1>10 DEF TypeOK, WaitPass, Locks
  <2>2. CASE cur[p] + 1 < NPROC
    <3>1. /\ cur' = [cur EXCEPT ![p] = cur[p] + 1]
          /\ havekids' = [havekids EXCEPT ![p] =
                            havekids[p] \/ parent[cur[p]] = p]
          /\ UNCHANGED <<pc, ret>>
      BY <1>10, <2>2, NPROCAssumption DEF WaitPass
    <3>2. ASSUME NEW q \in Slots, ~ havekids'[p], q < cur'[p]
          PROVE  parent[q] # p
      <4>1. q < cur[p] \/ q = cur[p]
        BY <2>1, <3>1, <3>2 DEF TypeOK
      <4>2. ~ havekids[p] /\ parent[cur[p]] # p
        BY <3>1, <3>2 DEF TypeOK
      <4>. QED  BY <2>1, <4>1, <4>2 DEF CallInv, At
    <3>. QED  BY <2>1, <3>1, <3>2 DEF TypeOK, CallInv, At
  <2>3. CASE ~ (cur[p] + 1 < NPROC)
    <3>1. /\ cur' = [cur EXCEPT ![p] = 0]
          /\ havekids' = [havekids EXCEPT ![p] = FALSE]
          /\ UNCHANGED <<pc, ret>>
               \/ /\ pc' = [pc EXCEPT ![p] = "user"]
                  /\ ret' = [ret EXCEPT ![p] = <<"wait", -1>>]
      BY <1>10, <2>3 DEF WaitPass, Return
    <3>2. \A q \in Slots : ~ (q < 0)
      BY NPROCAssumption DEF Slots
    <3>. QED  BY <2>1, <3>1, <3>2 DEF TypeOK, CallInv, At
  <2>. QED  BY <2>2, <2>3
<1>11. CASE UNCHANGED vars
  BY <1>11 DEF TypeOK, CallInv, vars
<1>12. CASE Stop
  BY <1>12 DEF TypeOK, CallInv, Stop
<1>. QED
  BY <1>1, <1>2, <1>3, <1>4, <1>5, <1>6, <1>7, <1>8, <1>9, <1>10, <1>11,
     <1>12 DEF Next, Kernel, Halt

\* Every fork under way has a pid left to issue.
Budget == nextpid + Cardinality(Forking) <= MaxPid

LEMMA BudgetStep == TypeOK /\ CallInv /\ Budget /\ [Next]_vars => Budget'
<1>. SUFFICES ASSUME TypeOK, CallInv, Budget, [Next]_vars
              PROVE  Budget'
  OBVIOUS
<1>. USE SlotFacts
<1>1. /\ IsFiniteSet(Forking) /\ Cardinality(Forking) \in Nat
      /\ nextpid \in Nat /\ MaxPid \in Nat
  <2>1. IsFiniteSet(Slots)
    BY FS_Interval, NPROCAssumption DEF Slots
  <2>2. Forking \in SUBSET Slots
    BY DEF Forking
  <2>3. IsFiniteSet(Forking)
    BY <2>1, <2>2, FS_Subset
  <2>. QED  BY <2>3, FS_CardinalityType, PidAssumption DEF TypeOK
<1>2. ASSUME UNCHANGED nextpid, Forking' \subseteq Forking
      PROVE  Budget'
  <2>1. Forking' \in SUBSET Forking
    BY <1>2
  <2>2. IsFiniteSet(Forking') /\ Cardinality(Forking') <= Cardinality(Forking)
    BY <1>1, <2>1, FS_Subset
  <2>3. Cardinality(Forking') \in Nat
    BY <2>2, FS_CardinalityType
  <2>. QED  BY <1>1, <1>2, <2>2, <2>3 DEF Budget
<1>3. ASSUME NEW p \in Slots, ForkCall(p)
      PROVE  Budget'
  <2>1. nextpid' = nextpid /\ nextpid + Cardinality(Forking) < MaxPid
    BY <1>3 DEF ForkCall
  <2>2. Forking' = Forking \cup {p}
    BY <1>3 DEF ForkCall, Forking, At, TypeOK
  <2>3. \/ Cardinality(Forking') = Cardinality(Forking)
        \/ Cardinality(Forking') = Cardinality(Forking) + 1
    BY <1>1, <2>2, FS_AddElement
  <2>. QED  BY <1>1, <2>1, <2>3 DEF Budget
<1>4. ASSUME NEW p \in Slots, \/ ForkFound(p) \/ ForkNoPage(p)
                           \/ ForkNoTable(p) \/ ForkCopyFails(p)
      PROVE  Budget'
  <2>1. nextpid' = nextpid + 1 /\ p \in Forking
    BY <1>4 DEF ForkFound, ForkNoPage, ForkNoTable, ForkCopyFails, Forking,
                Locks
  <2>2. Forking' = Forking \ {p}
    <3>1. CASE ForkFound(p)
      BY <3>1 DEF ForkFound, Forking, At, Locks, TypeOK, CallInv
    <3>2. CASE ForkNoPage(p)
      BY <3>2 DEF ForkNoPage, Return, Forking, At, Locks, TypeOK, CallInv
    <3>3. CASE ForkCopyFails(p)
      BY <3>3 DEF ForkCopyFails, Return, Forking, At, Locks, TypeOK, CallInv
    <3>4. CASE ForkNoTable(p)
      BY <3>4 DEF ForkNoTable, Return, Forking, At, Locks, TypeOK, CallInv
    <3>. QED  BY <1>4, <3>1, <3>2, <3>3, <3>4
  <2>3. Cardinality(Forking') = Cardinality(Forking) - 1
    BY <1>1, <2>1, <2>2, FS_RemoveElement
  <2>. QED  BY <1>1, <2>1, <2>3 DEF Budget
<1>5. ASSUME NEW p \in Slots,
             ForkSkip(p) \/ ForkFull(p) \/ Exit(p) \/ WaitCall(p)
               \/ WaitReap(p) \/ WaitPass(p)
      PROVE  Budget'
  <2>1. nextpid' = nextpid
    BY <1>5 DEF ForkSkip, ForkFull, Exit, WaitCall, WaitReap, WaitPass
  <2>2. Forking' \subseteq Forking
    <3>1. CASE ForkSkip(p)
      BY <3>1 DEF ForkSkip, Forking, At, Locks
    <3>2. CASE ForkFull(p)
      BY <3>2 DEF ForkFull, Return, Forking, At, Locks, TypeOK
    <3>3. CASE Exit(p)
      BY <3>3 DEF Exit, Forking, At, TypeOK
    <3>4. CASE WaitCall(p)
      BY <3>4 DEF WaitCall, Forking, At, TypeOK
    <3>5. CASE WaitReap(p)
      BY <3>5 DEF WaitReap, Return, Forking, At, Locks, TypeOK
    <3>6. CASE WaitPass(p)
      BY <3>6 DEF WaitPass, Return, Forking, At, Locks, TypeOK
    <3>. QED  BY <1>5, <3>1, <3>2, <3>3, <3>4, <3>5, <3>6
  <2>. QED  BY <1>2, <2>1, <2>2
<1>6. CASE UNCHANGED vars
  BY <1>2, <1>6 DEF vars, Forking, At
<1>7. CASE Stop
  BY <1>2, <1>7 DEF Stop, Forking, At
<1>. QED  BY <1>3, <1>4, <1>5, <1>6, <1>7 DEF Next, Kernel, Halt

\* The invariant of the refinement.
TreeInv == TypeOK /\ PidsUnique /\ ParentInv /\ CallInv /\ Budget

LEMMA TreeInvariant ==
  ASSUME ReapBeforeExit
  PROVE  Spec => []TreeInv
<1>1. Init => TreeInv
  <2>. SUFFICES ASSUME Init
                PROVE  TreeInv
    OBVIOUS
  <2>1. PidsUnique /\ ParentInv
    BY SlotFacts DEF Init, PidsUnique, FirstPid, ParentInv, Exists
  <2>2. CallInv
    BY SlotFacts DEF Init, CallInv
  <2>3. Forking = {}
    BY DEF Init, Forking, At
  <2>4. Budget
    BY <2>3, FS_EmptySet, PidAssumption DEF Init, Budget, FirstPid
  <2>. QED  BY TypeInit, <2>1, <2>2, <2>4 DEF TreeInv
<1>2. TreeInv /\ [Next]_vars => TreeInv'
  BY TypeStep, PidsStep, ParentStep, CallStep, BudgetStep DEF TreeInv
<1>. QED  BY <1>1, <1>2, PTL DEF Spec

-------------------------------------------------------------------------
\* The abstract process of a slot, and the pids that have none.

Pids == FirstPid .. MaxPid

MappingFacts ==
  /\ Life = [x \in Pids |-> Life[x]]
  /\ Mother = [x \in Pids |-> Mother[x]]
  /\ Ret = [x \in Pids |-> Ret[x]]
  /\ \A p \in Slots : Exists(p) =>
       /\ pid[p] \in Pids
       /\ Life[pid[p]] = IF status[p] = "LIVE" THEN "live" ELSE "zombie"
       /\ Mother[pid[p]] = IF parent[p] = None THEN 0 ELSE pid[parent[p]]
       /\ Ret[pid[p]] = ret[p]
  /\ \A x \in Pids : (\A p \in Slots : Exists(p) => pid[p] # x) =>
       /\ Life[x] = IF x > nextpid THEN "unborn" ELSE "gone"
       /\ Mother[x] = 0
       /\ Ret[x] = <<"none", 0>>

LEMMA PidRange == TreeInv => nextpid \in Nat /\ nextpid <= MaxPid
<1>. SUFFICES ASSUME TreeInv
              PROVE  nextpid \in Nat /\ nextpid <= MaxPid
  OBVIOUS
<1>1. IsFiniteSet(Slots)
  BY FS_Interval, NPROCAssumption DEF Slots
<1>2. Forking \in SUBSET Slots
  BY DEF Forking
<1>3. Cardinality(Forking) \in Nat
  BY <1>1, <1>2, FS_Subset, FS_CardinalityType
<1>. QED  BY <1>3, PidAssumption DEF TreeInv, TypeOK, Budget

LEMMA NextPidRange == TreeInv' => (nextpid \in Nat /\ nextpid <= MaxPid)'
BY PidRange, PTL

LEMMA MappingValue == TreeInv => MappingFacts
<1>. SUFFICES ASSUME TreeInv
              PROVE  MappingFacts
  OBVIOUS
<1>1. nextpid \in Nat /\ nextpid <= MaxPid /\ MaxPid \in Nat
  BY PidRange, PidAssumption
<1>2. /\ Life = [x \in Pids |-> Life[x]]
      /\ Mother = [x \in Pids |-> Mother[x]]
      /\ Ret = [x \in Pids |-> Ret[x]]
  BY DEF Life, Mother, Ret, Pids
<1>3. ASSUME NEW p \in Slots, Exists(p)
      PROVE  /\ pid[p] \in Pids
             /\ Life[pid[p]] = IF status[p] = "LIVE" THEN "live" ELSE "zombie"
             /\ Mother[pid[p]] = IF parent[p] = None THEN 0 ELSE pid[parent[p]]
             /\ Ret[pid[p]] = ret[p]
  <2>1. status[p] # "FREE"
    BY <1>3 DEF Exists
  <2>2. pid[p] \in FirstPid .. nextpid
    BY <2>1 DEF TreeInv, PidsUnique
  <2>3. PICK x \in FirstPid .. nextpid : x = pid[p]
    BY <2>2
  <2>4. x \in Pids /\ ~ (x > nextpid)
    BY <1>1 DEF Pids, FirstPid
  <2>5. Present(x) /\ SlotOf(x) = p
    <3>1. \A q \in Slots : Exists(q) /\ pid[q] = x => q = p
      BY <2>1, <2>3 DEF Exists, TreeInv, PidsUnique
    <3>. QED  BY <1>3, <2>3, <3>1 DEF Present, SlotOf
  <2>6. Life[x] = IF status[p] = "LIVE" THEN "live" ELSE "zombie"
    BY <2>4, <2>5 DEF Life, Pids
  <2>7. Mother[x] = IF parent[p] = None THEN 0 ELSE pid[parent[p]]
    BY <2>4, <2>5 DEF Mother, Pids
  <2>8. Ret[x] = ret[p]
    BY <2>4, <2>5 DEF Ret, Pids
  <2>. QED  BY <2>3, <2>4, <2>6, <2>7, <2>8
<1>4. ASSUME NEW x \in Pids, \A p \in Slots : Exists(p) => pid[p] # x
      PROVE  /\ Life[x] = IF x > nextpid THEN "unborn" ELSE "gone"
             /\ Mother[x] = 0
             /\ Ret[x] = <<"none", 0>>
  <2>1. ~ Present(x)
    BY <1>4 DEF Present
  <2>. QED  BY <2>1 DEF Life, Mother, Ret, Pids
<1>. QED  BY <1>2, <1>3, <1>4 DEF MappingFacts

LEMMA NextMappingValue == TreeInv' => MappingFacts'
BY MappingValue, PTL

\* A process that a step leaves alone, but for what its last call returned.
Kept(q) ==
  /\ Exists(q) /\ Exists(q)'
  /\ pid'[q] = pid[q] /\ parent'[q] = parent[q]
  /\ status'[q] = "LIVE" <=> status[q] = "LIVE"
  /\ parent[q] # None => pid'[parent[q]] = pid[parent[q]]

LEMMA KeptSame ==
  ASSUME TreeInv, TreeInv', NEW q \in Slots, Kept(q)
  PROVE  /\ pid[q] \in Pids
         /\ Life'[pid[q]] = Life[pid[q]]
         /\ Mother'[pid[q]] = Mother[pid[q]]
         /\ Ret[pid[q]] = ret[q] /\ Ret'[pid[q]] = ret'[q]
<1>1. MappingFacts /\ MappingFacts'
  BY MappingValue, NextMappingValue
<1>2. /\ pid[q] \in Pids
      /\ Life[pid[q]] = IF status[q] = "LIVE" THEN "live" ELSE "zombie"
      /\ Mother[pid[q]] = IF parent[q] = None THEN 0 ELSE pid[parent[q]]
      /\ Ret[pid[q]] = ret[q]
  BY <1>1 DEF MappingFacts, Kept
<1>3. /\ Life'[pid'[q]] = IF status'[q] = "LIVE" THEN "live" ELSE "zombie"
      /\ Mother'[pid'[q]] = IF parent'[q] = None THEN 0 ELSE pid'[parent'[q]]
      /\ Ret'[pid'[q]] = ret'[q]
  BY <1>1 DEF MappingFacts, Kept
<1>. QED  BY <1>2, <1>3 DEF Kept

LEMMA AbsentSame ==
  ASSUME TreeInv, TreeInv', NEW x \in Pids,
         \A q \in Slots : Exists(q) => pid[q] # x,
         \A q \in Slots : Exists(q)' => pid'[q] # x,
         x > nextpid <=> x > nextpid'
  PROVE  Life'[x] = Life[x] /\ Mother'[x] = Mother[x] /\ Ret'[x] = Ret[x]
<1>1. MappingFacts /\ MappingFacts'
  BY MappingValue, NextMappingValue
<1>2. /\ Life[x] = IF x > nextpid THEN "unborn" ELSE "gone"
      /\ Mother[x] = 0 /\ Ret[x] = <<"none", 0>>
  BY <1>1 DEF MappingFacts
<1>3. /\ Life'[x] = IF x > nextpid' THEN "unborn" ELSE "gone"
      /\ Mother'[x] = 0 /\ Ret'[x] = <<"none", 0>>
  BY <1>1 DEF MappingFacts
<1>. QED  BY <1>2, <1>3

\* A step that changes what one call returned, and at most issues a pid that
\* nobody gets.
LEMMA OnlyReturns ==
  ASSUME TreeInv, TreeInv', NEW p \in Slots, Exists(p), NEW v,
         ret' = [ret EXCEPT ![p] = v],
         \A q \in Slots : Exists(q)' <=> Exists(q),
         \A q \in Slots : Exists(q) => Kept(q)
  PROVE  /\ pid[p] \in Pids
         /\ Mother' = Mother
         /\ Ret' = [Ret EXCEPT ![pid[p]] = v]
         /\ nextpid' = nextpid => Life' = Life
         /\ nextpid' = nextpid + 1 =>
              /\ nextpid + 1 \in Pids /\ Life[nextpid + 1] = "unborn"
              /\ Life' = [Life EXCEPT ![nextpid + 1] = "gone"]
<1>1. MappingFacts /\ MappingFacts'
  BY MappingValue, NextMappingValue
<1>2. pid[p] \in Pids
  BY KeptSame
<1>3. ret \in [Slots -> Returns] /\ nextpid \in Int /\ nextpid' \in Int
  BY DEF TreeInv, TypeOK
<1>4. ASSUME NEW x \in Pids
      PROVE  /\ Mother'[x] = Mother[x]
             /\ Ret'[x] = IF x = pid[p] THEN v ELSE Ret[x]
             /\ (x > nextpid <=> x > nextpid') => Life'[x] = Life[x]
  <2>1. ASSUME NEW q \in Slots, Exists(q), pid[q] = x
        PROVE  /\ Mother'[x] = Mother[x] /\ Life'[x] = Life[x]
               /\ Ret'[x] = IF x = pid[p] THEN v ELSE Ret[x]
    <3>1. /\ Life'[x] = Life[x] /\ Mother'[x] = Mother[x]
          /\ Ret[x] = ret[q] /\ Ret'[x] = ret'[q]
      BY <2>1, KeptSame
    <3>2. x = pid[p] <=> q = p
      BY <2>1 DEF TreeInv, PidsUnique, Exists
    <3>. QED  BY <1>3, <3>1, <3>2
  <2>2. ASSUME \A q \in Slots : Exists(q) => pid[q] # x
        PROVE  /\ Mother'[x] = Mother[x] /\ Ret'[x] = Ret[x] /\ x # pid[p]
               /\ (x > nextpid <=> x > nextpid') => Life'[x] = Life[x]
    <3>1. \A q \in Slots : Exists(q)' => pid'[q] # x
      BY <2>2 DEF Kept
    <3>2. Mother[x] = 0 /\ Ret[x] = <<"none", 0>>
      BY <1>1, <2>2 DEF MappingFacts
    <3>3. Mother'[x] = 0 /\ Ret'[x] = <<"none", 0>>
      BY <1>1, <3>1 DEF MappingFacts
    <3>. QED  BY <2>2, <3>1, <3>2, <3>3, AbsentSame
  <2>. QED  BY <2>1, <2>2
<1>5. Mother' = Mother
  BY <1>1, <1>4 DEF MappingFacts
<1>6. Ret' = [Ret EXCEPT ![pid[p]] = v]
  BY <1>1, <1>2, <1>4 DEF MappingFacts
<1>7. ASSUME nextpid' = nextpid
      PROVE  Life' = Life
  BY <1>1, <1>4, <1>7 DEF MappingFacts
<1>8. ASSUME nextpid' = nextpid + 1
      PROVE  /\ nextpid + 1 \in Pids /\ Life[nextpid + 1] = "unborn"
             /\ Life' = [Life EXCEPT ![nextpid + 1] = "gone"]
  <2>1. PICK n \in Int : n = nextpid + 1
    BY <1>3
  <2>2. n \in Pids
    <3>1. nextpid \in Nat /\ nextpid >= FirstPid
      <4>1. \E q \in Slots : pid[q] \in FirstPid .. nextpid
        BY DEF TreeInv, PidsUnique, Exists
      <4>. QED  BY <4>1, PidRange DEF FirstPid
    <3>. QED
      BY <1>8, <2>1, <3>1, NextPidRange, PidAssumption DEF Pids, FirstPid
  <2>3. \A q \in Slots : Exists(q) => pid[q] # n
    BY <1>3, <2>1 DEF TreeInv, PidsUnique, Exists, FirstPid
  <2>4. \A q \in Slots : Exists(q)' => pid'[q] # n
    BY <2>3 DEF Kept
  <2>5. Life[n] = "unborn" /\ Life'[n] = "gone"
    BY <1>1, <1>3, <1>8, <2>1, <2>2, <2>3, <2>4 DEF MappingFacts
  <2>6. ASSUME NEW x \in Pids, x # n
        PROVE  Life'[x] = Life[x]
    <3>1. x \in Int
      BY PidAssumption DEF Pids, FirstPid
    <3>. QED  BY <1>3, <1>4, <1>8, <2>1, <2>6, <3>1
  <2>7. Life' = [Life EXCEPT ![n] = "gone"]
    BY <1>1, <2>2, <2>5, <2>6 DEF MappingFacts
  <2>. QED  BY <2>1, <2>2, <2>5, <2>7
<1>. QED  BY <1>2, <1>5, <1>6, <1>7, <1>8

LEMMA ForkRefines ==
  ASSUME TreeInv, TreeInv', NEW p \in Slots, ForkFound(p)
  PROVE  \E x, y \in Pids : Abs!Fork(x, y)
<1>1. MappingFacts /\ MappingFacts'
  BY MappingValue, NextMappingValue
<1>. USE SlotFacts
<1>2. PICK c \in Slots, n \in Int : c = cur[p] /\ n = nextpid + 1
  <2>1. cur[p] \in Slots /\ nextpid + 1 \in Int
    BY DEF TreeInv, TypeOK
  <2>. QED  BY <2>1
<1>3. /\ status[p] = "LIVE" /\ status[c] = "FREE" /\ p # c /\ nextpid' = n
      /\ pid' = [pid EXCEPT ![c] = n]
      /\ status' = [status EXCEPT ![c] = "LIVE"]
      /\ parent' = [parent EXCEPT ![c] = p]
      /\ ret' = [ret EXCEPT ![p] = <<"fork", n>>, ![c] = <<"fork", 0>>]
  BY <1>2 DEF ForkFound, At, Locks
<1>4. /\ ret \in [Slots -> Returns]
      /\ status \in [Slots -> {"FREE", "ALLOCATED", "LIVE", "ZOMBIE"}]
      /\ pid \in [Slots -> Nat] /\ parent \in [Slots -> Slots \cup {None}]
      /\ nextpid \in Int
  BY DEF TreeInv, TypeOK
<1>5. \A q \in Slots : Exists(q) => pid[q] <= nextpid /\ pid[q] # n
  BY <1>2, <1>4 DEF TreeInv, PidsUnique, Exists, FirstPid
<1>6. Exists(p) /\ Exists(c)' /\ ~ Exists(c)
  BY <1>3, <1>4 DEF Exists
<1>7. pid[p] \in Pids /\ n \in Pids /\ pid[p] # n
  <2>1. pid'[c] \in Pids /\ pid[p] \in Pids
    BY <1>1, <1>6 DEF MappingFacts
  <2>. QED  BY <1>3, <1>4, <1>5, <1>6, <2>1
<1>8. Life[n] = "unborn" /\ Life[pid[p]] = "live"
  <2>1. Life[pid[p]] = "live"
    BY <1>1, <1>3, <1>6 DEF MappingFacts
  <2>2. n > nextpid
    BY <1>2, <1>4
  <2>. QED  BY <1>1, <1>5, <1>7, <2>1, <2>2 DEF MappingFacts
<1>9. /\ Life'[n] = "live" /\ Mother'[n] = pid[p] /\ Ret'[n] = <<"fork", 0>>
  <2>1. /\ pid'[c] = n /\ status'[c] = "LIVE" /\ parent'[c] = p
        /\ pid'[p] = pid[p] /\ ret'[c] = <<"fork", 0>>
    BY <1>3, <1>4
  <2>2. /\ Life'[pid'[c]] = IF status'[c] = "LIVE" THEN "live" ELSE "zombie"
        /\ Mother'[pid'[c]] = IF parent'[c] = None THEN 0 ELSE pid'[parent'[c]]
        /\ Ret'[pid'[c]] = ret'[c]
    BY <1>1, <1>6 DEF MappingFacts
  <2>. QED  BY <2>1, <2>2
<1>10. ASSUME NEW x \in Pids, x # n
       PROVE  /\ Life'[x] = Life[x] /\ Mother'[x] = Mother[x]
              /\ Ret'[x] = IF x = pid[p] THEN <<"fork", n>> ELSE Ret[x]
  <2>1. ASSUME NEW q \in Slots, Exists(q), pid[q] = x
        PROVE  /\ Life'[x] = Life[x] /\ Mother'[x] = Mother[x]
               /\ Ret'[x] = IF x = pid[p] THEN <<"fork", n>> ELSE Ret[x]
    <3>1. q # c /\ (parent[q] # None => parent[q] # c)
      BY <1>3, <1>6, <2>1 DEF TreeInv, ParentInv
    <3>2. Kept(q)
      BY <1>3, <1>4, <2>1, <3>1 DEF Kept, Exists
    <3>3. x = pid[p] <=> q = p
      BY <1>6, <2>1 DEF TreeInv, PidsUnique, Exists
    <3>4. ret'[q] = IF q = p THEN <<"fork", n>> ELSE ret[q]
      BY <1>3, <1>4, <3>1
    <3>. QED  BY <2>1, <3>2, <3>3, <3>4, KeptSame
  <2>2. ASSUME \A q \in Slots : Exists(q) => pid[q] # x
        PROVE  /\ Life'[x] = Life[x] /\ Mother'[x] = Mother[x]
               /\ Ret'[x] = Ret[x] /\ x # pid[p]
    <3>1. \A q \in Slots : Exists(q)' => pid'[q] # x
      BY <1>3, <1>4, <1>10, <2>2 DEF Exists
    <3>2. x > nextpid <=> x > nextpid'
      <4>1. x \in Int
        BY PidAssumption DEF Pids, FirstPid
      <4>. QED  BY <1>2, <1>3, <1>4, <1>10, <4>1
    <3>. QED  BY <1>6, <2>2, <3>1, <3>2, AbsentSame
  <2>. QED  BY <2>1, <2>2
<1>11. /\ Life' = [Life EXCEPT ![n] = "live"]
       /\ Mother' = [Mother EXCEPT ![n] = pid[p]]
       /\ Ret' = [Ret EXCEPT ![pid[p]] = <<"fork", n>>, ![n] = <<"fork", 0>>]
  BY <1>1, <1>7, <1>9, <1>10 DEF MappingFacts
<1>12. Abs!Fork(pid[p], n)
  BY <1>8, <1>11 DEF Abs!Fork, Abs!Lives
<1>. QED  BY <1>7, <1>12

LEMMA ExitRefines ==
  ASSUME ReapBeforeExit, TreeInv, TreeInv', NEW p \in Slots, Exit(p)
  PROVE  \E x \in Pids : Abs!Exit(x)
<1>1. MappingFacts /\ MappingFacts'
  BY MappingValue, NextMappingValue
<1>2. /\ status[p] = "LIVE" /\ status' = [status EXCEPT ![p] = "ZOMBIE"]
      /\ ret' = [ret EXCEPT ![p] = <<"none", 0>>]
      /\ UNCHANGED <<pid, parent, nextpid>>
  BY DEF Exit, At
<1>3. /\ ret \in [Slots -> Returns]
      /\ status \in [Slots -> {"FREE", "ALLOCATED", "LIVE", "ZOMBIE"}]
  BY DEF TreeInv, TypeOK
<1>4. Exists(p) /\ Exists(p)'
  BY <1>2, <1>3 DEF Exists
<1>5. /\ pid[p] \in Pids /\ Life[pid[p]] = "live" /\ Life'[pid[p]] = "zombie"
      /\ Mother'[pid[p]] = Mother[pid[p]] /\ Ret'[pid[p]] = <<"none", 0>>
  <2>1. /\ pid[p] \in Pids /\ Life[pid[p]] = "live"
        /\ Mother[pid[p]] = IF parent[p] = None THEN 0 ELSE pid[parent[p]]
    BY <1>1, <1>2, <1>4 DEF MappingFacts
  <2>2. /\ status'[p] = "ZOMBIE" /\ ret'[p] = <<"none", 0>>
    BY <1>2, <1>3
  <2>3. /\ Life'[pid'[p]] = IF status'[p] = "LIVE" THEN "live" ELSE "zombie"
        /\ Mother'[pid'[p]] = IF parent'[p] = None THEN 0 ELSE pid'[parent'[p]]
        /\ Ret'[pid'[p]] = ret'[p]
    BY <1>1, <1>4 DEF MappingFacts
  <2>. QED  BY <1>2, <2>1, <2>2, <2>3
<1>6. ASSUME NEW x \in Pids, x # pid[p]
      PROVE  /\ Life'[x] = Life[x] /\ Mother'[x] = Mother[x]
             /\ Ret'[x] = Ret[x]
  <2>1. ASSUME NEW q \in Slots, Exists(q), pid[q] = x
        PROVE  /\ Life'[x] = Life[x] /\ Mother'[x] = Mother[x]
               /\ Ret'[x] = Ret[x]
    <3>1. q # p
      BY <1>6, <2>1
    <3>2. Kept(q) /\ ret'[q] = ret[q]
      BY <1>2, <1>3, <2>1, <3>1 DEF Kept, Exists
    <3>. QED  BY <2>1, <3>2, KeptSame
  <2>2. ASSUME \A q \in Slots : Exists(q) => pid[q] # x
        PROVE  /\ Life'[x] = Life[x] /\ Mother'[x] = Mother[x]
               /\ Ret'[x] = Ret[x]
    <3>1. \A q \in Slots : Exists(q)' => pid'[q] # x
      BY <1>2, <1>3, <1>6, <2>2 DEF Exists
    <3>. QED  BY <1>2, <2>2, <3>1, AbsentSame
  <2>. QED  BY <2>1, <2>2
<1>7. /\ Life' = [Life EXCEPT ![pid[p]] = "zombie"]
      /\ Ret' = [Ret EXCEPT ![pid[p]] = <<"none", 0>>]
      /\ Mother' = Mother
  BY <1>1, <1>5, <1>6 DEF MappingFacts
<1>8. Abs!Exit(pid[p])
  BY <1>5, <1>7 DEF Abs!Exit, Abs!Lives, Abs!NoRet
<1>. QED  BY <1>5, <1>8

LEMMA ReapRefines ==
  ASSUME TreeInv, TreeInv', NEW p \in Slots, WaitReap(p)
  PROVE  \E x, y \in Pids : Abs!WaitReaps(x, y)
<1>1. MappingFacts /\ MappingFacts'
  BY MappingValue, NextMappingValue
<1>. USE SlotFacts
<1>2. PICK c, y : c \in Slots /\ c = cur[p] /\ y = pid[c]
  BY DEF TreeInv, TypeOK
<1>3. /\ status[p] = "LIVE" /\ status[c] = "ZOMBIE" /\ p # c /\ parent[c] = p
      /\ status' = [status EXCEPT ![c] = "FREE"]
      /\ pid' = [pid EXCEPT ![c] = 0]
      /\ parent' = [parent EXCEPT ![c] = None]
      /\ ret' = [ret EXCEPT ![p] = <<"wait", y>>]
      /\ nextpid' = nextpid
  BY <1>2 DEF WaitReap, At, Locks, Return
<1>4. /\ ret \in [Slots -> Returns]
      /\ status \in [Slots -> {"FREE", "ALLOCATED", "LIVE", "ZOMBIE"}]
      /\ pid \in [Slots -> Nat] /\ parent \in [Slots -> Slots \cup {None}]
  BY DEF TreeInv, TypeOK
<1>5. Exists(p) /\ Exists(c) /\ Exists(p)' /\ ~ Exists(c)'
  BY <1>2, <1>3, <1>4 DEF Exists
<1>6. pid[p] # y /\ \A q \in Slots : Exists(q) => (pid[q] = y <=> q = c)
  BY <1>2, <1>3, <1>5 DEF TreeInv, PidsUnique, Exists
<1>7. /\ pid[p] \in Pids /\ Life[pid[p]] = "live"
      /\ y \in Pids /\ Life[y] = "zombie" /\ Mother[y] = pid[p]
      /\ Ret[y] = <<"none", 0>>
  <2>1. ret[c] = <<"none", 0>> /\ parent[c] # None
    BY <1>2, <1>3 DEF TreeInv, CallInv
  <2>. QED  BY <1>1, <1>2, <1>3, <1>5, <2>1 DEF MappingFacts
<1>8. ~ (y > nextpid)
  <2>1. pid[c] \in FirstPid .. nextpid
    BY <1>2, <1>3 DEF TreeInv, PidsUnique
  <2>. QED  BY <1>2, <2>1, PidRange DEF FirstPid
<1>9. /\ Life'[y] = "gone" /\ Mother'[y] = 0 /\ Ret'[y] = <<"none", 0>>
  <2>1. \A q \in Slots : Exists(q)' => pid'[q] # y
    BY <1>3, <1>4, <1>5, <1>6 DEF Exists
  <2>. QED  BY <1>1, <1>3, <1>7, <1>8, <2>1 DEF MappingFacts
<1>10. ASSUME NEW x \in Pids, x # y
       PROVE  /\ Life'[x] = Life[x] /\ Mother'[x] = Mother[x]
              /\ Ret'[x] = IF x = pid[p] THEN <<"wait", y>> ELSE Ret[x]
  <2>1. ASSUME NEW q \in Slots, Exists(q), pid[q] = x
        PROVE  /\ Life'[x] = Life[x] /\ Mother'[x] = Mother[x]
               /\ Ret'[x] = IF x = pid[p] THEN <<"wait", y>> ELSE Ret[x]
    <3>1. q # c /\ (parent[q] # None => parent[q] # c)
      BY <1>3, <1>6, <1>10, <2>1 DEF TreeInv, ParentInv
    <3>2. Kept(q)
      BY <1>3, <1>4, <2>1, <3>1 DEF Kept, Exists
    <3>3. x = pid[p] <=> q = p
      BY <1>5, <2>1 DEF TreeInv, PidsUnique, Exists
    <3>4. ret'[q] = IF q = p THEN <<"wait", y>> ELSE ret[q]
      BY <1>3, <1>4
    <3>. QED  BY <2>1, <3>2, <3>3, <3>4, KeptSame
  <2>2. ASSUME \A q \in Slots : Exists(q) => pid[q] # x
        PROVE  /\ Life'[x] = Life[x] /\ Mother'[x] = Mother[x]
               /\ Ret'[x] = Ret[x] /\ x # pid[p]
    <3>1. \A q \in Slots : Exists(q)' => pid'[q] # x
      BY <1>3, <1>4, <2>2 DEF Exists
    <3>. QED  BY <1>3, <1>5, <2>2, <3>1, AbsentSame
  <2>. QED  BY <2>1, <2>2
<1>11. /\ Life' = [Life EXCEPT ![y] = "gone"]
       /\ Mother' = [Mother EXCEPT ![y] = 0]
       /\ Ret' = [Ret EXCEPT ![pid[p]] = <<"wait", y>>]
  <2>1. Life' = [Life EXCEPT ![y] = "gone"]
    BY <1>1, <1>7, <1>9, <1>10 DEF MappingFacts
  <2>2. Mother' = [Mother EXCEPT ![y] = 0]
    BY <1>1, <1>7, <1>9, <1>10 DEF MappingFacts
  <2>3. \A x \in Pids : Ret'[x] = IF x = pid[p] THEN <<"wait", y>> ELSE Ret[x]
    BY <1>6, <1>7, <1>9, <1>10
  <2>4. Ret' = [Ret EXCEPT ![pid[p]] = <<"wait", y>>]
    BY <1>1, <1>7, <2>3 DEF MappingFacts
  <2>. QED  BY <2>1, <2>2, <2>4
<1>12. Abs!WaitReaps(pid[p], y)
  BY <1>7, <1>11 DEF Abs!WaitReaps, Abs!Lives
<1>. QED  BY <1>7, <1>12

\* wait returns -1 only where no process has the caller as its parent.
LEMMA PassRefines ==
  ASSUME TreeInv, TreeInv', NEW p \in Slots, WaitPass(p)
  PROVE  UNCHANGED <<Life, Mother, Ret>> \/ \E x \in Pids : Abs!WaitFails(x)
<1>1. MappingFacts /\ MappingFacts'
  BY MappingValue, NextMappingValue
<1>. USE SlotFacts
<1>2. /\ status[p] = "LIVE" /\ pc[p] = "wait" /\ Exists(p)
      /\ UNCHANGED <<status, pid, parent, nextpid>>
  BY DEF WaitPass, At, Locks, Exists
<1>3. CASE UNCHANGED ret
  BY <1>2, <1>3 DEF Life, Mother, Ret, Present, SlotOf, Exists
<1>4. CASE ret' # ret
  <2>1. /\ cur[p] + 1 = NPROC /\ ~ havekids[p] /\ parent[cur[p]] # p
        /\ ret' = [ret EXCEPT ![p] = <<"wait", -1>>]
    BY <1>4 DEF WaitPass, Return
  <2>2. ASSUME NEW q \in Slots
        PROVE  parent[q] # p
    <3>1. q < cur[p] \/ q = cur[p]
      <4>1. cur[p] \in Slots
        BY DEF TreeInv, TypeOK
      <4>. QED  BY <2>1, <4>1, NPROCAssumption DEF Slots
    <3>. QED  BY <1>2, <2>1, <3>1 DEF TreeInv, CallInv
  <2>3. \A q \in Slots : /\ Exists(q)' <=> Exists(q)
                         /\ Exists(q) => Kept(q)
    BY <1>2 DEF Kept, Exists
  <2>4. /\ pid[p] \in Pids /\ Life' = Life /\ Mother' = Mother
        /\ Ret' = [Ret EXCEPT ![pid[p]] = <<"wait", -1>>]
    BY <1>2, <2>1, <2>3, OnlyReturns
  <2>5. Life[pid[p]] = "live"
    BY <1>1, <1>2 DEF MappingFacts
  <2>6. ASSUME NEW y \in Pids, Life[y] \in {"live", "zombie"}
        PROVE  Mother[y] # pid[p]
    <3>1. PICK q \in Slots : Exists(q) /\ pid[q] = y
      BY <1>1, <2>6 DEF MappingFacts
    <3>2. Mother[y] = IF parent[q] = None THEN 0 ELSE pid[parent[q]]
      BY <1>1, <3>1 DEF MappingFacts
    <3>3. pid[p] # 0
      BY <2>4, PidAssumption DEF Pids, FirstPid
    <3>4. parent[q] # None
            => parent[q] \in Slots /\ status[parent[q]] = "LIVE"
      BY DEF TreeInv, TypeOK, ParentInv
    <3>5. parent[q] # None => pid[parent[q]] # pid[p]
      BY <1>2, <2>2, <3>4 DEF TreeInv, PidsUnique
    <3>. QED  BY <3>2, <3>3, <3>5
  <2>7. Abs!WaitFails(pid[p])
    BY <2>4, <2>5, <2>6 DEF Abs!WaitFails, Abs!Lives, Abs!Child, Pids
  <2>. QED  BY <2>4, <2>7
<1>. QED  BY <1>3, <1>4

LEMMA FailRefines ==
  ASSUME TreeInv, TreeInv', NEW p \in Slots,
         \/ ForkFull(p) \/ ForkNoPage(p)
         \/ ForkNoTable(p) \/ ForkCopyFails(p)
  PROVE  \E x \in Pids : Abs!ForkFails(x)
<1>1. MappingFacts
  BY MappingValue
<1>. USE SlotFacts
<1>2. PICK c \in Slots : c = cur[p]
  BY DEF TreeInv, TypeOK
<1>3. /\ status[p] = "LIVE" /\ Exists(p) /\ parent' = parent
      /\ ret' = [ret EXCEPT ![p] = <<"fork", -1>>]
      /\ nextpid' = nextpid \/ nextpid' = nextpid + 1
  BY DEF ForkFull, ForkNoPage, ForkNoTable, ForkCopyFails, Return, At, Locks,
         Exists
<1>4. \/ UNCHANGED <<status, pid>>
      \/ /\ status[c] = "FREE"
         /\ \E n : pid' = [pid EXCEPT ![c] = n]
         /\ status' = status \/ status' = [status EXCEPT ![c] = "ALLOCATED"]
  BY <1>2 DEF ForkFull, ForkNoPage, ForkNoTable, ForkCopyFails
<1>5. \A q \in Slots : parent[q] # None =>
        parent[q] \in Slots /\ status[parent[q]] = "LIVE"
  BY DEF TreeInv, TypeOK, ParentInv
<1>6. \A q \in Slots : /\ Exists(q)' <=> Exists(q)
                       /\ Exists(q) => Kept(q)
  <2>1. CASE UNCHANGED <<status, pid>>
    BY <1>3, <2>1 DEF Kept, Exists
  <2>2. CASE ~ UNCHANGED <<status, pid>>
    <3>1. PICK n : /\ status[c] = "FREE" /\ pid' = [pid EXCEPT ![c] = n]
                   /\ \/ status' = status
                      \/ status' = [status EXCEPT ![c] = "ALLOCATED"]
      BY <1>4, <2>2
    <3>2. \A q \in Slots : q # c => pid'[q] = pid[q] /\ status'[q] = status[q]
      BY <3>1 DEF TreeInv, TypeOK
    <3>3. ~ Exists(c) /\ ~ Exists(c)'
      BY <3>1 DEF Exists, TreeInv, TypeOK
    <3>4. \A q \in Slots : parent[q] # None => parent[q] # c
      BY <1>5, <3>1
    <3>. QED  BY <1>3, <1>5, <3>2, <3>3, <3>4 DEF Kept, Exists
  <2>. QED  BY <2>1, <2>2
<1>7. /\ pid[p] \in Pids /\ Mother' = Mother
      /\ Ret' = [Ret EXCEPT ![pid[p]] = <<"fork", -1>>]
      /\ \/ Life' = Life
         \/ /\ nextpid + 1 \in Pids /\ Life[nextpid + 1] = "unborn"
            /\ Life' = [Life EXCEPT ![nextpid + 1] = "gone"]
  BY <1>3, <1>6, OnlyReturns
<1>8. Life[pid[p]] = "live"
  BY <1>1, <1>3 DEF MappingFacts
<1>9. Abs!ForkFails(pid[p])
  BY <1>7, <1>8 DEF Abs!ForkFails, Abs!Lives, Pids
<1>. QED  BY <1>7, <1>9

LEMMA TreeInit == Init => Abs!AbsInit
<1>. SUFFICES ASSUME Init
              PROVE  Abs!AbsInit
  OBVIOUS
<1>. USE SlotFacts DEF Init
<1>1. /\ \A p \in Slots : Exists(p) <=> p = 0
      /\ \A x \in Pids : Present(x) <=> x = FirstPid
  BY DEF Exists, Present
<1>2. Present(FirstPid) => SlotOf(FirstPid) = 0
  BY <1>1 DEF SlotOf
<1>3. \A x \in Pids : x # FirstPid => x > nextpid
  BY PidAssumption DEF Pids, FirstPid
<1>4. Life = [x \in Pids |-> IF x = FirstPid THEN "live" ELSE "unborn"]
  BY <1>1, <1>2, <1>3 DEF Life, Pids, FirstPid
<1>5. Mother = [x \in Pids |-> 0] /\ Ret = [x \in Pids |-> <<"none", 0>>]
  BY <1>1, <1>2 DEF Mother, Ret, Pids
<1>. QED  BY <1>4, <1>5 DEF Abs!AbsInit, Abs!NoRet, Pids

\* Programs that reap before they exit see a tree of processes in which wait
\* hands out each dead child once and to its own parent, for every size of the
\* process table and number of forks.
THEOREM Refinement ==
  ASSUME ReapBeforeExit
  PROVE  Spec => ImplementsAbsProc
<1>1. TreeInv /\ TreeInv' /\ [Next]_vars => [Abs!AbsNext]_(Abs!AbsVars)
  <2>. SUFFICES ASSUME TreeInv, TreeInv', [Next]_vars
                PROVE  [Abs!AbsNext]_(Abs!AbsVars)
    OBVIOUS
  <2>1. ASSUME NEW p \in Slots, ForkFound(p)
        PROVE  Abs!AbsNext
    BY <2>1, ForkRefines DEF Abs!AbsNext, Pids
  <2>2. ASSUME NEW p \in Slots, Exit(p)
        PROVE  Abs!AbsNext
    BY <2>2, ExitRefines DEF Abs!AbsNext, Pids
  <2>3. ASSUME NEW p \in Slots, WaitReap(p)
        PROVE  Abs!AbsNext
    BY <2>3, ReapRefines DEF Abs!AbsNext, Pids
  <2>4. ASSUME NEW p \in Slots, \/ ForkFull(p) \/ ForkNoPage(p)
                               \/ ForkNoTable(p) \/ ForkCopyFails(p)
        PROVE  Abs!AbsNext
    BY <2>4, FailRefines DEF Abs!AbsNext, Pids
  <2>5. ASSUME NEW p \in Slots, WaitPass(p)
        PROVE  [Abs!AbsNext]_(Abs!AbsVars)
    BY <2>5, PassRefines DEF Abs!AbsNext, Abs!AbsVars, Pids
  <2>6. ASSUME UNCHANGED <<status, pid, parent, nextpid, ret>>
        PROVE  UNCHANGED Abs!AbsVars
    BY <2>6 DEF Abs!AbsVars, Life, Mother, Ret, Present, SlotOf, Exists
  <2>7. ASSUME NEW p \in Slots, ForkCall(p) \/ ForkSkip(p) \/ WaitCall(p)
        PROVE  UNCHANGED Abs!AbsVars
    BY <2>6, <2>7 DEF ForkCall, ForkSkip, WaitCall
  <2>8. CASE Stop \/ UNCHANGED vars
    BY <2>6, <2>8 DEF vars, Stop
  <2>. QED
    BY <2>1, <2>2, <2>3, <2>4, <2>5, <2>7, <2>8 DEF Next, Kernel, Halt
<1>. QED
  BY <1>1, TreeInit, TreeInvariant, PTL DEF Spec, ImplementsAbsProc, Abs!AbsSpec

=========================================================================
