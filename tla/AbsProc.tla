----------------------------- MODULE AbsProc ----------------------------
(***************************************************************************)
(* What fork, exit and wait promise to user programs (user/user.h): a tree *)
(* of processes named by pids that are never used twice, in which wait     *)
(* hands out each dead child exactly once, to the process that forked it.  *)
(***************************************************************************)
EXTENDS Integers

CONSTANTS Pid,     \* the process identifiers
          Root,    \* that of the first process
          Nobody   \* the parent of the first process

VARIABLES
  life,    \* "unborn", "live", "zombie" or "gone"
  mother,  \* of a live or zombie process: the process that forked it
  ret      \* of a live process: its last system call and what it returned

NoRet == <<"none", 0>>

AbsVars == <<life, mother, ret>>

Lives(x) == life[x] = "live"

Child(x, y) == life[y] \in {"live", "zombie"} /\ mother[y] = x

AbsInit ==
  /\ life   = [x \in Pid |-> IF x = Root THEN "live" ELSE "unborn"]
  /\ mother = [x \in Pid |-> Nobody]
  /\ ret    = [x \in Pid |-> NoRet]

Fork(x, y) ==
  /\ Lives(x)
  /\ life[y] = "unborn"
  /\ life'   = [life EXCEPT ![y] = "live"]
  /\ mother' = [mother EXCEPT ![y] = x]
  /\ ret'    = [ret EXCEPT ![x] = <<"fork", y>>, ![y] = <<"fork", 0>>]

\* A fork that fails may use up a pid.
ForkFails(x) ==
  /\ Lives(x)
  /\ ret' = [ret EXCEPT ![x] = <<"fork", -1>>]
  /\ \/ UNCHANGED life
     \/ \E y \in Pid : life[y] = "unborn" /\ life' = [life EXCEPT ![y] = "gone"]
  /\ UNCHANGED mother

Exit(x) ==
  /\ Lives(x)
  /\ life' = [life EXCEPT ![x] = "zombie"]
  /\ ret'  = [ret EXCEPT ![x] = NoRet]
  /\ UNCHANGED mother

\* wait returns the pid of a dead child of the caller, which is then gone.
WaitReaps(x, y) ==
  /\ Lives(x)
  /\ life[y] = "zombie"
  /\ mother[y] = x
  /\ life'   = [life EXCEPT ![y] = "gone"]
  /\ mother' = [mother EXCEPT ![y] = Nobody]
  /\ ret'    = [ret EXCEPT ![x] = <<"wait", y>>]

\* wait returns -1 only to a process without children.
WaitFails(x) ==
  /\ Lives(x)
  /\ \A y \in Pid : ~ Child(x, y)
  /\ ret' = [ret EXCEPT ![x] = <<"wait", -1>>]
  /\ UNCHANGED <<life, mother>>

AbsNext ==
  \/ \E x \in Pid : ForkFails(x) \/ Exit(x) \/ WaitFails(x)
  \/ \E x, y \in Pid : Fork(x, y) \/ WaitReaps(x, y)

AbsSpec == AbsInit /\ [][AbsNext]_AbsVars

=========================================================================
