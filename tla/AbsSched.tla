---------------------------- MODULE AbsSched ----------------------------
(***************************************************************************)
(* What the scheduler and the process system calls promise: the life cycle *)
(* of enum task_status (kernel/include/proc.h) in which one process at a   *)
(* time executes, and only the executing process creates, ends or frees    *)
(* a process.  ALLOCATED is not part of the promise: a slot under          *)
(* construction is still FREE to everybody else.                           *)
(***************************************************************************)
CONSTANTS Proc,   \* the processes
          Root    \* the first of them, created at boot

VARIABLE task

TaskStates == {"FREE", "READY", "RUNNING", "ZOMBIE"}

AbsInit == task = [p \in Proc |-> IF p = Root THEN "READY" ELSE "FREE"]

Running(p) == task[p] = "RUNNING"

Dispatch(p) ==
  /\ task[p] = "READY"
  /\ \A q \in Proc : ~ Running(q)
  /\ task' = [task EXCEPT ![p] = "RUNNING"]

Deschedule(p) ==
  /\ Running(p)
  /\ task' = [task EXCEPT ![p] = "READY"]

Exit(p) ==
  /\ Running(p)
  /\ task' = [task EXCEPT ![p] = "ZOMBIE"]

Fork(p, q) ==
  /\ Running(p)
  /\ task[q] = "FREE"
  /\ task' = [task EXCEPT ![q] = "READY"]

Reap(p, q) ==
  /\ Running(p)
  /\ task[q] = "ZOMBIE"
  /\ task' = [task EXCEPT ![q] = "FREE"]

AbsNext ==
  \/ \E p \in Proc : Dispatch(p) \/ Deschedule(p) \/ Exit(p)
  \/ \E p, q \in Proc : Fork(p, q) \/ Reap(p, q)

AbsSpec == AbsInit /\ [][AbsNext]_task

=========================================================================
