--------------------------- MODULE SchedBypass --------------------------
(***************************************************************************)
(* How long a READY process waits for its turn: Sched with a history       *)
(* variable that counts the dispatches of other processes since a process  *)
(* last became READY.                                                      *)
(***************************************************************************)
EXTENDS Sched

VARIABLE bypass

BypassInit == Init /\ bypass = [q \in Slots |-> 0]

Dispatched(p) == status[p] = "READY" /\ status'[p] = "RUNNING"

Waiting(q) == status[q] = "READY" /\ status'[q] = "READY"

Count ==
  bypass' = [q \in Slots |->
               IF ~ Waiting(q) THEN 0
               ELSE IF \E p \in Slots : Dispatched(p) THEN bypass[q] + 1
               ELSE bypass[q]]

BypassSpec == BypassInit /\ [][Next /\ Count]_<<vars, bypass>>

\* The loop of scheduler() is a round robin whatever processes do meanwhile,
\* forking, exiting and yielding at any point of its scan: a READY process
\* sees at most NPROC - 1 dispatches of other processes before its own.
BoundedBypass == \A q \in Slots : bypass[q] <= NPROC - 1

=========================================================================
