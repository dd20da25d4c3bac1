----------------------------- MODULE AbsFiles ----------------------------
(***************************************************************************)
(* What the descriptors of a process stand for (kernel/fs/file.c,          *)
(* kernel/syscall/sysfile.c, kfork): where a read from one and a write to  *)
(* one go.  There are no files and no counts here, so nothing two          *)
(* processes do to their own descriptors can meet.                         *)
(* A slot keeps what its descriptors stood for when its process is gone.   *)
(***************************************************************************)
EXTENDS Naturals

CONSTANTS Slot, Fd, PipeName

VARIABLES
  taken,   \* is the slot in use
  reads,   \* where a read from descriptor d of slot s goes
  writes   \* where a write to it goes

AbsVars == <<taken, reads, writes>>

Refused == <<>>
Console == <<"console">>
Pipe(k) == <<"pipe", k>>

Open(s, d) == reads[s][d] # Refused \/ writes[s][d] # Refused

AbsInit ==
  /\ taken  = [s \in Slot |-> s = 0]
  /\ reads  = [s \in Slot |-> [d \in Fd |->
                 IF s = 0 /\ d = 0 THEN Console ELSE Refused]]
  /\ writes = [s \in Slot |-> [d \in Fd |->
                 IF s = 0 /\ d = 1 THEN Console ELSE Refused]]

Take(c) == ~ taken[c] /\ taken' = [taken EXCEPT ![c] = TRUE]

\* The slot of a new process, before it gets anything from its parent.
MadeReads(c)  == [reads[c] EXCEPT ![0] = Console, ![1] = Refused]
MadeWrites(c) == [writes[c] EXCEPT ![0] = Refused, ![1] = Console]

\* A child sees what its parent has open; elsewhere the console it was made
\* with, and what the slot kept.
Fork(p, c) ==
  LET Seen(view, old) == [d \in Fd |-> IF Open(p, d) THEN view[p][d] ELSE old[d]]
  IN /\ Take(c)
     /\ reads'  = [reads EXCEPT ![c] = Seen(reads, MadeReads(c))]
     /\ writes' = [writes EXCEPT ![c] = Seen(writes, MadeWrites(c))]

\* The fork fails after the child's console was opened.
ForkFails(c) ==
  /\ Take(c)
  /\ reads'  = [reads EXCEPT ![c] = MadeReads(c)]
  /\ writes' = [writes EXCEPT ![c] = MadeWrites(c)]

\* The two lowest closed descriptors become the ends of a pipe that nobody
\* else has.
OpenPipe(p) ==
  /\ UNCHANGED taken
  /\ \E r \in Fd :
       /\ ~ Open(p, r) /\ reads'[p][r] # Refused
       /\ \E w \in Fd, k \in PipeName :
            /\ r < w
            /\ \A d \in Fd : d <= w => (~ Open(p, d) <=> d \in {r, w})
            /\ reads'  = [reads EXCEPT ![p][r] = Pipe(k)]
            /\ writes' = [writes EXCEPT ![p][w] = Pipe(k)]
            /\ \A s \in Slot, d \in Fd :
                 Pipe(k) \notin {reads[s][d], writes[s][d]}

Reap(c) ==
  /\ taken[c]
  /\ taken' = [taken EXCEPT ![c] = FALSE]
  /\ UNCHANGED <<reads, writes>>

AbsNext ==
  \/ \E p, c \in Slot : taken[p] /\ Fork(p, c)
  \/ \E c \in Slot : ForkFails(c) \/ OpenPipe(c) \/ Reap(c)

AbsSpec == AbsInit /\ [][AbsNext]_AbsVars

=========================================================================
