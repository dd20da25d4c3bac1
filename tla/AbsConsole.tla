--------------------------- MODULE AbsConsole ---------------------------
(***************************************************************************)
(* What the console input promises: a bounded queue of characters, each    *)
(* of which goes to one reader, in the order of typing; a read returns a   *)
(* line, or as many characters as were asked for.                          *)
(***************************************************************************)
EXTENDS Naturals, Sequences

CONSTANTS Proc,    \* the processes that read
          Char,    \* the characters
          NL,      \* the one that ends a line
          Size,    \* capacity of the queue
          MaxRead  \* the longest read

VARIABLES
  queue,   \* characters typed and not read
  want,    \* what each process's read asks for; 0 when it is not reading
  line     \* what each process's read has got so far

AbsVars == <<queue, want, line>>

AbsInit == /\ queue = <<>>
           /\ want  = [p \in Proc |-> 0]
           /\ line  = [p \in Proc |-> <<>>]

\* A character typed into a full queue is lost: no change.
Arrive(c) ==
  /\ Len(queue) < Size
  /\ queue' = Append(queue, c)
  /\ UNCHANGED <<want, line>>

Begin(p, n) ==
  /\ want[p] = 0
  /\ want' = [want EXCEPT ![p] = n]
  /\ UNCHANGED <<queue, line>>

Complete(p) ==
  /\ want[p] > 0
  /\ Len(line[p]) = want[p] \/ (line[p] # <<>> /\ line[p][Len(line[p])] = NL)

Deliver(p) ==
  /\ want[p] > 0
  /\ ~ Complete(p)
  /\ queue # <<>>
  /\ line'  = [line EXCEPT ![p] = Append(@, Head(queue))]
  /\ queue' = Tail(queue)
  /\ UNCHANGED want

Return(p) ==
  /\ Complete(p)
  /\ want' = [want EXCEPT ![p] = 0]
  /\ line' = [line EXCEPT ![p] = <<>>]
  /\ UNCHANGED queue

AbsNext ==
  \/ \E c \in Char : Arrive(c)
  \/ \E p \in Proc : \/ \E n \in 1 .. MaxRead : Begin(p, n)
                     \/ Deliver(p)
                     \/ Return(p)

AbsSpec == AbsInit /\ [][AbsNext]_AbsVars

=========================================================================
