----------------------------- MODULE Console ----------------------------
(***************************************************************************)
(* Console input, kernel/driver/console.c: the UART interrupt puts         *)
(* characters into a ring buffer whose indices are machine words that run  *)
(* on and wrap around, and console_read takes them out, polling.  Both     *)
(* hold cons.lock with interrupts off while they touch the buffer, so each *)
(* critical section is a step.  A reader that finds nothing releases the   *)
(* lock and tries again: no change, hence no action.                       *)
(* A definition whose comment begins "A mutation" is not part of the       *)
(* model (see Sched).                                                      *)
(***************************************************************************)
EXTENDS Integers, Sequences

CONSTANTS
  Proc,      \* the processes that read the console
  BufSize,   \* INPUT_BUF_SIZE
  WordMod,   \* 2 to the width of uint
  ReadMax    \* size of the local buffer of console_read

ASSUME BufAssumption  == BufSize \in Nat \ {0}
ASSUME ReadAssumption == ReadMax \in Nat \ {0}
ASSUME WordAssumption == /\ WordMod \in Nat
                         /\ WordMod > BufSize
                         /\ WordMod % BufSize = 0

\* What a terminal sends: a letter, newline, carriage return.
Typed == {"a", "nl", "cr"}
Char  == {"a", "nl"}

Word == 0 .. WordMod - 1

VARIABLES
  r, w, e,   \* cons.r, cons.w, cons.e
  buf,       \* cons.buf
  want,      \* len of each process's console_read; 0 when it is not in one
  line       \* the first n characters of its local buffer

vars == <<r, w, e, buf, want, line>>

\* consoleinit()
Init ==
  /\ r = 0 /\ w = 0 /\ e = 0
  /\ buf  = [i \in 0 .. BufSize - 1 |-> "nul"]
  /\ want = [p \in Proc |-> 0]
  /\ line = [p \in Proc |-> <<>>]

\* uint subtraction.
Sub(x, y) == (x - y) % WordMod

-------------------------------------------------------------------------
\* console_intr()

Cooked(c) == IF c = "cr" THEN "nl" ELSE c

\* Mutations: one character too many fits; the characters are not released
\* to the readers.
IntrOverfull(c) ==
  /\ Sub(e, r) <= BufSize
  /\ buf' = [buf EXCEPT ![e % BufSize] = Cooked(c)]
  /\ e' = (e + 1) % WordMod
  /\ w' = e'
  /\ UNCHANGED <<r, want, line>>

IntrNoCommit(c) ==
  /\ Sub(e, r) < BufSize
  /\ buf' = [buf EXCEPT ![e % BufSize] = Cooked(c)]
  /\ e' = (e + 1) % WordMod
  /\ UNCHANGED <<r, w, want, line>>

\* With the buffer full the character is dropped: no change.
Intr(c) ==
  /\ Sub(e, r) < BufSize
  /\ buf' = [buf EXCEPT ![e % BufSize] = Cooked(c)]
  /\ e' = (e + 1) % WordMod
  /\ w' = e'
  /\ UNCHANGED <<r, want, line>>

-------------------------------------------------------------------------
\* console_read()

\* A mutation: len is not cut to the size of the local buffer.
ReadCallUncut(p, len) ==
  /\ want[p] = 0
  /\ len > 0
  /\ want' = [want EXCEPT ![p] = len]
  /\ UNCHANGED <<r, w, e, buf, line>>

\* A read of no characters returns at once: no change.
ReadCall(p, len) ==
  /\ want[p] = 0
  /\ len > 0
  /\ want' = [want EXCEPT ![p] = IF len > ReadMax THEN ReadMax ELSE len]
  /\ UNCHANGED <<r, w, e, buf, line>>

\* The loop goes on: n < len, and the last character was not a newline.
Polling(p) ==
  /\ Len(line[p]) < want[p]
  /\ line[p] # <<>> => line[p][Len(line[p])] # "nl"

\* A mutation: cons.r is advanced before the character is fetched.
ReadCharLate(p) ==
  /\ Polling(p)
  /\ r # w
  /\ r' = (r + 1) % WordMod
  /\ line' = [line EXCEPT ![p] = Append(@, buf[r' % BufSize])]
  /\ UNCHANGED <<w, e, buf, want>>

ReadChar(p) ==
  /\ Polling(p)
  /\ r # w
  /\ line' = [line EXCEPT ![p] = Append(@, buf[r % BufSize])]
  /\ r' = (r + 1) % WordMod
  /\ UNCHANGED <<w, e, buf, want>>

\* copyout, and return; if it fails the characters are gone all the same.
ReadReturn(p) ==
  /\ want[p] > 0
  /\ ~ Polling(p)
  /\ want' = [want EXCEPT ![p] = 0]
  /\ line' = [line EXCEPT ![p] = <<>>]
  /\ UNCHANGED <<r, w, e, buf>>

-------------------------------------------------------------------------
Next ==
  \/ \E c \in Typed : Intr(c)
  \/ \E p \in Proc : \/ \E len \in 0 .. ReadMax + 1 : ReadCall(p, len)
                     \/ ReadChar(p)
                     \/ ReadReturn(p)

Spec == Init /\ [][Next]_vars

\* A process in the loop of console_read is READY or RUNNING and is scheduled
\* again and again (Sched), and an interrupt cannot keep cons.lock from it.
\* Nobody has to type, nor to call read.
Fairness == \A p \in Proc : WF_vars(ReadChar(p)) /\ WF_vars(ReadReturn(p))

FairSpec == Spec /\ Fairness

-------------------------------------------------------------------------
TypeOK ==
  /\ r \in Word /\ w \in Word /\ e \in Word
  /\ buf  \in [0 .. BufSize - 1 -> Char \cup {"nul"}]
  /\ want \in [Proc -> 0 .. ReadMax]
  /\ line \in [Proc -> Seq(Char)]
  /\ \A p \in Proc : Len(line[p]) <= want[p]

\* The interrupt never overtakes the readers, wherever the indices have
\* wrapped to, and a reader sees every character the interrupt has stored.
IndicesAgree == Sub(e, r) <= BufSize /\ w = e

\* The unread characters, oldest first.
Queue == [i \in 1 .. Sub(w, r) |-> buf[((r + i - 1) % WordMod) % BufSize]]

Abs == INSTANCE AbsConsole WITH NL <- "nl", Size <- BufSize,
                                MaxRead <- ReadMax, queue <- Queue

\* The ring buffer is a queue: each accepted character reaches one reader,
\* in the order of typing, also when the indices wrap around, and a read
\* ends at a newline or when it has what it asked for.
ImplementsAbsConsole == Abs!AbsSpec

\* While somebody reads, a stored character is eventually taken.
ReadersDrain ==
  \A i \in Word :
    r = i /\ e # r /\ (\E p \in Proc : Polling(p)) ~> r # i

=========================================================================
