------------------------------ MODULE MCVM ------------------------------
(***************************************************************************)
(* Machines for VM: on the first memory runs out at every step of fork and *)
(* exec while two processes exist; the second is just large enough for     *)
(* three, of which one may be an orphan.                                   *)
(*                                                                         *)
(* And inputs for the functions of UserMem, which have no state of their   *)
(* own: each is an initial state that goes nowhere, with the call in       *)
(* asked.                                                                  *)
(***************************************************************************)
EXTENDS VM, UserMem, TLC

VARIABLE asked

MCMachines == {[pages |-> 22, pipes |-> 3], [pages |-> 24, pipes |-> 0]}

\* What a page holds is only ever copied and compared.
ContentSymmetry == Permutations(Content)

Nothing == [call |-> "none"]

-----------------------------------------------------------------------------
(* Calls of the copy functions: ranges that begin and end at, just before  *)
(* and just after the ends of pages, over every choice of entries.  The    *)
(* byte at nul is zero, no other is, and neighbours differ.                *)

Starts  == {0, 1, PGSIZE - 1, PGSIZE, PGSIZE + 3, 2 * PGSIZE - 1, 2 * PGSIZE,
            MAXVA - 1, MAXVA, VAMod - 1}
Lengths == {0, 1, 2, PGSIZE - 1, PGSIZE, PGSIZE + 1, 2 * PGSIZE, 2 * PGSIZE + 2}
Nuls    == {0, PGSIZE - 1, PGSIZE, PGSIZE + 5, MAXVA - 1}

CopyCalls ==
  [call : {"copyin", "copyout"}, pte : PTEs, va : Starts, len : Lengths,
   nul : {0}]
  \cup
  [call : {"copyinstr"}, pte : PTEs, va : Starts, len : Lengths, nul : Nuls]

CopyMemory(c) ==
  [pte  |-> c.pte,
   byte |-> [a \in VA |-> IF a = c.nul THEN Nul ELSE (a % (Code - 1)) + 1]]

\* What copyout is given.
Source(n) == [i \in 1 .. n |-> Code]

-----------------------------------------------------------------------------
(* Calls of exec: a short string, one across the end of a page that has    *)
(* just MAXPATH bytes, or one more, one that runs into the end of memory,  *)
(* and the array of pointers across the end of a page.                     *)

\* The strings below are at addresses.
ASSUME StringAssumption == PGSIZE >= 4

ShortString == 3
LongString  == PGSIZE - 3
Endless     == MAXVA - 4
ArgArray    == 2 * PGSIZE - 2 * PTRSIZE - 1

ExecCalls ==
  [call : {"exec"},
   pte  : [0 .. MAXVA \div PGSIZE - 1 -> {"kernel", "write"}],
   argv : [1 .. MAXARG -> {0, ShortString, LongString, LongString - 1,
                              Endless}],
   size : {1, 2 * PTRSIZE, 3 * PTRSIZE}]

ExecMemory(c) ==
  [pte  |-> c.pte,
   byte |-> [a \in VA |->
     LET i == a - ArgArray
     IN IF i \in 0 .. MAXARG * PTRSIZE - 1 THEN StoredAll(c.argv)[i + 1]
        ELSE IF a \in {ShortString + 2, LongString + MAXPATH - 1} THEN Nul
        ELSE (a % 7) + 1]]

-----------------------------------------------------------------------------
MCInit ==
  /\ Init
  /\ \/ asked = Nothing
     \/ quota = 0 /\ asked \in CopyCalls \cup ExecCalls

MCNext == asked = Nothing /\ Next /\ UNCHANGED asked

MCSpec == MCInit /\ [][MCNext]_<<vars, asked>>

-----------------------------------------------------------------------------
(* References, byte by byte and in whole numbers.                          *)

Readable(m, a)  == a \in VA /\ m.pte[a \div PGSIZE] \in {"read", "write"}
Writable(m, a)  == a \in VA /\ m.pte[a \div PGSIZE] = "write"

\* The n bytes of the string at va come before a Nul, all of it readable.
IsString(m, va, n) ==
  /\ \A a \in va .. va + n : Readable(m, a)
  /\ \A a \in va .. va + n - 1 : m.byte[a] # Nul
  /\ m.byte[va + n] = Nul

CopyInAgrees(m, va, n) ==
  LET c == CopyIn(m, va, n)
  IN /\ c.ok <=> \A a \in va .. va + n - 1 : Readable(m, a)
     /\ c.ok => c.got = Bytes(m, va, n)

\* When it fails, what comes before the first page that cannot be written is
\* written.
CopyOutAgrees(m, va, s) ==
  LET c    == CopyOut(m, va, s)
      Done == {a \in va .. va + Len(s) - 1 :
                 \A b \in va .. a : Writable(m, b)}
  IN /\ c.ok <=> Done = va .. va + Len(s) - 1
     /\ c.mem.pte = m.pte
     /\ c.mem.byte = [a \in VA |-> IF a \in Done THEN s[a - va + 1]
                                   ELSE m.byte[a]]

CopyInStrAgrees(m, va, max) ==
  LET c == CopyInStr(m, va, max)
  IN /\ c.ok <=> \E n \in 0 .. max - 1 : IsString(m, va, n)
     /\ c.ok => /\ IsString(m, va, Len(c.got))
                /\ c.got = Bytes(m, va, Len(c.got))

\* copyin, copyout and copyinstr move exactly the bytes asked for, across the
\* ends of pages, and fail exactly when one of them is not the program's to
\* read, or to write (kernel/mm/vm.c).
CopiesAgree ==
  /\ asked.call = "copyin" =>
       CopyInAgrees(CopyMemory(asked), asked.va, asked.len)
  /\ asked.call = "copyout" =>
       CopyOutAgrees(CopyMemory(asked), asked.va, Source(asked.len))
  /\ asked.call = "copyinstr" =>
       CopyInStrAgrees(CopyMemory(asked), asked.va, asked.len)

\* A caller of exec, c below: its memory, where its array of pointers begins,
\* and the pointers.
Caller(call) == [mem |-> ExecMemory(call), uargv |-> ArgArray, argv |-> call.argv]

\* c passes n strings, all of which it can read.
PassedArgs(c, n) ==
  /\ \A a \in c.uargv .. c.uargv + (n + 1) * PTRSIZE - 1 : Readable(c.mem, a)
  /\ n < MAXARG /\ c.argv[n + 1] = 0
  /\ \A i \in 1 .. n : /\ c.argv[i] # 0
                       /\ \E k \in 0 .. MAXPATH - 1 :
                            IsString(c.mem, c.argv[i], k)

StringLen(m, va) == CHOOSE k \in 0 .. MAXVA : IsString(m, va, k)

\* Where the array of pointers begins, were addresses whole numbers.
StackEnd(c, n) ==
  LET sp[i \in 0 .. n] ==
        IF i = 0 THEN PGSIZE
        ELSE AlignDown(sp[i - 1] - StringLen(c.mem, c.argv[i]) - 1, PTRSIZE)
  IN AlignDown(sp[n] - (n + 1) * PTRSIZE, 2 * PTRSIZE)

\* Pointer i, from 0, of the array at va.
Pointer(m, va, i) == Loaded(Bytes(m, va + i * PTRSIZE, PTRSIZE))

\* The new program, of the given size, finds the n strings of c through its
\* registers, and its code as it was loaded.
Arrived(c, n, size, new) ==
  LET m         == new.mem
      passed(i) == c.argv[i + 1]
      k(i)      == StringLen(c.mem, passed(i))
  IN /\ new.a0 = n /\ new.sp = new.a1 /\ new.sp % (2 * PTRSIZE) = 0
     /\ Pointer(m, new.a1, n) = 0
     /\ \A i \in 0 .. n - 1 :
          LET va == Pointer(m, new.a1, i)
          IN /\ IsString(m, va, k(i))
             /\ Bytes(m, va, k(i)) = Bytes(c.mem, passed(i), k(i))
     /\ \A a \in 0 .. size - 1 : m.byte[a] = Code

ExecAgrees(c, size) ==
  LET new == SysExec(c.mem, c.uargv, size)
  IN /\ new.ok <=> \E n \in 0 .. MAXARG :
                     PassedArgs(c, n) /\ StackEnd(c, n) >= size
     /\ new.ok => \E n \in 0 .. MAXARG :
                     PassedArgs(c, n) /\ Arrived(c, n, size, new)

\* exec succeeds exactly when the strings are the caller's to read and fit
\* above the program, whatever the subtractions from sp wrap to, and then the
\* new program finds them all (sys_exec, kexec).
ExecArgsArrive ==
  asked.call = "exec" => ExecAgrees(Caller(asked), asked.size)

=============================================================================
