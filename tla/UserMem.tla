----------------------------- MODULE UserMem ----------------------------
(***************************************************************************)
(* The kernel's access to user memory (copyin, copyout, copyinstr in       *)
(* kernel/mm/vm.c) and what exec makes of it: sys_exec collects the        *)
(* argument strings of the caller, kexec lays them out on the stack of the *)
(* new image.  Operators only; each returns what the function leaves.      *)
(*                                                                         *)
(* A memory is its page table entries and its bytes, by virtual address:   *)
(* no page is mapped twice (OneOwner of VM).  A pointer is PTRSIZE bytes,  *)
(* least significant first, and addresses are words that wrap.             *)
(* A definition whose comment begins "A mutation" is not part of the       *)
(* model (see Sched).                                                      *)
(***************************************************************************)
EXTENDS Integers, Sequences, Loops

CONSTANTS
  PGSIZE, MAXVA,
  PTRSIZE,         \* sizeof(uint64)
  ByteMod,         \* values of a byte
  MAXARG, MAXPATH

VAMod == Power(ByteMod, PTRSIZE)

ASSUME SizeAssumption == /\ PTRSIZE \in Nat \ {0} /\ ByteMod \in Nat \ {0}
                         /\ PGSIZE \in Nat \ {0} /\ PGSIZE % (2 * PTRSIZE) = 0
                         /\ MAXVA \in Nat \ {0} /\ MAXVA % PGSIZE = 0
                         /\ MAXVA + PGSIZE <= VAMod
ASSUME ArgAssumption  == MAXARG \in Nat /\ MAXPATH \in Nat

VA   == 0 .. MAXVA - 1
PTEs == [0 .. MAXVA \div PGSIZE - 1 -> {"invalid", "kernel", "read", "write"}]

Sub(x, y) == (x - y) % VAMod
Add(x, y) == (x + y) % VAMod

Nul == 0

AlignDown(x, n) == x - (x % n)

Less(x, y) == IF x < y THEN x ELSE y

Bytes(m, va, n) == [i \in 1 .. n |-> m.byte[va + i - 1]]
Prefix(s, n)    == SubSeq(s, 1, n)
Beyond(s, n)    == SubSeq(s, n + 1, Len(s))

\* A pointer as it lies in memory, and back.
Stored(v) ==
  LET Shift(x) == x \div ByteMod
  IN [i \in 1 .. PTRSIZE |-> Rounds(Shift, v, i - 1) % ByteMod]

Loaded(s) ==
  LET top[i \in 0 .. Len(s)] ==
        IF i = 0 THEN 0 ELSE s[Len(s) + 1 - i] + ByteMod * top[i - 1]
  IN top[Len(s)]

\* An array of pointers.
StoredAll(s) ==
  [i \in 1 .. Len(s) * PTRSIZE |->
     Stored(s[((i - 1) \div PTRSIZE) + 1])[((i - 1) % PTRSIZE) + 1]]

-----------------------------------------------------------------------------
(* vm.c *)

\* walkaddr() finds a valid entry with PTE_U.
UserPage(m, va) ==
  va < MAXVA /\ m.pte[va \div PGSIZE] \in {"read", "write"}

InPage(va) == PGSIZE - (va % PGSIZE)

\* A mutation: the next chunk begins at the same offset in the next page.
NextPageSameOffset(va) == va + PGSIZE

NextPage(va) == AlignDown(va, PGSIZE) + PGSIZE

\* The loops below keep in st what their variables hold: where they read or
\* write, what is left, and what they got so far.

CopyInRound(m, st) ==
  LET n == Less(InPage(st.va), st.len)
  IN IF ~ st.ok \/ st.len = 0 THEN st
     ELSE IF ~ UserPage(m, st.va) THEN [st EXCEPT !.ok = FALSE]
     ELSE [ok |-> TRUE, va |-> NextPage(st.va), len |-> st.len - n,
           got |-> st.got \o Bytes(m, st.va, n)]

CopyIn(m, va, len) ==
  LET Round(st) == CopyInRound(m, st)
  IN Rounds(Round, [ok |-> TRUE, va |-> va, len |-> len, got |-> <<>>], len)

Overwritten(m, va, s) ==
  [m EXCEPT !.byte = [a \in VA |-> IF a \in va .. va + Len(s) - 1
                                   THEN s[a - va + 1] ELSE @[a]]]

CopyOutRound(st) ==
  LET n == Less(InPage(st.va), Len(st.src))
  IN IF ~ st.ok \/ st.src = <<>> THEN st
     ELSE IF ~ (UserPage(st.mem, st.va) /\ st.mem.pte[st.va \div PGSIZE] = "write")
     THEN [st EXCEPT !.ok = FALSE]
     ELSE [ok |-> TRUE, va |-> NextPage(st.va), src |-> Beyond(st.src, n),
           mem |-> Overwritten(st.mem, st.va, Prefix(st.src, n))]

CopyOut(m, va, s) ==
  Rounds(CopyOutRound, [ok |-> TRUE, va |-> va, src |-> s, mem |-> m], Len(s))

\* How many of the n bytes at va come before the first Nul.
UpToNul(m, va, n) ==
  CHOOSE k \in 0 .. n : /\ k < n => m.byte[va + k] = Nul
                        /\ \A i \in 0 .. k - 1 : m.byte[va + i] # Nul

CopyInStrRound(m, st) ==
  LET n == Less(InPage(st.va), st.max)
      k == UpToNul(m, st.va, n)
  IN IF ~ st.ok \/ st.nul \/ st.max = 0 THEN st
     ELSE IF ~ UserPage(m, st.va) THEN [st EXCEPT !.ok = FALSE]
     ELSE [ok |-> TRUE, nul |-> k < n, va |-> NextPage(st.va),
           max |-> st.max - n, got |-> st.got \o Bytes(m, st.va, k)]

CopyInStr(m, va, max) ==
  LET Round(st) == CopyInStrRound(m, st)
      end       == Rounds(Round, [ok |-> TRUE, nul |-> FALSE, va |-> va,
                                  max |-> max, got |-> <<>>], max)
  IN [ok |-> end.nul, got |-> end.got]

-----------------------------------------------------------------------------
(* sys_exec() and kexec() *)

\* One round of sys_exec's loop, of which i is the number of strings it has.
CollectRound(m, uargv, st) ==
  LET i    == Len(st.got)
      uarg == CopyIn(m, Add(uargv, i * PTRSIZE), PTRSIZE)
      str  == CopyInStr(m, Loaded(uarg.got), MAXPATH)
  IN IF ~ st.ok \/ st.end THEN st
     ELSE IF i >= MAXARG \/ ~ uarg.ok THEN [st EXCEPT !.ok = FALSE]
     ELSE IF Loaded(uarg.got) = 0 THEN [st EXCEPT !.end = TRUE]
     ELSE IF ~ str.ok THEN [st EXCEPT !.ok = FALSE]
     ELSE [st EXCEPT !.got = Append(@, str.got)]

CollectArgs(m, uargv) ==
  LET Round(st) == CollectRound(m, uargv, st)
  IN Rounds(Round, [ok |-> TRUE, end |-> FALSE, got |-> <<>>], MAXARG + 1)

\* What no other byte holds.
Code == ByteMod - 1

\* A program of the given size at the bottom of its page, zeros above it.
ProgramOf(size) ==
  [pte  |-> [i \in 0 .. MAXVA \div PGSIZE - 1 |->
               IF i = 0 THEN "write" ELSE "invalid"],
   byte |-> [a \in VA |-> IF a < size THEN Code ELSE Nul]]

\* A mutation: the terminator of the string gets no room.
RoomNoNul(sp, s) == AlignDown(Sub(sp, Len(s) - 1), PTRSIZE)

\* Where s, Nul included, goes on a stack that ends at sp.
RoomFor(sp, s) == AlignDown(Sub(sp, Len(s)), PTRSIZE)

\* One round of kexec's loop, of which argc is the number of strings that it
\* has laid out: sp < size and copyout are its two exits.
PushArg(st, args, size) ==
  LET argc == Len(st.ustack)
      s    == Append(args[argc + 1], Nul)
      sp   == RoomFor(st.sp, s)
      c    == CopyOut(st.mem, sp, s)
  IN IF ~ st.ok \/ argc = Len(args) THEN st
     ELSE IF sp < size THEN [st EXCEPT !.ok = FALSE]
     ELSE [ok |-> c.ok, mem |-> c.mem, sp |-> sp,
           ustack |-> Append(st.ustack, sp)]

PushArgs(args, size) ==
  LET Round(st) == PushArg(st, args, size)
  IN Rounds(Round, [ok |-> TRUE, mem |-> ProgramOf(size), sp |-> PGSIZE,
                    ustack |-> <<>>], Len(args))

\* The end of kexec: the array of pointers, and the argument registers.
PushPointers(st, size) ==
  LET argc == Len(st.ustack)
      sp   == AlignDown(Sub(st.sp, (argc + 1) * PTRSIZE), 2 * PTRSIZE)
      c    == CopyOut(st.mem, sp, StoredAll(Append(st.ustack, 0)))
  IN IF ~ st.ok \/ sp < size THEN [ok |-> FALSE, mem |-> st.mem]
     ELSE [ok |-> c.ok, mem |-> c.mem, sp |-> sp, a0 |-> argc, a1 |-> sp]

\* kexec from where the program of the given size is mapped.
Kexec(args, size) == PushPointers(PushArgs(args, size), size)

\* sys_exec of a program that exists.  kexec's own test of MAXARG never holds
\* after CollectArgs.
SysExec(m, uargv, size) ==
  LET args == CollectArgs(m, uargv)
  IN IF args.ok THEN Kexec(args.got, size) ELSE [ok |-> FALSE, mem |-> m]

=========================================================================
