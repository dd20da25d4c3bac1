---------------------------- MODULE Spinlock ----------------------------
(***************************************************************************)
(* Interrupt nesting of kernel/proc/spinlock.c, as operators on the        *)
(* per-hart record struct cpu (kernel/include/proc.h):                     *)
(*   sie     sstatus.SIE, are interrupts enabled on the hart               *)
(*   noff    depth of push_off nesting                                     *)
(*   intena  value of sie before the outermost push_off                    *)
(* The kernel runs on one hart, so a lock word is a boolean and its owner, *)
(* when it is held, is that hart: holding(lk) is the lock word itself.     *)
(***************************************************************************)
EXTENDS Naturals

CpuState == [noff : Nat, intena : BOOLEAN, sie : BOOLEAN]

\* When main() enters scheduler(): it has run intr_on, and userinit has taken
\* and released a lock.
CpuBoot == [noff |-> 0, intena |-> TRUE, sie |-> TRUE]

\* A mutation: interrupts stay on.
PushOffNoMask(c) ==
  [noff   |-> c.noff + 1,
   intena |-> IF c.noff = 0 THEN c.sie ELSE c.intena,
   sie    |-> c.sie]

\* A mutation: intr_get is called after intr_off.
PushOffReadsLate(c) ==
  [noff   |-> c.noff + 1,
   intena |-> IF c.noff = 0 THEN FALSE ELSE c.intena,
   sie    |-> FALSE]

PushOff(c) ==
  [noff   |-> c.noff + 1,
   intena |-> IF c.noff = 0 THEN c.sie ELSE c.intena,
   sie    |-> FALSE]

\* The two panics of pop_off: "pop_off - interruptible" and "pop_off".
PopOffPanics(c) == c.sie \/ c.noff < 1

PopOff(c) ==
  [c EXCEPT !.noff = c.noff - 1,
            !.sie  = (c.noff = 1 /\ c.intena)]

\* myproc(), and any lock pair that closes before an interrupt could be taken:
\* below an outer section (noff > 0) it leaves interrupts off, even if the
\* code between has turned them on with intr_on.
MyProc(c) == PopOff(PushOff(c))

IntrOn(c)  == [c EXCEPT !.sie = TRUE]
IntrOff(c) == [c EXCEPT !.sie = FALSE]

=========================================================================
