---------------------------- MODULE AbsImages ----------------------------
(***************************************************************************)
(* What the kernel promises programs about their memory: each process has  *)
(* an image of its own, fork copies it, exec replaces it, and nothing else *)
(* in the system touches it.                                               *)
(***************************************************************************)
CONSTANTS
  Slots,    \* the entries of the process table
  Content,  \* what an image may hold
  None      \* an entry without a process

VARIABLE image

Init == \E v \in Content : image = [s \in Slots |-> IF s = 0 THEN v ELSE None]

Exists(s) == image[s] # None

Fork(p, c) ==
  /\ Exists(p) /\ ~ Exists(c)
  /\ image' = [image EXCEPT ![c] = image[p]]

\* A store of the program or an exec.
Change(p, v) ==
  /\ Exists(p)
  /\ image' = [image EXCEPT ![p] = v]

Reap(p, c) ==
  /\ Exists(p) /\ Exists(c) /\ p # c
  /\ image' = [image EXCEPT ![c] = None]

Next ==
  \E p \in Slots :
    \/ \E c \in Slots : Fork(p, c) \/ Reap(p, c)
    \/ \E v \in Content : Change(p, v)

Spec == Init /\ [][Next]_image
==========================================================================
