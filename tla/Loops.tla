------------------------------ MODULE Loops -----------------------------
(***************************************************************************)
(* A loop as a function of the number of its rounds, for the modules that  *)
(* are also proved about.                                                  *)
(***************************************************************************)
EXTENDS Integers

\* What n rounds make of start.  A round of a loop that has ended changes
\* nothing, so n is any number of rounds that is large enough.
Rounds(Round(_), start, n) ==
  LET after[i \in Nat] == IF i = 0 THEN start ELSE Round(after[i - 1])
  IN after[n]

\* b ^ n; the provers know nothing of ^.
Power(b, n) == LET Times(x) == b * x IN Rounds(Times, 1, n)

=========================================================================
