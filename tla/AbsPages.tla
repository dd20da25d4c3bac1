---------------------------- MODULE AbsPages ----------------------------
(***************************************************************************)
(* What kalloc and kfree promise (kernel/mm/kalloc.c): a pool of pages,    *)
(* each of which is free or belongs to one process; an allocation fails    *)
(* only when no page is free.                                              *)
(***************************************************************************)
CONSTANTS Proc, Page, Null

VARIABLES
  free,    \* the pages of the pool
  owned,   \* the pages of each process
  got      \* what each process's last kalloc returned

AbsVars == <<free, owned, got>>

AbsInit == /\ free  = Page
           /\ owned = [p \in Proc |-> {}]
           /\ got   = [p \in Proc |-> Null]

Alloc(p, g) ==
  /\ g \in free
  /\ free'  = free \ {g}
  /\ owned' = [owned EXCEPT ![p] = @ \cup {g}]
  /\ got'   = [got EXCEPT ![p] = g]

AllocFails(p) ==
  /\ free = {}
  /\ got' = [got EXCEPT ![p] = Null]
  /\ UNCHANGED <<free, owned>>

Free(p, g) ==
  /\ g \in owned[p]
  /\ owned' = [owned EXCEPT ![p] = @ \ {g}]
  /\ free'  = free \cup {g}
  /\ UNCHANGED got

\* A page changes hands without passing through the pool: fork maps what it
\* allocates into its child, wait frees what a child held.
Move(p, q, g) ==
  /\ p # q
  /\ g \in owned[p]
  /\ owned' = [owned EXCEPT ![p] = @ \ {g}, ![q] = @ \cup {g}]
  /\ UNCHANGED <<free, got>>

AbsNext ==
  \/ \E p \in Proc : AllocFails(p)
  \/ \E p \in Proc, g \in Page : Alloc(p, g) \/ Free(p, g)
  \/ \E p, q \in Proc, g \in Page : Move(p, q, g)

AbsSpec == AbsInit /\ [][AbsNext]_AbsVars

=========================================================================
