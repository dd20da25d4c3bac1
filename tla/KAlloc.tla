----------------------------- MODULE KAlloc -----------------------------
(***************************************************************************)
(* The page allocator of kernel/mm/kalloc.c: a list threaded through the   *)
(* first word of the free pages, and no lock.  A step is one load or store *)
(* of the list.  kfork and kwait call the allocator under the lock of a    *)
(* process, with interrupts off; kexec and pipealloc call it with          *)
(* interrupts on, and may be preempted between any two steps.  A page that *)
(* is not free belongs to the process whose image, page table, kernel      *)
(* stack, trapframe or pipe it is; what that process writes into it is     *)
(* arbitrary.                                                              *)
(* A definition whose comment begins "A mutation" is not part of the       *)
(* model (see Sched).                                                      *)
(***************************************************************************)
EXTENDS Integers, Sequences

CONSTANTS
  Proc,     \* the processes
  NPAGE,    \* pages between end_address and PHYSTOP
  Overlap   \* may a process enter the allocator while another is inside

ASSUME NPAGEAssumption   == NPAGE \in Nat \ {0}
ASSUME OverlapAssumption == Overlap \in BOOLEAN
ASSUME ProcAssumption    == -1 \notin Proc

Page   == 1 .. NPAGE
Null   == 0
Data   == -1             \* a word written by the owner of a page
Nobody == -1

VARIABLES
  head,     \* free_mem_list
  word,     \* the first word of each page
  held,     \* the pages of each process
  pc,       \* where each process is in kalloc or kfree
  r,        \* the local r of kalloc and kfree
  loaded,   \* the word that each process has loaded and will store next
  got,      \* what each process's last kalloc returned
  masked    \* the process that executes with interrupts off

vars == <<head, word, held, pc, r, loaded, got, masked>>

\* A mutation: kinit() goes one page past PHYSTOP.
InitPastEnd ==
  /\ head   = NPAGE + 1
  /\ word   = [g \in 1 .. NPAGE + 1 |-> g - 1]
  /\ held   = [p \in Proc |-> {}]
  /\ pc     = [p \in Proc |-> "idle"]
  /\ r      = [p \in Proc |-> Null]
  /\ loaded = [p \in Proc |-> Null]
  /\ got    = [p \in Proc |-> Null]
  /\ masked = Nobody

\* kinit() frees the pages in ascending order.
Init ==
  /\ head   = NPAGE
  /\ word   = [g \in Page |-> g - 1]
  /\ held   = [p \in Proc |-> {}]
  /\ pc     = [p \in Proc |-> "idle"]
  /\ r      = [p \in Proc |-> Null]
  /\ loaded = [p \in Proc |-> Null]
  /\ got    = [p \in Proc |-> Null]
  /\ masked = Nobody

At(p, l) == masked \in {Nobody, p} /\ pc[p] = l

Goto(p, l) == pc' = [pc EXCEPT ![p] = l]

Enter(p, l) ==
  /\ At(p, "idle")
  /\ Overlap \/ \A q \in Proc : pc[q] = "idle"
  /\ Goto(p, l)
  /\ masked' \in {Nobody, p}

Leave(p) == /\ Goto(p, "idle")
            /\ r' = [r EXCEPT ![p] = Null]
            /\ loaded' = [loaded EXCEPT ![p] = Null]
            /\ masked' = Nobody

-------------------------------------------------------------------------
\* kalloc()

KallocCall(p) ==
  /\ Enter(p, "read")
  /\ UNCHANGED <<head, word, held, r, loaded, got>>

\* r = free_mem_list
KallocRead(p) ==
  /\ At(p, "read")
  /\ r' = [r EXCEPT ![p] = head]
  /\ Goto(p, "next")
  /\ UNCHANGED <<head, word, held, loaded, got, masked>>

KallocFails(p) ==
  /\ At(p, "next")
  /\ r[p] = Null
  /\ got' = [got EXCEPT ![p] = Null]
  /\ Leave(p)
  /\ UNCHANGED <<head, word, held>>

\* r->next
KallocNext(p) ==
  /\ At(p, "next")
  /\ r[p] # Null
  /\ loaded' = [loaded EXCEPT ![p] = word[r[p]]]
  /\ Goto(p, "unlink")
  /\ UNCHANGED <<head, word, held, r, got, masked>>

\* A mutation: the page stays at the head of the list.
KallocKeep(p) ==
  /\ At(p, "unlink")
  /\ Goto(p, "zero")
  /\ UNCHANGED <<head, word, held, r, loaded, got, masked>>

\* free_mem_list = r->next
KallocUnlink(p) ==
  /\ At(p, "unlink")
  /\ head' = loaded[p]
  /\ Goto(p, "zero")
  /\ UNCHANGED <<word, held, r, loaded, got, masked>>

\* memset, and return.
KallocZero(p) ==
  /\ At(p, "zero")
  /\ word' = [word EXCEPT ![r[p]] = 0]
  /\ held' = [held EXCEPT ![p] = @ \cup {r[p]}]
  /\ got'  = [got EXCEPT ![p] = r[p]]
  /\ Leave(p)
  /\ UNCHANGED head

-------------------------------------------------------------------------
\* kfree()

KfreeCall(p) ==
  /\ \E g \in held[p] : /\ r'    = [r EXCEPT ![p] = g]
                        /\ held' = [held EXCEPT ![p] = @ \ {g}]
  /\ Enter(p, "head")
  /\ UNCHANGED <<head, word, loaded, got>>

\* free_mem_list
KfreeHead(p) ==
  /\ At(p, "head")
  /\ loaded' = [loaded EXCEPT ![p] = head]
  /\ Goto(p, "link")
  /\ UNCHANGED <<head, word, held, r, got, masked>>

\* A mutation: the page keeps the word its owner wrote.
KfreeNoLink(p) ==
  /\ At(p, "link")
  /\ Goto(p, "push")
  /\ UNCHANGED <<head, word, held, r, loaded, got, masked>>

\* r->next = free_mem_list
KfreeLink(p) ==
  /\ At(p, "link")
  /\ word' = [word EXCEPT ![r[p]] = loaded[p]]
  /\ Goto(p, "push")
  /\ UNCHANGED <<head, held, r, loaded, got, masked>>

\* A mutation: the list keeps its old head.
KfreeNoPush(p) ==
  /\ At(p, "push")
  /\ Leave(p)
  /\ UNCHANGED <<head, word, held, got>>

\* free_mem_list = r
KfreePush(p) ==
  /\ At(p, "push")
  /\ head' = r[p]
  /\ Leave(p)
  /\ UNCHANGED <<word, held, got>>

-------------------------------------------------------------------------
\* What the callers do with their pages.

Write(p) ==
  /\ At(p, "idle")
  /\ \E g \in held[p] : word' = [word EXCEPT ![g] = Data]
  /\ UNCHANGED <<head, held, pc, r, loaded, got, masked>>

\* kfork fills a child with pages it allocated, kwait frees a child's pages.
Move(p, q) ==
  /\ p # q
  /\ At(p, "idle")
  /\ At(q, "idle")
  /\ \E g \in held[p] : held' = [held EXCEPT ![p] = @ \ {g},
                                             ![q] = @ \cup {g}]
  /\ UNCHANGED <<head, word, pc, r, loaded, got, masked>>

-------------------------------------------------------------------------
Next ==
  \/ \E p \in Proc : \/ KallocCall(p) \/ KallocRead(p) \/ KallocFails(p)
                     \/ KallocNext(p) \/ KallocUnlink(p) \/ KallocZero(p)
                     \/ KfreeCall(p) \/ KfreeHead(p) \/ KfreeLink(p)
                     \/ KfreePush(p) \/ Write(p)
  \/ \E p, q \in Proc : Move(p, q)

Spec == Init /\ [][Next]_vars

-------------------------------------------------------------------------
TypeOK ==
  /\ head   \in Page \cup {Null, Data}
  /\ word   \in [Page -> Page \cup {Null, Data}]
  /\ held   \in [Proc -> SUBSET Page]
  /\ pc     \in [Proc -> {"idle", "read", "next", "unlink", "zero",
                          "head", "link", "push"}]
  /\ r      \in [Proc -> Page \cup {Null, Data}]
  /\ loaded \in [Proc -> Page \cup {Null, Data}]
  /\ got    \in [Proc -> Page \cup {Null, Data}]
  /\ masked \in Proc \cup {Nobody}

\* The pages a process uses, those it is about to free included.
Freeing(p) == pc[p] \in {"head", "link", "push"}
Uses(p)    == held[p] \cup (IF Freeing(p) THEN {r[p]} ELSE {})

\* A page has one user: no allocation returns a page that is in use.
OneOwner == \A p, q \in Proc : p # q => Uses(p) \cap Uses(q) = {}

\* On its way out of kalloc, or used.
Taken(g) == \E p \in Proc : g \in Uses(p) \/ (pc[p] = "zero" /\ r[p] = g)

Lists == UNION {[1 .. n -> Page] : n \in 0 .. NPAGE}

\* s is what following next from free_mem_list gives.
IsFreeList(s) ==
  /\ \A i, j \in 1 .. Len(s) : s[i] = s[j] => i = j
  /\ head = IF s = <<>> THEN Null ELSE s[1]
  /\ \A i \in 1 .. Len(s) :
       word[s[i]] = IF i = Len(s) THEN Null ELSE s[i + 1]

\* free_mem_list heads a list without a cycle that holds every page that is
\* not taken, and no other: no page is lost and none is handed out twice.
ListIsFreePages ==
  \E s \in Lists :
    /\ IsFreeList(s)
    /\ \A g \in Page : Taken(g) <=> \A i \in 1 .. Len(s) : s[i] # g

\* What a correct allocator may still hand out.
Pool == {g \in Page : \A p \in Proc : g \notin Uses(p)}

Abs == INSTANCE AbsPages WITH free <- Pool, owned <- [p \in Proc |-> Uses(p)]

\* One process at a time in the allocator: kalloc and kfree are the pool.
ImplementsAbsPages == Abs!AbsSpec

=========================================================================
