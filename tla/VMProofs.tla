---------------------------- MODULE VMProofs ----------------------------
(***************************************************************************)
(* Theorems about VM, for every number of slots, pages and pipes.          *)
(*                                                                         *)
(* First what each function does to the memory it is given: kalloc and     *)
(* kfree, mappages where tables are there and where they have to be made,  *)
(* allocproc and uvmcopy with every place where they can run out of pages. *)
(* Then the invariant: the shape of each slot's page table (SlotOK), and   *)
(* that no two slots, or two places of one, hold the same page (Apart).    *)
(* A step that touches one slot has to be looked at for that slot only     *)
(* (StepKeeps).                                                            *)
(*                                                                         *)
(* Last the functions of UserMem: each is a number of rounds of its loop,  *)
(* of which one moves the bytes up to the end of a page (ChunkInPage), so  *)
(* that what it has done after any number of rounds follows by induction   *)
(* (CopiedIn, CopiedOut, CopiedInStr).                                     *)
(* exec's arguments go through three loops, each with what its states know *)
(* of the caller: which strings it passes (CollectIsExact), where they go  *)
(* on the new stack (PushIsExact), and what is read there (ArrivedIs).     *)
(* A caller is any memory and any place for its array (IsCaller).          *)
(***************************************************************************)
EXTENDS MCVM, DataLemmas, FiniteSetTheorems

Faults == {"none", "acquire", "invalid_address",
           "double_free", "remap", "leaf"}

Memory == [free    : SUBSET Page,
           pte     : [Page -> [Idx -> Entry]],
           content : [Page -> Content \cup {Zeroed, Junk}],
           fault   : Faults]

\* Pages, entries and the values that stand for none.
LEMMA PageFacts ==
  /\ Null \notin Page /\ Text \notin Page /\ Unmapped \notin Page
  /\ Null # Text /\ Null # Unmapped
  /\ IsFiniteSet(Page)
  /\ Invalid \in Entry
  /\ \A x \in Page \cup {Null, Text} : Leaf(x) \in Entry /\ Table(x) \in Entry
  /\ \A q \in Page : Leaf(q) # Invalid /\ Table(q) # Invalid
  /\ Empty \in [Idx -> Entry]
<1>1. /\ Null \notin Page /\ Text \notin Page /\ Unmapped \notin Page
      /\ Null # Text /\ Null # Unmapped
  BY NPAGEAssumption DEF Null, Text, Unmapped, Page
<1>2. IsFiniteSet(Page)
  BY NPAGEAssumption, FS_Interval DEF Page
<1>3. /\ Invalid \in Entry
      /\ \A x \in Page \cup {Null, Text} : Leaf(x) \in Entry /\ Table(x) \in Entry
  BY DEF Invalid, Entry, Leaf, Table
<1>4. \A q \in Page : Leaf(q) # Invalid /\ Table(q) # Invalid
  BY <1>1 DEF Invalid, Leaf, Table
<1>. QED  BY <1>1, <1>2, <1>3, <1>4 DEF Empty

Rows     == [Page -> [Idx -> Entry]]
Contents == [Page -> Content \cup {Zeroed, Junk}]

\* A memory, field by field.
LEMMA MemoryIs ==
  ASSUME NEW m
  PROVE  m \in Memory <=>
           /\ m = [free |-> m.free, pte |-> m.pte, content |-> m.content,
                   fault |-> m.fault]
           /\ m.free \subseteq Page /\ m.pte \in Rows
           /\ m.content \in Contents /\ m.fault \in Faults
BY DEF Memory, Rows, Contents

\* kalloc() returns a free page, cleared, or null when there is none.
LEMMA KallocFacts ==
  ASSUME NEW m \in Memory, NEW a, a = Kalloc(m)
  PROVE  \/ m.free = {} /\ a.m = m /\ a.pa = Null
         \/ /\ a.pa \in m.free
            /\ a.m \in Memory
            /\ a.m.free = m.free \ {a.pa} /\ a.m.fault = m.fault
            /\ a.m.pte = [m.pte EXCEPT ![a.pa] = Empty]
            /\ a.m.content = [m.content EXCEPT ![a.pa] = Zeroed]
<1>1. CASE m.free = {}
  BY <1>1 DEF Kalloc
<1>2. CASE m.free # {}
  <2>1. PICK q : q = CHOOSE x \in m.free : TRUE
    OBVIOUS
  <2>2. a = [m |-> [m EXCEPT !.free = @ \ {q}, !.pte[q] = Empty,
                            !.content[q] = Zeroed],
            pa |-> q]
    BY <1>2, <2>1 DEF Kalloc
  <2>3. q \in m.free /\ q \in Page
    BY <1>2, <2>1 DEF Memory
  <2>4. /\ a.pa = q /\ a.m.free = m.free \ {q} /\ a.m.fault = m.fault
        /\ a.m.pte = [m.pte EXCEPT ![q] = Empty]
        /\ a.m.content = [m.content EXCEPT ![q] = Zeroed]
        /\ a.m = [free |-> a.m.free, pte |-> a.m.pte, content |-> a.m.content,
                  fault |-> a.m.fault]
    <3>1. PICK F, P, C : /\ F = m.free \ {q}
                         /\ P = [m.pte EXCEPT ![q] = Empty]
                         /\ C = [m.content EXCEPT ![q] = Zeroed]
      OBVIOUS
    <3>2. a.pa = q
          /\ a.m = [m EXCEPT !.free = F, !.pte = P, !.content = C]
      BY <2>2, <3>1 DEF Memory
    <3>. QED  BY <3>1, <3>2 DEF Memory
  <2>5. /\ [m.pte EXCEPT ![q] = Empty] \in Rows
        /\ [m.content EXCEPT ![q] = Zeroed] \in Contents
    BY <2>3, PageFacts DEF Memory, Rows, Contents
  <2>. QED
    BY <2>3, <2>4, <2>5, MemoryIs
<1>. QED  BY <1>1, <1>2

\* What kfree does to a page that is in use.
LEMMA KfreeFacts ==
  ASSUME NEW m \in Memory, NEW q \in Page, q \notin m.free,
         NEW m2, m2 = Kfree(m, q)
  PROVE  /\ m2 \in Memory /\ m2.free = m.free \cup {q} /\ m2.fault = m.fault
         /\ m2.pte = m.pte
         /\ m2.content = [m.content EXCEPT ![q] = Junk]
<1>1. m2 = [m EXCEPT !.free = @ \cup {q}, !.content[q] = Junk]
  BY DEF Kfree
<1>2. [m.content EXCEPT ![q] = Junk] \in Contents
  BY DEF Memory, Contents
<1>. QED  BY <1>1, <1>2, MemoryIs DEF Memory

SetEntry(m, t, i, e) == [m EXCEPT !.pte[t][i] = e]

\* A store to a page table entry keeps the memory well formed.
LEMMA SetEntryFacts ==
  ASSUME NEW m \in Memory, NEW t \in Page, NEW i \in Idx, NEW e \in Entry,
         NEW m2, m2 = SetEntry(m, t, i, e)
  PROVE  /\ m2 \in Memory /\ m2.free = m.free /\ m2.fault = m.fault
         /\ m2.pte = [m.pte EXCEPT ![t][i] = e] /\ m2.content = m.content
<1>1. [m.pte EXCEPT ![t][i] = e] \in Rows
  BY DEF Memory, Rows
<1>. QED  BY <1>1, MemoryIs DEF Memory, SetEntry

SetContent(m, q, v) == [m EXCEPT !.content[q] = v]

\* A store to a page keeps the memory well formed.
LEMMA SetContentFacts ==
  ASSUME NEW m \in Memory, NEW q \in Page, NEW v \in Content,
         NEW m2, m2 = SetContent(m, q, v)
  PROVE  /\ m2 \in Memory /\ m2.free = m.free /\ m2.fault = m.fault
         /\ m2.pte = m.pte /\ m2.content = [m.content EXCEPT ![q] = v]
<1>1. [m.content EXCEPT ![q] = v] \in Contents
  BY DEF Memory, Contents
<1>. QED  BY <1>1, MemoryIs DEF Memory, SetContent

-------------------------------------------------------------------------
(* walk() and mappages().                                                  *)

Place(m, t) == [m |-> m, pa |-> t]

\* m2 is m with a fresh table q hung under entry i of t.
Hung(m, t, i, q, m2) ==
  /\ m2 \in Memory /\ q \in m.free /\ q \in Page
  /\ m2.free = m.free \ {q} /\ m2.fault = m.fault
  /\ m2.pte = [[m.pte EXCEPT ![q] = Empty] EXCEPT ![t][i] = Table(q)]
  /\ m2.content = [m.content EXCEPT ![q] = Zeroed]

\* walk() follows a table that is there,
LEMMA DescendOld ==
  ASSUME NEW m, NEW t \in Page, NEW i \in Idx, m.pte[t][i] # Invalid
  PROVE  Descend(Place(m, t), i) = Place(m, m.pte[t][i].pa)
BY PageFacts DEF Descend, Place

\* stops where it could not get one before,
LEMMA DescendNull ==
  ASSUME NEW m, NEW i \in Idx
  PROVE  Descend(Place(m, Null), i) = Place(m, Null)
BY DEF Descend, Place

\* stops when no page is left for one,
LEMMA DescendFull ==
  ASSUME NEW m, NEW t \in Page, NEW i \in Idx, m.pte[t][i] = Invalid,
         m.free = {}
  PROVE  Descend(Place(m, t), i) = Place(m, Null)
<1>1. Kalloc(m) = [m |-> m, pa |-> Null]
  BY DEF Kalloc
<1>2. Descend(Place(m, t), i) = Enter(Place(m, t), i, Kalloc(m))
  BY PageFacts DEF Descend, Place
<1>. QED  BY <1>1, <1>2 DEF Enter, Place

\* and hangs a fresh one otherwise.
LEMMA DescendNew ==
  ASSUME NEW m \in Memory, NEW t \in Page, NEW i \in Idx,
         m.pte[t][i] = Invalid, m.free # {}
  PROVE  \E q, m2 : Hung(m, t, i, q, m2) /\ Descend(Place(m, t), i) = Place(m2, q)
<1>1. PICK a : a = Kalloc(m)
  OBVIOUS
<1>2. PICK q, n : q = a.pa /\ n = a.m
  OBVIOUS
<1>3. a = [m |-> n, pa |-> q]
  BY <1>1, <1>2 DEF Kalloc
<1>4. /\ q \in m.free /\ n \in Memory /\ q \in Page
      /\ n.free = m.free \ {q} /\ n.fault = m.fault
      /\ n.pte = [m.pte EXCEPT ![q] = Empty]
      /\ n.content = [m.content EXCEPT ![q] = Zeroed]
  BY <1>1, <1>2, KallocFacts DEF Memory
<1>5. Descend(Place(m, t), i) = Enter(Place(m, t), i, a)
  BY <1>1, PageFacts DEF Descend, Place
<1>6. q # Null
  BY <1>4, PageFacts
<1>7. PICK m2 : m2 = SetEntry(n, t, i, Table(q))
  OBVIOUS
<1>8. Enter(Place(m, t), i, a) = Place(m2, q)
  BY <1>3, <1>6, <1>7 DEF Enter, Place, SetEntry
<1>9. Table(q) \in Entry
  BY <1>4, PageFacts
<1>10. /\ m2 \in Memory /\ m2.free = n.free /\ m2.fault = n.fault
       /\ m2.pte = [n.pte EXCEPT ![t][i] = Table(q)]
       /\ m2.content = n.content
  BY <1>4, <1>7, <1>9, SetEntryFacts
<1>11. Hung(m, t, i, q, m2)
  BY <1>4, <1>10 DEF Hung
<1>. QED  BY <1>5, <1>8, <1>11

RowsHung(m, t, i, q, m2) ==
  /\ m2.pte[q] = Empty /\ q # t
  /\ m2.pte[t] = [m.pte[t] EXCEPT ![i] = Table(q)]
  /\ \A x \in Page : x \notin {t, q} => m2.pte[x] = m.pte[x]
  /\ \A x \in Page : x # q => m2.content[x] = m.content[x]

\* A fresh table changes no row but its parent's and its own.
LEMMA HungRows ==
  ASSUME NEW m \in Memory, NEW t \in Page, t \notin m.free, NEW i \in Idx,
         NEW q, NEW m2, Hung(m, t, i, q, m2)
  PROVE  RowsHung(m, t, i, q, m2)
<1>1. q # t
  BY DEF Hung
<1>2. PICK P : P = [m.pte EXCEPT ![q] = Empty]
  OBVIOUS
<1>3. /\ P \in Rows /\ P[q] = Empty /\ P[t] = m.pte[t]
      /\ \A x \in Page : x \notin {t, q} => P[x] = m.pte[x]
  BY <1>1, <1>2, PageFacts DEF Hung, Memory, Rows
<1>4. m2.pte = [P EXCEPT ![t][i] = Table(q)]
  BY <1>2 DEF Hung
<1>5. /\ m2.pte[q] = P[q] /\ m2.pte[t] = [P[t] EXCEPT ![i] = Table(q)]
      /\ \A x \in Page : x \notin {t, q} => m2.pte[x] = P[x]
  BY <1>1, <1>3, <1>4 DEF Hung, Rows
<1>6. \A x \in Page : x # q => m2.content[x] = m.content[x]
  BY DEF Hung, Memory
<1>. QED  BY <1>1, <1>3, <1>5, <1>6 DEF RowsHung

\* m2 is m with a leaf for page pa in entry i of t.
Leafed(m, t, i, pa, m2) ==
  /\ m2 \in Memory /\ m2.free = m.free /\ m2.fault = m.fault
  /\ m2.pte = [m.pte EXCEPT ![t][i] = Leaf(pa)]
  /\ m2.content = m.content

Ok(m) == [m |-> m, ok |-> TRUE]
No(m) == [m |-> m, ok |-> FALSE]

\* mappages() fills an entry that is invalid,
LEMMA SetLeafFacts ==
  ASSUME NEW m \in Memory, NEW t \in Page, NEW i \in Idx,
         m.pte[t][i] = Invalid, NEW pa \in Page \cup {Null, Text}
  PROVE  \E m2 : Leafed(m, t, i, pa, m2) /\ SetLeaf(Place(m, t), i, pa) = Ok(m2)
<1>1. PICK m2 : m2 = SetEntry(m, t, i, Leaf(pa))
  OBVIOUS
<1>2. SetLeaf(Place(m, t), i, pa) = Ok(m2)
  <2>1. PICK w : w = Place(m, t)
    OBVIOUS
  <2>2. w.m = m /\ w.pa = t /\ t # Null
    BY <2>1, PageFacts DEF Place
  <2>3. SetLeaf(w, i, pa) = [m |-> SetEntry(w.m, w.pa, i, Leaf(pa)), ok |-> TRUE]
    <3>1. w.m.pte[w.pa][i] = Invalid /\ w.pa # Null
      BY <2>2
    <3>. QED  BY <3>1, Zenon DEF SetLeaf, SetEntry
  <2>. QED  BY <1>1, <2>1, <2>2, <2>3 DEF Ok
<1>3. Leaf(pa) \in Entry
  BY PageFacts
<1>4. Leafed(m, t, i, pa, m2)
  BY <1>1, <1>3, SetEntryFacts DEF Leafed
<1>. QED  BY <1>2, <1>4

\* and fails without a table.
LEMMA SetLeafNull ==
  ASSUME NEW m, NEW i, NEW pa
  PROVE  SetLeaf(Place(m, Null), i, pa) = No(m)
BY DEF SetLeaf, No, Place

\* mappages() is two levels of walk() and a store.
LEMMA MapPageSteps ==
  ASSUME NEW m, NEW r, NEW i, NEW j, NEW pa
  PROVE  MapPage(m, r, <<i, i, j>>, pa)
           = SetLeaf(Descend(Descend(Place(m, r), i), i), j, pa)
BY DEF MapPage, Walk, Place

\* mappages() where the tables are already there.
LEMMA MapOld ==
  ASSUME NEW m \in Memory, NEW r \in Page, NEW t1 \in Page, NEW t2 \in Page,
         NEW i \in Idx, NEW j \in Idx, NEW pa \in Page \cup {Null, Text},
         m.pte[r][i] = Table(t1), m.pte[t1][i] = Table(t2),
         m.pte[t2][j] = Invalid
  PROVE  \E m2 : /\ Leafed(m, t2, j, pa, m2)
                 /\ MapPage(m, r, <<i, i, j>>, pa) = Ok(m2)
<1>1. /\ m.pte[r][i] # Invalid /\ m.pte[r][i].pa = t1
      /\ m.pte[t1][i] # Invalid /\ m.pte[t1][i].pa = t2
  BY PageFacts DEF Table
<1>2. Descend(Place(m, r), i) = Place(m, t1)
  BY <1>1, DescendOld
<1>3. Descend(Place(m, t1), i) = Place(m, t2)
  BY <1>1, DescendOld
<1>4. MapPage(m, r, <<i, i, j>>, pa) = SetLeaf(Place(m, t2), j, pa)
  BY <1>2, <1>3, MapPageSteps
<1>. QED  BY <1>4, SetLeafFacts

\* mappages() where two tables have to be made: m2 after it, and the tables.
\* Neither a table nor memory is left unused when there is too little of it.
TwoHung(m, r, i, pa, t1, t2, m2) ==
  /\ m2 \in Memory /\ m2.fault = m.fault
  /\ t1 \in m.free /\ t2 \in m.free /\ t1 # t2 /\ m2.free = m.free \ {t1, t2}
  /\ m2.pte[r] = [m.pte[r] EXCEPT ![i] = Table(t1)]
  /\ m2.pte[t1] = [Empty EXCEPT ![i] = Table(t2)]
  /\ m2.pte[t2] = [Empty EXCEPT ![i] = Leaf(pa)]
  /\ \A q \in Page : q \notin {r, t1, t2} => m2.pte[q] = m.pte[q]
  /\ \A q \in Page : q \notin {t1, t2} => m2.content[q] = m.content[q]

OneHung(m, r, i, t1, m2) ==
  /\ m2 \in Memory /\ m2.fault = m.fault
  /\ m.free = {t1} /\ m2.free = {}
  /\ m2.pte[r] = [m.pte[r] EXCEPT ![i] = Table(t1)]
  /\ m2.pte[t1] = Empty
  /\ \A q \in Page : q \notin {r, t1} => m2.pte[q] = m.pte[q]
  /\ \A q \in Page : q # t1 => m2.content[q] = m.content[q]

\* mappages() where no table is there: it gets both, or one, or none.
LEMMA MapNew ==
  ASSUME NEW m \in Memory, NEW r \in Page, r \notin m.free,
         NEW i \in Idx, NEW pa \in Page \cup {Null, Text},
         m.pte[r][i] = Invalid,
         NEW mp, mp = MapPage(m, r, <<i, i, i>>, pa)
  PROVE  \/ \E t1, t2, m2 : TwoHung(m, r, i, pa, t1, t2, m2) /\ mp = Ok(m2)
         \/ \E t1, m2 : OneHung(m, r, i, t1, m2) /\ mp = No(m2)
         \/ m.free = {} /\ mp = No(m)
<1>1. CASE m.free = {}
  <2>1. Descend(Place(m, r), i) = Place(m, Null)
    BY <1>1, DescendFull
  <2>. QED  BY <1>1, <2>1, MapPageSteps, DescendNull, SetLeafNull
<1>2. CASE m.free # {}
  <2>1. PICK t1, n : /\ Hung(m, r, i, t1, n)
                     /\ Descend(Place(m, r), i) = Place(n, t1)
    BY <1>2, DescendNew
  <2>2. /\ n \in Memory /\ t1 \in Page /\ t1 # r
        /\ n.pte[t1] = Empty /\ n.pte[t1][i] = Invalid
        /\ n.pte[r] = [m.pte[r] EXCEPT ![i] = Table(t1)]
        /\ \A q \in Page : q \notin {r, t1} => n.pte[q] = m.pte[q]
    <3>1. n \in Memory /\ t1 \in Page
      BY <2>1 DEF Hung
    <3>2. Empty[i] = Invalid
      BY DEF Empty
    <3>3. /\ n.pte[t1] = Empty /\ t1 # r
          /\ n.pte[r] = [m.pte[r] EXCEPT ![i] = Table(t1)]
          /\ \A q \in Page : q \notin {r, t1} => n.pte[q] = m.pte[q]
      <4>1. RowsHung(m, r, i, t1, n)
        BY <2>1, HungRows
      <4>. QED  BY <4>1 DEF RowsHung
    <3>. QED  BY <3>1, <3>2, <3>3
  <2>3. CASE n.free = {}
    <3>1. mp = No(n)
      BY <2>1, <2>2, <2>3, DescendFull, MapPageSteps, SetLeafNull
    <3>2. OneHung(m, r, i, t1, n)
      BY <2>1, <2>2, <2>3 DEF OneHung, Hung, Memory
    <3>. QED  BY <3>1, <3>2
  <2>4. CASE n.free # {}
    <3>1. PICK t2, o : /\ Hung(n, t1, i, t2, o)
                       /\ Descend(Place(n, t1), i) = Place(o, t2)
      BY <2>2, <2>4, DescendNew
    <3>2. /\ o \in Memory /\ t2 \in Page /\ t2 # t1 /\ t2 # r
          /\ t2 \in m.free /\ t1 \in m.free
          /\ o.pte[t2] = Empty /\ o.pte[t2][i] = Invalid
          /\ o.pte[t1] = [Empty EXCEPT ![i] = Table(t2)]
          /\ o.pte[r] = [m.pte[r] EXCEPT ![i] = Table(t1)]
          /\ \A q \in Page : q \notin {r, t1, t2} => o.pte[q] = m.pte[q]
      <4>1. /\ o \in Memory /\ t2 \in Page /\ t2 \in n.free
            /\ n.free = m.free \ {t1} /\ t1 \in m.free
        BY <2>1, <3>1 DEF Hung
      <4>2. /\ o.pte[t2] = Empty /\ t2 # t1 /\ t2 # r
            /\ o.pte[t1] = [n.pte[t1] EXCEPT ![i] = Table(t2)]
            /\ \A x \in Page : x \notin {t1, t2} => o.pte[x] = n.pte[x]
        <5>1. n \in Memory /\ t1 \in Page /\ t1 \notin n.free
          BY <2>2, <4>1
        <5>2. t2 \notin {r, t1}
          BY <2>2, <4>1
        <5>3. RowsHung(n, t1, i, t2, o)
          BY <3>1, <5>1, HungRows
        <5>. QED  BY <5>2, <5>3 DEF RowsHung
      <4>3. Empty[i] = Invalid
        BY DEF Empty
      <4>. QED  BY <2>2, <4>1, <4>2, <4>3
    <3>3. PICK m2 : /\ Leafed(o, t2, i, pa, m2)
                    /\ SetLeaf(Place(o, t2), i, pa) = Ok(m2)
      BY <3>2, SetLeafFacts
    <3>4. mp = Ok(m2)
      BY <2>1, <3>1, <3>3, MapPageSteps
    <3>5. /\ m2 \in Memory /\ m2.fault = m.fault /\ m2.free = m.free \ {t1, t2}
          /\ \A q \in Page : q \notin {t1, t2} => m2.content[q] = m.content[q]
      BY <2>1, <3>1, <3>2, <3>3 DEF Hung, Leafed, Memory
    <3>6. /\ m2.pte[t2] = [Empty EXCEPT ![i] = Leaf(pa)]
          /\ \A q \in Page : q # t2 => m2.pte[q] = o.pte[q]
      BY <3>2, <3>3 DEF Leafed, Memory
    <3>7. TwoHung(m, r, i, pa, t1, t2, m2)
      <4>1. /\ m2.pte[r] = o.pte[r] /\ m2.pte[t1] = o.pte[t1]
            /\ \A q \in Page : q \notin {r, t1, t2} => m2.pte[q] = m.pte[q]
        BY <2>2, <3>2, <3>6
      <4>. QED  BY <3>2, <3>5, <3>6, <4>1 DEF TwoHung
    <3>. QED  BY <3>4, <3>7
  <2>. QED  BY <2>3, <2>4
<1>. QED  BY <1>1, <1>2

-------------------------------------------------------------------------
(* allocproc(), one kalloc() or mappages() after the other.                *)

Built(m, end, tf, r, ks, img) ==
  [m |-> m, end |-> end, trapframe |-> tf, root |-> r, kstack |-> ks,
   image |-> img]

\* Page q of m is taken.
Taken(m, q, m2) ==
  /\ m2 \in Memory /\ q \in m.free /\ q \in Page
  /\ m2.free = m.free \ {q} /\ m2.fault = m.fault
  /\ m2.pte = [m.pte EXCEPT ![q] = Empty]
  /\ m2.content = [m.content EXCEPT ![q] = Zeroed]

\* A kalloc() that is checked succeeds while there is a free page
LEMMA KallocTakes ==
  ASSUME NEW m \in Memory, m.free # {}
  PROVE  \E q, m2 : Taken(m, q, m2) /\ Kalloc(m) = [m |-> m2, pa |-> q]
<1>1. PICK a, q, n : a = Kalloc(m) /\ q = a.pa /\ n = a.m
  OBVIOUS
<1>2. a = [m |-> n, pa |-> q]
  BY <1>1 DEF Kalloc
<1>3. Taken(m, q, n)
  BY <1>1, KallocFacts DEF Memory, Taken
<1>. QED  BY <1>1, <1>2, <1>3

\* and fails when there is none.
LEMMA KallocFull ==
  ASSUME NEW m, m.free = {}
  PROVE  Kalloc(m) = [m |-> m, pa |-> Null]
BY DEF Kalloc

\* Without a free page the construction ends,
LEMMA TakeFull ==
  ASSUME NEW m, m.free = {}, NEW tf, NEW r, NEW ks, NEW img, NEW x, NEW why
  PROVE  Take(Built(m, "done", tf, r, ks, img), x, why)
           = Built(m, why, tf, r, ks, img)
BY KallocFull DEF Take, Put, Built

\* otherwise it gets the trapframe,
LEMMA TakeFrame ==
  ASSUME NEW m \in Memory, m.free # {}, NEW why
  PROVE  \E q, m2 : /\ Taken(m, q, m2)
                    /\ Take(Start(m), "trapframe", why)
                         = Built(m2, "done", q, Null, Unmapped, Null)
<1>1. PICK q, m2 : Taken(m, q, m2) /\ Kalloc(m) = [m |-> m2, pa |-> q]
  BY KallocTakes
<1>2. q # Null
  BY <1>1, PageFacts DEF Taken
<1>3. PICK b : b = Start(m)
  OBVIOUS
<1>4. b.end = "done" /\ b.m = m
  BY <1>3 DEF Start, Built
<1>5. Take(b, "trapframe", why) = [b EXCEPT !.m = m2, !["trapframe"] = q]
  <2>1. Take(b, "trapframe", why) = Put(b, "trapframe", Kalloc(m), why)
    BY <1>4 DEF Take
  <2>2. Put(b, "trapframe", [m |-> m2, pa |-> q], why)
          = [b EXCEPT !.m = m2, !["trapframe"] = q]
    BY <1>2 DEF Put
  <2>. QED  BY <1>1, <2>1, <2>2
<1>6. [b EXCEPT !.m = m2] = Built(m2, "done", Null, Null, Unmapped, Null)
  BY <1>3 DEF Start, Built
<1>7. [Built(m2, "done", Null, Null, Unmapped, Null)
         EXCEPT !["trapframe"] = q] = Built(m2, "done", q, Null, Unmapped, Null)
  BY DEF Built
<1>8. Take(b, "trapframe", why) = Built(m2, "done", q, Null, Unmapped, Null)
  BY <1>5, <1>6, <1>7
<1>. QED  BY <1>1, <1>3, <1>8

\* the root
LEMMA TakeRoot ==
  ASSUME NEW m \in Memory, m.free # {}, NEW tf, NEW why
  PROVE  \E q, m2 : /\ Taken(m, q, m2)
                    /\ Take(Built(m, "done", tf, Null, Unmapped, Null), "root", why)
                         = Built(m2, "done", tf, q, Unmapped, Null)
<1>1. PICK q, m2 : Taken(m, q, m2) /\ Kalloc(m) = [m |-> m2, pa |-> q]
  BY KallocTakes
<1>2. q # Null
  BY <1>1, PageFacts DEF Taken
<1>3. PICK b : b = Built(m, "done", tf, Null, Unmapped, Null)
  OBVIOUS
<1>4. b.end = "done" /\ b.m = m
  BY <1>3 DEF Start, Built
<1>5. Take(b, "root", why) = [b EXCEPT !.m = m2, !["root"] = q]
  <2>1. Take(b, "root", why) = Put(b, "root", Kalloc(m), why)
    BY <1>4 DEF Take
  <2>2. Put(b, "root", [m |-> m2, pa |-> q], why)
          = [b EXCEPT !.m = m2, !["root"] = q]
    BY <1>2 DEF Put
  <2>. QED  BY <1>1, <2>1, <2>2
<1>6. [b EXCEPT !.m = m2] = Built(m2, "done", tf, Null, Unmapped, Null)
  BY <1>3 DEF Start, Built
<1>7. [Built(m2, "done", tf, Null, Unmapped, Null)
         EXCEPT !["root"] = q] = Built(m2, "done", tf, q, Unmapped, Null)
  BY DEF Built
<1>8. Take(b, "root", why) = Built(m2, "done", tf, q, Unmapped, Null)
  BY <1>5, <1>6, <1>7
<1>. QED  BY <1>1, <1>3, <1>8

\* and the page of the image.
LEMMA TakeImage ==
  ASSUME NEW m \in Memory, m.free # {}, NEW tf, NEW r, NEW ks, NEW why
  PROVE  \E q, m2 : /\ Taken(m, q, m2)
                    /\ Take(Built(m, "done", tf, r, ks, Null), "image", why)
                         = Built(m2, "done", tf, r, ks, q)
<1>1. PICK q, m2 : Taken(m, q, m2) /\ Kalloc(m) = [m |-> m2, pa |-> q]
  BY KallocTakes
<1>2. q # Null
  BY <1>1, PageFacts DEF Taken
<1>3. PICK b : b = Built(m, "done", tf, r, ks, Null)
  OBVIOUS
<1>4. b.end = "done" /\ b.m = m
  BY <1>3 DEF Start, Built
<1>5. Take(b, "image", why) = [b EXCEPT !.m = m2, !["image"] = q]
  <2>1. Take(b, "image", why) = Put(b, "image", Kalloc(m), why)
    BY <1>4 DEF Take
  <2>2. Put(b, "image", [m |-> m2, pa |-> q], why)
          = [b EXCEPT !.m = m2, !["image"] = q]
    BY <1>2 DEF Put
  <2>. QED  BY <1>1, <2>1, <2>2
<1>6. [b EXCEPT !.m = m2] = Built(m2, "done", tf, r, ks, Null)
  BY <1>3 DEF Start, Built
<1>7. [Built(m2, "done", tf, r, ks, Null)
         EXCEPT !["image"] = q] = Built(m2, "done", tf, r, ks, q)
  BY DEF Built
<1>8. Take(b, "image", why) = Built(m2, "done", tf, r, ks, q)
  BY <1>5, <1>6, <1>7
<1>. QED  BY <1>1, <1>3, <1>8

\* A mapping in the tree that is being built.
LEMMA MapsOf ==
  ASSUME NEW m, NEW tf, NEW r, NEW ks, NEW img, NEW va, NEW why, NEW n
  PROVE  /\ MapPage(m, r, va, Text) = Ok(n) =>
              Map(Built(m, "done", tf, r, ks, img), va, "text", why)
                = Built(n, "done", tf, r, ks, img)
         /\ MapPage(m, r, va, Text) = No(n) =>
              Map(Built(m, "done", tf, r, ks, img), va, "text", why)
                = Built(n, why, tf, r, ks, img)
         /\ MapPage(m, r, va, tf) = Ok(n) =>
              Map(Built(m, "done", tf, r, ks, img), va, "trapframe", why)
                = Built(n, "done", tf, r, ks, img)
         /\ MapPage(m, r, va, img) = Ok(n) =>
              Map(Built(m, "done", tf, r, ks, img), va, "image", why)
                = Built(n, "done", tf, r, ks, img)
         /\ MapPage(m, r, va, img) = No(n) =>
              Map(Built(m, "done", tf, r, ks, img), va, "image", why)
                = Built(n, why, tf, r, ks, img)
<1>1. PICK b : b = Built(m, "done", tf, r, ks, img)
  OBVIOUS
<1>2. /\ b.end = "done" /\ b.m = m /\ b.root = r
      /\ b["trapframe"] = tf /\ b["image"] = img
  BY <1>1 DEF Built
<1>3. /\ Map(b, va, "text", why) = Mapped(b, MapPage(m, r, va, Text), why)
      /\ Map(b, va, "trapframe", why) = Mapped(b, MapPage(m, r, va, tf), why)
      /\ Map(b, va, "image", why) = Mapped(b, MapPage(m, r, va, img), why)
  BY <1>2 DEF Map
<1>4. Mapped(b, Ok(n), why) = Built(n, "done", tf, r, ks, img)
  <2>1. Mapped(b, Ok(n), why) = [b EXCEPT !.m = n, !.end = "done"]
    <3>1. Ok(n).m = n /\ Ok(n).ok = TRUE
      BY DEF Ok
    <3>2. Mapped(b, Ok(n), why)
            = [b EXCEPT !.m = Ok(n).m, !.end = IF Ok(n).ok THEN @ ELSE why]
      BY Zenon DEF Mapped
    <3>. QED  BY <1>2, <3>1, <3>2
  <2>2. [b EXCEPT !.m = n] = Built(n, "done", tf, r, ks, img)
    BY <1>1 DEF Built
  <2>3. [Built(n, "done", tf, r, ks, img) EXCEPT !.end = "done"]
          = Built(n, "done", tf, r, ks, img)
    BY DEF Built
  <2>. QED  BY <2>1, <2>2, <2>3
<1>5. Mapped(b, No(n), why) = Built(n, why, tf, r, ks, img)
  <2>1. Mapped(b, No(n), why) = [b EXCEPT !.m = n, !.end = why]
    <3>1. No(n).m = n /\ No(n).ok = FALSE
      BY DEF No
    <3>2. Mapped(b, No(n), why)
            = [b EXCEPT !.m = No(n).m, !.end = IF No(n).ok THEN @ ELSE why]
      BY Zenon DEF Mapped
    <3>. QED  BY <1>2, <3>1, <3>2
  <2>2. [b EXCEPT !.m = n] = Built(n, "done", tf, r, ks, img)
    BY <1>1 DEF Built
  <2>3. [Built(n, "done", tf, r, ks, img) EXCEPT !.end = why]
          = Built(n, why, tf, r, ks, img)
    BY DEF Built
  <2>. QED  BY <2>1, <2>2, <2>3
<1>. QED  BY <1>1, <1>3, <1>4, <1>5

\* The unchecked kalloc() of the kernel stack.
LEMMA KernelStackOf ==
  ASSUME NEW m, NEW tf, NEW r, NEW n, NEW q, Kalloc(m) = [m |-> n, pa |-> q]
  PROVE  KernelStack(Built(m, "done", tf, r, Unmapped, Null), Unmapped)
           = Built(n, "done", tf, r, q, Null)
<1>1. PICK b : b = Built(m, "done", tf, r, Unmapped, Null)
  OBVIOUS
<1>2. b.end = "done" /\ b.m = m
  BY <1>1 DEF Built
<1>3. KernelStack(b, Unmapped) = [b EXCEPT !.m = n, !.kstack = q]
  <2>1. KernelStack(b, Unmapped) = [b EXCEPT !.m = Kalloc(m).m, !.kstack = Kalloc(m).pa]
    BY <1>2, Zenon DEF KernelStack, MapKstack
  <2>2. Kalloc(m).m = n /\ Kalloc(m).pa = q
    OBVIOUS
  <2>. QED  BY <2>1, <2>2
<1>4. [b EXCEPT !.m = n] = Built(n, "done", tf, r, Unmapped, Null)
  BY <1>1 DEF Built
<1>5. [Built(n, "done", tf, r, Unmapped, Null) EXCEPT !.kstack = q]
        = Built(n, "done", tf, r, q, Null)
  BY DEF Built
<1>. QED  BY <1>1, <1>3, <1>4, <1>5

\* The program is copied to its page.
LEMMA LoadOf ==
  ASSUME NEW m, NEW tf, NEW r, NEW ks, NEW img, NEW v
  PROVE  Load(Built(m, "done", tf, r, ks, img), v)
           = Built([m EXCEPT !.content[img] = v], "done", tf, r, ks, img)
BY DEF Load, Built

\* After a failure nothing more is done.
LEMMA NothingMore ==
  ASSUME NEW m, NEW end, end # "done", NEW tf, NEW r, NEW ks, NEW img
  PROVE  LET b == Built(m, end, tf, r, ks, img)
         IN  /\ \A x, why : Take(b, x, why) = b
             /\ \A va, x, why : Map(b, va, x, why) = b
             /\ KernelStack(b, Unmapped) = b
             /\ \A v : Load(b, v) = b
BY DEF Take, Map, KernelStack, Load, Built

\* A page that is taken changes no other.
LEMMA TakenRows ==
  ASSUME NEW m \in Memory, NEW q, NEW m2, Taken(m, q, m2)
  PROVE  /\ m2.pte[q] = Empty
         /\ \A x \in Page : x # q => m2.pte[x] = m.pte[x]
         /\ \A x \in Page : x # q => m2.content[x] = m.content[x]
BY DEF Taken, Memory

Same(m, n, q) == n.pte[q] = m.pte[q] /\ n.content[q] = m.content[q]

\* The kernel's half of a page table: r is the root, tf the trapframe.
TopRows(m, r, t1, t2, tf) ==
  /\ m.pte[r]["top"] = Table(t1) /\ m.pte[r]["frame"] = Invalid
  /\ m.pte[t1]["top"] = Table(t2) /\ m.pte[t1]["frame"] = Invalid
  /\ m.pte[t1]["low"] = Invalid
  /\ m.pte[t2]["top"] = Leaf(Text) /\ m.pte[t2]["frame"] = Leaf(tf)
  /\ m.pte[t2]["low"] = Invalid

AllocDone(m, n, tf, r, t1, t2, ks) ==
  /\ n \in Memory /\ n.fault = m.fault
  /\ tf \in m.free /\ r \in m.free /\ t1 \in m.free /\ t2 \in m.free
  /\ tf # r /\ tf # t1 /\ tf # t2 /\ r # t1 /\ r # t2 /\ t1 # t2
  /\ TopRows(n, r, t1, t2, tf) /\ n.pte[r]["low"] = Invalid
  /\ \/ /\ ks \in m.free /\ ks # tf /\ ks # r /\ ks # t1 /\ ks # t2
        /\ n.free = m.free \ {tf, r, t1, t2, ks}
     \/ ks = Null /\ n.free = {} /\ m.free = {tf, r, t1, t2}
  /\ \A q \in Page : q \notin m.free => Same(m, n, q)

AllocFailed(m, n, tf) ==
  /\ n \in Memory /\ n.fault = m.fault
  /\ n.free = {} /\ (tf \in m.free \/ tf = Null)
  /\ \E x, y : m.free \subseteq {x, y, tf}
  /\ \A q \in Page : q \notin m.free => Same(m, n, q)

AllocEnds == {"no_trapframe", "no_root", "no_table"}

IdxFacts == "low" \in Idx /\ "frame" \in Idx /\ "top" \in Idx

\* allocproc() up to the root of the page table,
LEMMA AllocTwo ==
  ASSUME NEW m \in Memory, m.free # {}
  PROVE  LET b == Take(Take(Start(m), "trapframe", "no_trapframe"),
                       "root", "no_root")
         IN \/ \E n, tf : /\ AllocFailed(m, n, tf)
                          /\ b = Built(n, "no_root", tf, Null, Unmapped, Null)
            \/ \E n, tf, r :
                 /\ n \in Memory /\ n.fault = m.fault
                 /\ tf \in m.free /\ r \in m.free /\ tf # r
                 /\ n.free = m.free \ {tf, r} /\ n.pte[r] = Empty
                 /\ \A q \in Page : q \notin m.free => Same(m, n, q)
                 /\ b = Built(n, "done", tf, r, Unmapped, Null)
<1>1. PICK tf, n1 : /\ Taken(m, tf, n1)
                    /\ Take(Start(m), "trapframe", "no_trapframe")
                         = Built(n1, "done", tf, Null, Unmapped, Null)
  BY TakeFrame
<1>2. /\ n1 \in Memory /\ n1.fault = m.fault /\ tf \in m.free
      /\ n1.free = m.free \ {tf}
      /\ \A q \in Page : q \notin m.free => Same(m, n1, q)
  BY <1>1, TakenRows DEF Taken, Same
<1>3. CASE n1.free = {}
  <2>1. AllocFailed(m, n1, tf)
    <3>1. \E x, y : m.free \subseteq {x, y, tf}
      BY <1>2, <1>3
    <3>. QED  BY <1>2, <1>3, <3>1 DEF AllocFailed
  <2>. QED  BY <1>1, <1>3, <2>1, TakeFull
<1>4. CASE n1.free # {}
  <2>1. PICK r, n : /\ Taken(n1, r, n)
                    /\ Take(Built(n1, "done", tf, Null, Unmapped, Null),
                            "root", "no_root")
                         = Built(n, "done", tf, r, Unmapped, Null)
    BY <1>2, <1>4, TakeRoot
  <2>2. /\ n \in Memory /\ n.fault = m.fault
        /\ r \in m.free /\ tf # r
        /\ n.free = m.free \ {tf, r} /\ n.pte[r] = Empty
    <3>1. n.pte[r] = Empty
      BY <1>2, <2>1, TakenRows
    <3>. QED  BY <1>2, <2>1, <3>1 DEF Taken
  <2>3. \A q \in Page : q # r => Same(n1, n, q)
    BY <1>2, <2>1, TakenRows DEF Same
  <2>4. \A q \in Page : q \notin m.free => Same(m, n, q)
    BY <1>2, <2>2, <2>3 DEF Same
  <2>. QED  BY <1>1, <1>2, <2>1, <2>2, <2>4
<1>. QED  BY <1>3, <1>4

\* from there to the last mapping,
LEMMA AllocFour ==
  ASSUME NEW m \in Memory, NEW n \in Memory, n.fault = m.fault,
         NEW tf \in m.free, NEW r \in m.free, tf # r,
         n.free = m.free \ {tf, r}, n.pte[r] = Empty,
         \A q \in Page : q \notin m.free => Same(m, n, q),
         NEW b, b = Map(Map(Built(n, "done", tf, r, Unmapped, Null),
                            TRAMPOLINE, "text", "no_table"),
                        TRAPFRAME, "trapframe", "no_table")
  PROVE  \/ \E k : /\ AllocFailed(m, k, tf)
                   /\ b = Built(k, "no_table", tf, r, Unmapped, Null)
         \/ \E k, t1, t2 :
              /\ k \in Memory /\ k.fault = m.fault
              /\ t1 \in m.free /\ t2 \in m.free /\ tf # t1 /\ tf # t2
              /\ r # t1 /\ r # t2 /\ t1 # t2
              /\ TopRows(k, r, t1, t2, tf) /\ k.pte[r]["low"] = Invalid
              /\ k.free = m.free \ {tf, r, t1, t2}
              /\ \A q \in Page : q \notin m.free => Same(m, k, q)
              /\ b = Built(k, "done", tf, r, Unmapped, Null)
<1>1. /\ r \in Page /\ tf \in Page /\ IdxFacts /\ Text \in Page \cup {Null, Text}
      /\ r \notin n.free
      /\ \A i \in Idx : Empty[i] = Invalid
  BY DEF Memory, IdxFacts, Idx, Empty
<1>2. PICK mp : mp = MapPage(n, r, <<"top", "top", "top">>, Text)
  OBVIOUS
<1>3. "no_table" # "done"
  OBVIOUS
<1>4. \/ \E t1, t2, k : TwoHung(n, r, "top", Text, t1, t2, k) /\ mp = Ok(k)
      \/ \E t1, k : OneHung(n, r, "top", t1, k) /\ mp = No(k)
      \/ n.free = {} /\ mp = No(n)
  BY <1>1, <1>2, MapNew DEF IdxFacts
<1>5. ASSUME NEW k, mp = No(k)
      PROVE  b = Built(k, "no_table", tf, r, Unmapped, Null)
  <2>1. Map(Built(n, "done", tf, r, Unmapped, Null), TRAMPOLINE, "text",
            "no_table") = Built(k, "no_table", tf, r, Unmapped, Null)
    <3>1. MapPage(n, r, TRAMPOLINE, Text) = No(k)
      BY <1>2, <1>5 DEF TRAMPOLINE
    <3>. QED  BY <3>1, MapsOf
  <2>. QED  BY <1>3, <2>1, NothingMore
<1>6. ASSUME NEW t1, NEW k, OneHung(n, r, "top", t1, k)
      PROVE  AllocFailed(m, k, tf)
  <2>1. m.free \subseteq {r, t1, tf}
    BY <1>6 DEF OneHung
  <2>2. \A q \in Page : q \notin m.free => Same(n, k, q)
    BY <1>1, <1>6 DEF OneHung, Same
  <2>3. \A q \in Page : q \notin m.free => Same(m, k, q)
    BY <2>2 DEF Same
  <2>. QED  BY <1>6, <2>1, <2>3 DEF OneHung, AllocFailed
<1>7. ASSUME n.free = {}
      PROVE  AllocFailed(m, n, tf)
  <2>1. m.free \subseteq {r, r, tf}
    BY <1>7
  <2>. QED  BY <1>7, <2>1 DEF AllocFailed
<1>8. ASSUME NEW t1, NEW t2, NEW h, TwoHung(n, r, "top", Text, t1, t2, h),
             mp = Ok(h)
      PROVE  \E k :
              /\ k \in Memory /\ k.fault = m.fault
              /\ t1 \in m.free /\ t2 \in m.free /\ tf # t1 /\ tf # t2
              /\ r # t1 /\ r # t2 /\ t1 # t2
              /\ TopRows(k, r, t1, t2, tf) /\ k.pte[r]["low"] = Invalid
              /\ k.free = m.free \ {tf, r, t1, t2}
              /\ \A q \in Page : q \notin m.free => Same(m, k, q)
              /\ b = Built(k, "done", tf, r, Unmapped, Null)
  <2>1. /\ h \in Memory /\ h.fault = m.fault
        /\ t1 \in m.free /\ t2 \in m.free /\ tf # t1 /\ tf # t2
        /\ r # t1 /\ r # t2 /\ t1 # t2 /\ t1 \in Page /\ t2 \in Page
        /\ h.free = m.free \ {tf, r, t1, t2}
    BY <1>8 DEF TwoHung, Memory
  <2>2. /\ h.pte[r] = [Empty EXCEPT !["top"] = Table(t1)]
        /\ h.pte[t1] = [Empty EXCEPT !["top"] = Table(t2)]
        /\ h.pte[t2] = [Empty EXCEPT !["top"] = Leaf(Text)]
    BY <1>8 DEF TwoHung
  <2>3. ASSUME NEW e
        PROVE  /\ [Empty EXCEPT !["top"] = e]["top"] = e
               /\ [Empty EXCEPT !["top"] = e]["low"] = Invalid
               /\ [Empty EXCEPT !["top"] = e]["frame"] = Invalid
    BY DEF Empty, Idx
  <2>4. /\ h.pte[r]["top"] = Table(t1) /\ h.pte[r]["frame"] = Invalid
        /\ h.pte[r]["low"] = Invalid
        /\ h.pte[t1]["top"] = Table(t2) /\ h.pte[t1]["frame"] = Invalid
        /\ h.pte[t1]["low"] = Invalid
        /\ h.pte[t2]["top"] = Leaf(Text) /\ h.pte[t2]["frame"] = Invalid
        /\ h.pte[t2]["low"] = Invalid
    BY <2>2, <2>3
  <2>5. PICK k : /\ Leafed(h, t2, "frame", tf, k)
                 /\ MapPage(h, r, <<"top", "top", "frame">>, tf) = Ok(k)
    BY <1>1, <2>1, <2>4, MapOld DEF IdxFacts
  <2>6. /\ k.pte[t2] = [h.pte[t2] EXCEPT !["frame"] = Leaf(tf)]
        /\ \A q \in Page : q # t2 => k.pte[q] = h.pte[q]
    BY <2>1, <2>5 DEF Leafed, Memory
  <2>7. TopRows(k, r, t1, t2, tf) /\ k.pte[r]["low"] = Invalid
    <3>1. /\ k.pte[r] = h.pte[r] /\ k.pte[t1] = h.pte[t1]
      BY <1>1, <2>1, <2>6
    <3>2. /\ k.pte[t2]["frame"] = Leaf(tf)
          /\ k.pte[t2]["top"] = Leaf(Text) /\ k.pte[t2]["low"] = Invalid
      <4>1. h.pte[t2] \in [Idx -> Entry]
        BY <2>1 DEF Memory
      <4>. QED  BY <1>1, <2>4, <2>6, <4>1 DEF IdxFacts
    <3>. QED  BY <2>4, <3>1, <3>2 DEF TopRows
  <2>8. \A q \in Page : q \notin m.free => Same(m, k, q)
    <3>1. \A q \in Page : q \notin m.free =>
             h.pte[q] = n.pte[q] /\ h.content[q] = n.content[q]
      BY <1>8, <2>1 DEF TwoHung
    <3>2. \A q \in Page : q \notin m.free =>
             k.pte[q] = n.pte[q] /\ k.content[q] = n.content[q]
      BY <2>1, <2>5, <2>6, <3>1 DEF Leafed
    <3>. QED  BY <3>2 DEF Same
  <2>9. b = Built(k, "done", tf, r, Unmapped, Null)
    <3>1. Map(Built(n, "done", tf, r, Unmapped, Null), TRAMPOLINE, "text",
              "no_table") = Built(h, "done", tf, r, Unmapped, Null)
      <4>1. MapPage(n, r, TRAMPOLINE, Text) = Ok(h)
        BY <1>2, <1>8 DEF TRAMPOLINE
      <4>. QED  BY <4>1, MapsOf
    <3>. QED  BY <2>5, <3>1, MapsOf DEF TRAPFRAME
  <2>. QED  BY <2>1, <2>5, <2>7, <2>8, <2>9 DEF Leafed
<1>. QED  BY <1>4, <1>5, <1>6, <1>7, <1>8

\* and all of it: the tree of a process, or memory has run out.
LEMMA AllocProcFacts ==
  ASSUME NEW m \in Memory
  PROVE  \/ \E n, tf, end, r :
              /\ end \in AllocEnds /\ AllocFailed(m, n, tf)
              /\ AllocProc(m, Unmapped) = Built(n, end, tf, r, Unmapped, Null)
         \/ \E n, tf, r, t1, t2, ks :
              /\ AllocDone(m, n, tf, r, t1, t2, ks)
              /\ AllocProc(m, Unmapped) = Built(n, "done", tf, r, ks, Null)
<1>1. PICK b2 : b2 = Take(Take(Start(m), "trapframe", "no_trapframe"),
                          "root", "no_root")
  OBVIOUS
<1>2. PICK b4 : b4 = Map(Map(b2, TRAMPOLINE, "text", "no_table"),
                         TRAPFRAME, "trapframe", "no_table")
  OBVIOUS
<1>3. AllocProc(m, Unmapped) = KernelStack(b4, Unmapped)
  BY <1>1, <1>2 DEF AllocProc
<1>4. ASSUME NEW n, NEW tf, NEW end \in AllocEnds, NEW r,
             AllocFailed(m, n, tf),
             b2 = Built(n, end, tf, r, Unmapped, Null)
               \/ b4 = Built(n, end, tf, r, Unmapped, Null)
      PROVE  AllocProc(m, Unmapped) = Built(n, end, tf, r, Unmapped, Null)
  <2>1. end # "done"
    BY DEF AllocEnds
  <2>2. b4 = Built(n, end, tf, r, Unmapped, Null)
    BY <1>2, <1>4, <2>1, NothingMore
  <2>. QED  BY <1>3, <2>1, <2>2, NothingMore
<1>5. CASE m.free = {}
  <2>1. Start(m) = Built(m, "done", Null, Null, Unmapped, Null)
    BY DEF Start, Built
  <2>2. Take(Start(m), "trapframe", "no_trapframe")
          = Built(m, "no_trapframe", Null, Null, Unmapped, Null)
    BY <1>5, <2>1, TakeFull
  <2>3. b2 = Built(m, "no_trapframe", Null, Null, Unmapped, Null)
    BY <1>1, <2>2, NothingMore
  <2>4. AllocFailed(m, m, Null)
    <3>1. \E x, y : m.free \subseteq {x, y, Null}
      BY <1>5
    <3>. QED  BY <1>5, <3>1 DEF AllocFailed, Same
  <2>. QED  BY <1>4, <2>3, <2>4 DEF AllocEnds
<1>6. CASE m.free # {}
  <2>1. ASSUME NEW n, NEW tf, AllocFailed(m, n, tf),
               b2 = Built(n, "no_root", tf, Null, Unmapped, Null)
        PROVE  \E end, r : end \in AllocEnds /\
                 AllocProc(m, Unmapped) = Built(n, end, tf, r, Unmapped, Null)
    BY <1>4, <2>1 DEF AllocEnds
  <2>2. ASSUME NEW n, NEW tf, NEW r,
               n \in Memory /\ n.fault = m.fault,
               tf \in m.free /\ r \in m.free /\ tf # r,
               n.free = m.free \ {tf, r} /\ n.pte[r] = Empty,
               \A q \in Page : q \notin m.free => Same(m, n, q),
               b2 = Built(n, "done", tf, r, Unmapped, Null)
        PROVE  \/ \E k : /\ AllocFailed(m, k, tf)
                         /\ AllocProc(m, Unmapped) = Built(k, "no_table", tf, r, Unmapped, Null)
               \/ \E k, t1, t2, ks :
                    /\ AllocDone(m, k, tf, r, t1, t2, ks)
                    /\ AllocProc(m, Unmapped) = Built(k, "done", tf, r, ks, Null)
    <3>1. b4 = Map(Map(Built(n, "done", tf, r, Unmapped, Null),
                            TRAMPOLINE, "text", "no_table"),
                        TRAPFRAME, "trapframe", "no_table")
      BY <1>2, <2>2
    <3>2. ASSUME NEW k, AllocFailed(m, k, tf),
                 b4 = Built(k, "no_table", tf, r, Unmapped, Null)
          PROVE  AllocProc(m, Unmapped) = Built(k, "no_table", tf, r, Unmapped, Null)
      BY <1>4, <3>2 DEF AllocEnds
    <3>3. ASSUME NEW k, NEW t1, NEW t2,
              k \in Memory /\ k.fault = m.fault,
              t1 \in m.free /\ t2 \in m.free /\ tf # t1 /\ tf # t2,
              r # t1 /\ r # t2 /\ t1 # t2,
              TopRows(k, r, t1, t2, tf) /\ k.pte[r]["low"] = Invalid,
              k.free = m.free \ {tf, r, t1, t2},
              \A q \in Page : q \notin m.free => Same(m, k, q),
              b4 = Built(k, "done", tf, r, Unmapped, Null)
          PROVE  \E h, ks :
                    /\ AllocDone(m, h, tf, r, t1, t2, ks)
                    /\ AllocProc(m, Unmapped) = Built(h, "done", tf, r, ks, Null)
      <4>1. CASE k.free = {}
        <5>1. AllocProc(m, Unmapped) = Built(k, "done", tf, r, Null, Null)
          BY <1>3, <3>3, <4>1, KallocFull, KernelStackOf
        <5>2. AllocDone(m, k, tf, r, t1, t2, Null)
          BY <2>2, <3>3, <4>1 DEF AllocDone
        <5>. QED  BY <5>1, <5>2
      <4>2. CASE k.free # {}
        <5>1. PICK ks, h : Taken(k, ks, h) /\ Kalloc(k) = [m |-> h, pa |-> ks]
          BY <3>3, <4>2, KallocTakes
        <5>2. AllocProc(m, Unmapped) = Built(h, "done", tf, r, ks, Null)
          BY <1>3, <3>3, <5>1, KernelStackOf
        <5>3. /\ h \in Memory /\ h.fault = m.fault
              /\ ks \in m.free /\ ks # tf /\ ks # r /\ ks # t1 /\ ks # t2
              /\ h.free = m.free \ {tf, r, t1, t2, ks}
          BY <3>3, <5>1 DEF Taken
        <5>4. /\ \A x \in Page : x # ks => h.pte[x] = k.pte[x]
              /\ \A x \in Page : x # ks => h.content[x] = k.content[x]
          BY <3>3, <5>1, TakenRows
        <5>5. r \in Page /\ t1 \in Page /\ t2 \in Page
          BY <2>2, <3>3 DEF Memory
        <5>6. TopRows(h, r, t1, t2, tf) /\ h.pte[r]["low"] = Invalid
          BY <3>3, <5>3, <5>4, <5>5 DEF TopRows
        <5>7. \A q \in Page : q \notin m.free => Same(m, h, q)
          BY <3>3, <5>3, <5>4 DEF Same
        <5>8. AllocDone(m, h, tf, r, t1, t2, ks)
          BY <2>2, <3>3, <5>3, <5>6, <5>7 DEF AllocDone
        <5>. QED  BY <5>2, <5>8
      <4>. QED  BY <4>1, <4>2
    <3>. QED  BY <2>2, <3>1, <3>2, <3>3, AllocFour
  <2>. QED
    BY <1>1, <1>6, <2>1, <2>2, AllocTwo DEF AllocEnds
<1>. QED  BY <1>5, <1>6

-------------------------------------------------------------------------
(* A page with an image for the new process.                               *)

\* The user's half of a page table, up to the entry of the image.
LowRows(m, r, l1, l2) ==
  /\ m.pte[r]["low"] = Table(l1)
  /\ m.pte[l1]["low"] = Table(l2)
  /\ m.pte[l1]["frame"] = Invalid /\ m.pte[l1]["top"] = Invalid
  /\ m.pte[l2]["frame"] = Invalid /\ m.pte[l2]["top"] = Invalid

\* What memory sufficed for of it: nothing, or a table without entries.
PartRows(m, r, l1) ==
  IF l1 = Null THEN m.pte[r]["low"] = Invalid
  ELSE /\ m.pte[r]["low"] = Table(l1)
       /\ \A i \in Idx : m.pte[l1][i] = Invalid

ImageDone(m, n, tf, r, t1, t2, ks, img, l1, l2, v) ==
  /\ n \in Memory /\ n.fault = m.fault
  /\ tf \in m.free /\ r \in m.free \ {tf} /\ t1 \in m.free \ {tf, r}
  /\ t2 \in m.free \ {tf, r, t1} /\ ks \in m.free \ {tf, r, t1, t2}
  /\ img \in m.free \ {tf, r, t1, t2, ks}
  /\ l1 \in m.free \ {tf, r, t1, t2, ks, img}
  /\ l2 \in m.free \ {tf, r, t1, t2, ks, img, l1}
  /\ n.free = m.free \ {tf, r, t1, t2, ks, img, l1, l2}
  /\ TopRows(n, r, t1, t2, tf) /\ LowRows(n, r, l1, l2)
  /\ n.pte[l2]["low"] = Leaf(img) /\ n.content[img] = v
  /\ \A q \in Page : q \notin m.free => Same(m, n, q)

ImageFailed(m, n, tf, r, t1, t2, ks, img, l1) ==
  /\ n \in Memory /\ n.fault = m.fault
  /\ tf \in m.free /\ r \in m.free \ {tf} /\ t1 \in m.free \ {tf, r}
  /\ t2 \in m.free \ {tf, r, t1}
  /\ ks = Null \/ ks \in m.free \ {tf, r, t1, t2}
  /\ img = Null \/ img \in m.free \ {tf, r, t1, t2, ks}
  /\ l1 = Null \/ l1 \in m.free \ {tf, r, t1, t2, ks, img}
  /\ n.free = {} /\ m.free \subseteq {tf, r, t1, t2, ks, img, l1}
  /\ TopRows(n, r, t1, t2, tf) /\ PartRows(n, r, l1)
  /\ \A q \in Page : q \notin m.free => Same(m, n, q)

\* The image is mapped, or memory has run out at one of three places.
LEMMA MapImageFacts ==
  ASSUME NEW m \in Memory, NEW k, NEW tf, NEW r, NEW t1, NEW t2, NEW ks,
         AllocDone(m, k, tf, r, t1, t2, ks), NEW v \in Content,
         NEW b, b = MapImage(Built(k, "done", tf, r, ks, Null), v)
  PROVE  \/ \E n, img, l1 : /\ ImageFailed(m, n, tf, r, t1, t2, ks, img, l1)
                            /\ b = Built(n, "no_image", tf, r, ks, img)
         \/ \E n, img, l1, l2 :
              /\ ImageDone(m, n, tf, r, t1, t2, ks, img, l1, l2, v)
              /\ b = Built(n, "done", tf, r, ks, img)
<1>1. /\ k \in Memory /\ k.fault = m.fault
      /\ tf \in m.free /\ r \in m.free \ {tf} /\ t1 \in m.free \ {tf, r}
      /\ t2 \in m.free \ {tf, r, t1}
      /\ r \in Page /\ t1 \in Page /\ t2 \in Page
      /\ TopRows(k, r, t1, t2, tf) /\ k.pte[r]["low"] = Invalid
      /\ \A q \in Page : q \notin m.free => Same(m, k, q)
  BY DEF AllocDone, Memory
<1>2. /\ ks = Null \/ ks \in m.free \ {tf, r, t1, t2}
      /\ k.free # {} => /\ ks \in m.free \ {tf, r, t1, t2}
                        /\ k.free = m.free \ {tf, r, t1, t2, ks}
      /\ k.free = {} => m.free \subseteq {tf, r, t1, t2, ks}
  BY DEF AllocDone
<1>3. "no_image" # "done" /\ IdxFacts /\ \A i \in Idx : Empty[i] = Invalid
  BY DEF IdxFacts, Idx, Empty
<1>4. PICK b1 : b1 = Take(Built(k, "done", tf, r, ks, Null), "image", "no_image")
  OBVIOUS
<1>5. b = Map(Load(b1, v), UserVA, "image", "no_image")
  BY <1>4 DEF MapImage
<1>6. CASE k.free = {}
  <2>1. b1 = Built(k, "no_image", tf, r, ks, Null)
    BY <1>4, <1>6, TakeFull
  <2>2. b = Built(k, "no_image", tf, r, ks, Null)
    BY <1>3, <1>5, <2>1, NothingMore
  <2>3. PartRows(k, r, Null)
    BY <1>1 DEF PartRows
  <2>4. ImageFailed(m, k, tf, r, t1, t2, ks, Null, Null)
    BY <1>1, <1>2, <1>6, <2>3 DEF ImageFailed
  <2>. QED  BY <2>2, <2>4
<1>7. CASE k.free # {}
  <2>1. PICK img, g : /\ Taken(k, img, g)
                      /\ b1 = Built(g, "done", tf, r, ks, img)
    BY <1>1, <1>4, <1>7, TakeImage
  <2>2. /\ g \in Memory /\ g.fault = m.fault /\ img \in Page
        /\ img \in m.free \ {tf, r, t1, t2, ks}
        /\ g.free = m.free \ {tf, r, t1, t2, ks, img}
    BY <1>1, <1>2, <1>7, <2>1 DEF Taken
  <2>3. \A q \in Page : q # img => Same(k, g, q)
    BY <1>1, <2>1, TakenRows DEF Same
  <2>4. PICK h : h = SetContent(g, img, v)
    OBVIOUS
  <2>5. /\ h \in Memory /\ h.free = g.free /\ h.fault = m.fault
        /\ h.pte = g.pte /\ h.content = [g.content EXCEPT ![img] = v]
    BY <2>2, <2>4, SetContentFacts
  <2>6. \A q \in Page : q # img => Same(k, h, q)
    BY <2>2, <2>3, <2>5 DEF Same, Memory
  <2>7. h.content[img] = v
    BY <2>2, <2>5 DEF Memory
  <2>8. /\ h.pte[r] = k.pte[r] /\ h.pte[t1] = k.pte[t1]
        /\ h.pte[t2] = k.pte[t2]
    BY <1>1, <2>2, <2>6 DEF Same
  <2>9. Load(b1, v) = Built(h, "done", tf, r, ks, img)
    BY <2>1, <2>4, LoadOf DEF SetContent
  <2>10. PICK mp : mp = MapPage(h, r, UserVA, img)
    OBVIOUS
  <2>11. \/ \E l1, l2, n : TwoHung(h, r, "low", img, l1, l2, n) /\ mp = Ok(n)
         \/ \E l1, n : OneHung(h, r, "low", l1, n) /\ mp = No(n)
         \/ h.free = {} /\ mp = No(h)
    <3>1. h.pte[r]["low"] = Invalid /\ r \notin h.free
      BY <1>1, <2>2, <2>5, <2>8
    <3>2. mp = MapPage(h, r, <<"low", "low", "low">>, img)
      BY <2>10 DEF UserVA
    <3>. QED  BY <1>1, <1>3, <2>2, <2>5, <3>1, <3>2, MapNew DEF IdxFacts
  <2>12. ASSUME NEW n, mp = No(n)
         PROVE  b = Built(n, "no_image", tf, r, ks, img)
    <3>1. MapPage(h, r, UserVA, img) = No(n)
      BY <2>10, <2>12
    <3>. QED  BY <1>5, <2>9, <3>1, MapsOf
  <2>13. ASSUME NEW n, mp = Ok(n)
         PROVE  b = Built(n, "done", tf, r, ks, img)
    <3>1. MapPage(h, r, UserVA, img) = Ok(n)
      BY <2>10, <2>13
    <3>. QED  BY <1>5, <2>9, <3>1, MapsOf
  <2>14. CASE h.free = {}
    <3>1. PartRows(h, r, Null) /\ TopRows(h, r, t1, t2, tf)
      BY <1>1, <2>8 DEF PartRows, TopRows
    <3>2. \A q \in Page : q \notin m.free => Same(m, h, q)
      BY <1>1, <2>2, <2>6 DEF Same
    <3>3. m.free \subseteq {tf, r, t1, t2, ks, img, Null}
      BY <2>2, <2>5, <2>14
    <3>4. ImageFailed(m, h, tf, r, t1, t2, ks, img, Null)
      BY <1>1, <1>2, <2>2, <2>5, <2>14, <3>1, <3>2, <3>3 DEF ImageFailed
    <3>5. mp = No(h)
      BY <2>11, <2>14 DEF TwoHung, OneHung
    <3>. QED  BY <2>12, <3>4, <3>5
  <2>15. ASSUME NEW l1, NEW n, OneHung(h, r, "low", l1, n)
         PROVE  ImageFailed(m, n, tf, r, t1, t2, ks, img, l1)
    <3>1. /\ n \in Memory /\ n.fault = m.fault /\ n.free = {}
          /\ l1 \in m.free \ {tf, r, t1, t2, ks, img} /\ l1 \in Page
          /\ m.free \subseteq {tf, r, t1, t2, ks, img, l1}
      BY <2>2, <2>5, <2>15 DEF OneHung, Memory
    <3>2. /\ n.pte[t1] = k.pte[t1] /\ n.pte[t2] = k.pte[t2]
          /\ n.pte[r] = [k.pte[r] EXCEPT !["low"] = Table(l1)]
          /\ n.pte[l1] = Empty
      BY <1>1, <2>8, <2>15, <3>1 DEF OneHung
    <3>3. /\ n.pte[r]["low"] = Table(l1)
          /\ n.pte[r]["top"] = k.pte[r]["top"]
          /\ n.pte[r]["frame"] = k.pte[r]["frame"]
      <4>1. k.pte[r] \in [Idx -> Entry]
        BY <1>1 DEF Memory
      <4>. QED  BY <1>3, <3>2, <4>1 DEF IdxFacts
    <3>4. TopRows(n, r, t1, t2, tf)
      BY <1>1, <3>2, <3>3 DEF TopRows
    <3>5. PartRows(n, r, l1)
      BY <1>3, <3>1, <3>2, <3>3, PageFacts DEF PartRows
    <3>6. \A q \in Page : q \notin m.free => Same(m, n, q)
      <4>1. \A q \in Page : q \notin m.free =>
              n.pte[q] = h.pte[q] /\ n.content[q] = h.content[q]
        BY <1>1, <2>15, <3>1 DEF OneHung
      <4>. QED  BY <1>1, <2>2, <2>6, <4>1 DEF Same
    <3>. QED  BY <1>1, <1>2, <1>7, <2>2, <3>1, <3>4, <3>5, <3>6 DEF ImageFailed
  <2>16. ASSUME NEW l1, NEW l2, NEW n, TwoHung(h, r, "low", img, l1, l2, n)
         PROVE  ImageDone(m, n, tf, r, t1, t2, ks, img, l1, l2, v)
    <3>1. /\ n \in Memory /\ n.fault = m.fault
          /\ l1 \in m.free \ {tf, r, t1, t2, ks, img} /\ l1 \in Page
          /\ l2 \in m.free \ {tf, r, t1, t2, ks, img, l1} /\ l2 \in Page
          /\ n.free = m.free \ {tf, r, t1, t2, ks, img, l1, l2}
      BY <2>2, <2>5, <2>16 DEF TwoHung, Memory
    <3>2. /\ n.pte[t1] = k.pte[t1] /\ n.pte[t2] = k.pte[t2]
          /\ n.pte[r] = [k.pte[r] EXCEPT !["low"] = Table(l1)]
          /\ n.pte[l1] = [Empty EXCEPT !["low"] = Table(l2)]
          /\ n.pte[l2] = [Empty EXCEPT !["low"] = Leaf(img)]
          /\ n.content[img] = v
      BY <1>1, <2>2, <2>7, <2>8, <2>16, <3>1 DEF TwoHung
    <3>3. /\ n.pte[r]["low"] = Table(l1)
          /\ n.pte[r]["top"] = k.pte[r]["top"]
          /\ n.pte[r]["frame"] = k.pte[r]["frame"]
      <4>1. k.pte[r] \in [Idx -> Entry]
        BY <1>1 DEF Memory
      <4>. QED  BY <1>3, <3>2, <4>1 DEF IdxFacts
    <3>4. TopRows(n, r, t1, t2, tf)
      BY <1>1, <3>2, <3>3 DEF TopRows
    <3>5. LowRows(n, r, l1, l2) /\ n.pte[l2]["low"] = Leaf(img)
      <4>1. ASSUME NEW e
            PROVE  /\ [Empty EXCEPT !["low"] = e]["low"] = e
                   /\ [Empty EXCEPT !["low"] = e]["top"] = Invalid
                   /\ [Empty EXCEPT !["low"] = e]["frame"] = Invalid
        BY DEF Empty, Idx
      <4>. QED  BY <3>2, <3>3, <4>1 DEF LowRows
    <3>6. \A q \in Page : q \notin m.free => Same(m, n, q)
      <4>1. \A q \in Page : q \notin m.free =>
              n.pte[q] = h.pte[q] /\ n.content[q] = h.content[q]
        BY <1>1, <2>16, <3>1 DEF TwoHung
      <4>. QED  BY <1>1, <2>2, <2>6, <4>1 DEF Same
    <3>. QED  BY <1>1, <1>2, <1>7, <2>2, <3>1, <3>2, <3>4, <3>5, <3>6 DEF ImageDone
  <2>. QED  BY <2>11, <2>12, <2>13, <2>14, <2>15, <2>16
<1>. QED  BY <1>6, <1>7

\* The image's page goes back when no table could be had for it.
ImageBack(m, n, tf, r, t1, t2, ks, l1) ==
  /\ n \in Memory /\ n.fault = m.fault
  /\ tf \in m.free /\ r \in m.free \ {tf} /\ t1 \in m.free \ {tf, r}
  /\ t2 \in m.free \ {tf, r, t1}
  /\ ks = Null \/ ks \in m.free \ {tf, r, t1, t2}
  /\ l1 = Null \/ l1 \in m.free \ {tf, r, t1, t2, ks}
  /\ n.free = m.free \ {tf, r, t1, t2, ks, l1}
  /\ TopRows(n, r, t1, t2, tf) /\ PartRows(n, r, l1)
  /\ \A q \in Page : q \notin m.free => Same(m, n, q)

\* uvmcopy() gives the page of an image back that it could not map.
LEMMA GiveBackFacts ==
  ASSUME NEW m \in Memory, NEW n, NEW tf, NEW r, NEW t1, NEW t2, NEW ks,
         NEW img, NEW l1, ImageFailed(m, n, tf, r, t1, t2, ks, img, l1)
  PROVE  \E k, i : /\ ImageBack(m, k, tf, r, t1, t2, ks, l1)
                   /\ GiveBack(Built(n, "no_image", tf, r, ks, img))
                        = Built(k, "no_image", tf, r, ks, i)
<1>1. CASE img = Null
  <2>1. GiveBack(Built(n, "no_image", tf, r, ks, img))
          = Built(n, "no_image", tf, r, ks, img)
    BY <1>1 DEF GiveBack, Built
  <2>2. n.free = m.free \ {tf, r, t1, t2, ks, l1}
    BY <1>1, PageFacts DEF ImageFailed, Memory
  <2>3. ImageBack(m, n, tf, r, t1, t2, ks, l1)
    BY <2>2 DEF ImageFailed, ImageBack
  <2>. QED  BY <2>1, <2>3
<1>2. CASE img # Null
  <2>1. PICK k : k = Kfree(n, img)
    OBVIOUS
  <2>2. n \in Memory /\ img \in m.free /\ img \in Page /\ img \notin n.free
    BY <1>2 DEF ImageFailed, Memory
  <2>3. /\ k \in Memory /\ k.free = n.free \cup {img} /\ k.fault = n.fault
        /\ k.pte = n.pte /\ k.content = [n.content EXCEPT ![img] = Junk]
    BY <2>1, <2>2, KfreeFacts
  <2>4. GiveBack(Built(n, "no_image", tf, r, ks, img))
          = Built(k, "no_image", tf, r, ks, img)
    <3>1. PICK b : b = Built(n, "no_image", tf, r, ks, img)
      OBVIOUS
    <3>2. b.end = "no_image" /\ b.image = img /\ b.m = n
      BY <3>1 DEF Built
    <3>3. GiveBack(b) = [b EXCEPT !.m = k]
      BY <1>2, <2>1, <3>2 DEF GiveBack
    <3>. QED  BY <3>1, <3>3 DEF Built
  <2>5. TopRows(k, r, t1, t2, tf) /\ PartRows(k, r, l1)
    BY <2>3 DEF ImageFailed, TopRows, PartRows
  <2>6. \A q \in Page : q \notin m.free => Same(m, k, q)
    BY <2>2, <2>3 DEF ImageFailed, Same, Memory
  <2>7. ImageBack(m, k, tf, r, t1, t2, ks, l1)
    BY <1>2, <2>2, <2>3, <2>5, <2>6 DEF ImageFailed, ImageBack
  <2>. QED  BY <2>4, <2>7
<1>. QED  BY <1>1, <1>2

-------------------------------------------------------------------------
(* The inductive invariant: the shape of each slot's page table, and that  *)
(* no page is held in two places.                                          *)

T1(m, r) == Next0(m, r, "top")
T2(m, r) == Next0(m, T1(m, r), "top")
L1(m, r) == Next0(m, r, "low")
L2(m, r) == Next0(m, L1(m, r), "low")
Img(m, r) == Lookup(m, r, UserVA)

\* Where slot s can hold a page.
Role == {"trapframe", "root", "kstack", "argbuf", "newimage",
         "t1", "t2", "l1", "l2", "image"}

Held(s, x) ==
  CASE x = "trapframe" -> trapframe[s]
    [] x = "root"      -> pagetable[s]
    [] x = "kstack"    -> kstack[s]
    [] x = "argbuf"    -> argbuf[s]
    [] x = "newimage"  -> newimage[s]
    [] x = "t1"        -> T1(mem, pagetable[s])
    [] x = "t2"        -> T2(mem, pagetable[s])
    [] x = "l1"        -> L1(mem, pagetable[s])
    [] x = "l2"        -> L2(mem, pagetable[s])
    [] x = "image"     -> Img(mem, pagetable[s]).pa

Idle(s) == pc[s] = "user" /\ argbuf[s] = Null /\ newimage[s] = Null

FreeOK(s) ==
  status[s] = "FREE" => pagetable[s] = Null /\ kstack[s] = Unmapped /\ Idle(s)

TopOK(s) ==
  status[s] # "FREE" =>
    /\ trapframe[s] \in Page /\ pagetable[s] \in Page
    /\ T1(mem, pagetable[s]) \in Page /\ T2(mem, pagetable[s]) \in Page
    /\ TopRows(mem, pagetable[s], T1(mem, pagetable[s]), T2(mem, pagetable[s]),
               trapframe[s])

AllocatedOK(s) ==
  status[s] = "ALLOCATED" =>
    /\ Idle(s) /\ kstack[s] \in Page \cup {Null}
    /\ L1(mem, pagetable[s]) \in Page \cup {Null}
    /\ PartRows(mem, pagetable[s], L1(mem, pagetable[s]))

\* The entry of the image is empty between the two halves of an exec only.
LeafOK(s) ==
  IF pc[s] = "map" THEN Img(mem, pagetable[s]) = Invalid
  ELSE /\ Img(mem, pagetable[s]) = Leaf(Img(mem, pagetable[s]).pa)
       /\ Img(mem, pagetable[s]).pa \in Page
       /\ mem.content[Img(mem, pagetable[s]).pa] \in Content

LiveOK(s) ==
  status[s] \in {"LIVE", "ZOMBIE"} =>
    /\ kstack[s] \in Page
    /\ L1(mem, pagetable[s]) \in Page /\ L2(mem, pagetable[s]) \in Page
    /\ LowRows(mem, pagetable[s], L1(mem, pagetable[s]), L2(mem, pagetable[s]))
    /\ status[s] = "ZOMBIE" => pc[s] = "user"
    /\ IF pc[s] = "user" THEN argbuf[s] = Null ELSE argbuf[s] \in Page
    /\ IF pc[s] \in {"unmap", "map"}
       THEN newimage[s] \in Page /\ mem.content[newimage[s]] \in Content
       ELSE newimage[s] = Null
    /\ LeafOK(s)

SlotOK(s) == FreeOK(s) /\ TopOK(s) /\ AllocatedOK(s) /\ LiveOK(s)

Apart ==
  /\ \A s1, s2 \in Slots, x1, x2 \in Role :
       Held(s1, x1) \in Page /\ Held(s1, x1) = Held(s2, x2) =>
         s1 = s2 /\ x1 = x2
  /\ \A s \in Slots, x \in Role : Held(s, x) \notin mem.free \cup pipes
  /\ pipes \cap mem.free = {}

VMInv == TypeOK /\ NeverFaults /\ Apart /\ \A s \in Slots : SlotOK(s)

\* What slot s holds, place by place, now
LEMMA HeldIs ==
  ASSUME NEW s
  PROVE  /\ Held(s, "trapframe") = trapframe[s]
         /\ Held(s, "root") = pagetable[s]
         /\ Held(s, "kstack") = kstack[s]
         /\ Held(s, "argbuf") = argbuf[s]
         /\ Held(s, "newimage") = newimage[s]
         /\ Held(s, "t1") = T1(mem, pagetable[s])
         /\ Held(s, "t2") = T2(mem, pagetable[s])
         /\ Held(s, "l1") = L1(mem, pagetable[s])
         /\ Held(s, "l2") = L2(mem, pagetable[s])
         /\ Held(s, "image") = Img(mem, pagetable[s]).pa
BY DEF Held

\* and after a step.
LEMMA HeldNext ==
  ASSUME NEW s
  PROVE  /\ Held(s, "trapframe")' = trapframe'[s]
         /\ Held(s, "root")' = pagetable'[s]
         /\ Held(s, "kstack")' = kstack'[s]
         /\ Held(s, "argbuf")' = argbuf'[s]
         /\ Held(s, "newimage")' = newimage'[s]
         /\ Held(s, "t1")' = T1(mem', pagetable'[s])
         /\ Held(s, "t2")' = T2(mem', pagetable'[s])
         /\ Held(s, "l1")' = L1(mem', pagetable'[s])
         /\ Held(s, "l2")' = L2(mem', pagetable'[s])
         /\ Held(s, "image")' = Img(mem', pagetable'[s]).pa
BY DEF Held

\* Values at an empty slot.
LEMMA NoTree ==
  ASSUME NEW m
  PROVE  /\ T1(m, Null) = Null /\ T2(m, Null) = Null
         /\ L1(m, Null) = Null /\ L2(m, Null) = Null
         /\ Img(m, Null) = Invalid
BY DEF T1, T2, L1, L2, Img, Next0, Lookup, LastTable, EntryAt, UserVA

\* The entry of the image is in the last of the low tables.
LEMMA ImgIs ==
  ASSUME NEW m, NEW r
  PROVE  Img(m, r) = EntryAt(m, L2(m, r), "low")
BY DEF Img, Lookup, LastTable, L2, L1, UserVA

\* The rows of the kernel's half say where its tables are,
LEMMA TopTree ==
  ASSUME NEW m, NEW r \in Page, NEW t1 \in Page, NEW t2, NEW tf,
         TopRows(m, r, t1, t2, tf)
  PROVE  T1(m, r) = t1 /\ T2(m, r) = t2
BY PageFacts DEF TopRows, T1, T2, Next0, Table

\* those of the user's half likewise,
LEMMA LowTree ==
  ASSUME NEW m, NEW r \in Page, NEW l1 \in Page, NEW l2 \in Page,
         LowRows(m, r, l1, l2)
  PROVE  L1(m, r) = l1 /\ L2(m, r) = l2 /\ Img(m, r) = m.pte[l2]["low"]
<1>1. L1(m, r) = l1 /\ L2(m, r) = l2
  BY PageFacts DEF LowRows, L1, L2, Next0, Table
<1>. QED  BY <1>1, ImgIs, PageFacts DEF EntryAt

\* and so does the half that uvmcopy() left.
LEMMA PartTree ==
  ASSUME NEW m, NEW r \in Page, NEW l1 \in Page \cup {Null}, PartRows(m, r, l1)
  PROVE  L1(m, r) = l1 /\ L2(m, r) = Null /\ Img(m, r) = Invalid
<1>1. L1(m, r) = l1
  BY PageFacts DEF PartRows, L1, Next0, Table, Invalid
<1>2. L2(m, r) = Null
  BY <1>1, PageFacts DEF PartRows, L2, Next0, Invalid, Idx
<1>. QED  BY <1>1, <1>2, ImgIs DEF EntryAt

\* What a step leaves of slot s.
KeepsSlot(s) ==
  /\ status'[s] = status[s] /\ trapframe'[s] = trapframe[s]
  /\ pagetable'[s] = pagetable[s] /\ kstack'[s] = kstack[s]
  /\ pc'[s] = pc[s] /\ argbuf'[s] = argbuf[s] /\ newimage'[s] = newimage[s]

\* A slot whose pages and pointers stay keeps its shape and its image.
LEMMA OthersKept ==
  ASSUME VMInv, NEW s \in Slots, KeepsSlot(s),
         \A x \in Role : Held(s, x) \in Page => Same(mem, mem', Held(s, x))
  PROVE  /\ SlotOK(s)'
         /\ \A x \in Role : Held(s, x)' = Held(s, x)
         /\ Image(s)' = Image(s)
<1>1. PICK r, n, tf : r = pagetable[s] /\ n = mem' /\ tf = trapframe[s]
  OBVIOUS
<1>2. /\ r \in Page => n.pte[r] = mem.pte[r]
      /\ T1(mem, r) \in Page => n.pte[T1(mem, r)] = mem.pte[T1(mem, r)]
      /\ T2(mem, r) \in Page => n.pte[T2(mem, r)] = mem.pte[T2(mem, r)]
      /\ L1(mem, r) \in Page => n.pte[L1(mem, r)] = mem.pte[L1(mem, r)]
      /\ L2(mem, r) \in Page => n.pte[L2(mem, r)] = mem.pte[L2(mem, r)]
      /\ Img(mem, r).pa \in Page =>
           n.content[Img(mem, r).pa] = mem.content[Img(mem, r).pa]
      /\ newimage[s] \in Page =>
           n.content[newimage[s]] = mem.content[newimage[s]]
  BY <1>1, HeldIs DEF Same, Role
<1>3. /\ T1(n, r) = T1(mem, r) /\ T2(n, r) = T2(mem, r)
      /\ L1(n, r) = L1(mem, r) /\ L2(n, r) = L2(mem, r)
      /\ Img(n, r) = Img(mem, r)
  <2>1. SlotOK(s) /\ status[s] \in {"FREE", "ALLOCATED", "LIVE", "ZOMBIE"}
    BY DEF VMInv, TypeOK
  <2>2. CASE status[s] = "FREE"
    BY <1>1, <2>1, <2>2, NoTree DEF SlotOK, FreeOK
  <2>3. CASE status[s] # "FREE"
    <3>1. r \in Page /\ T1(mem, r) \in Page /\ T2(mem, r) \in Page
          /\ TopRows(mem, r, T1(mem, r), T2(mem, r), tf)
      BY <1>1, <2>1, <2>3 DEF SlotOK, TopOK
    <3>2. TopRows(n, r, T1(mem, r), T2(mem, r), tf)
      BY <1>2, <3>1 DEF TopRows
    <3>3. T1(n, r) = T1(mem, r) /\ T2(n, r) = T2(mem, r)
      BY <3>1, <3>2, TopTree
    <3>4. CASE status[s] = "ALLOCATED"
      <4>1. L1(mem, r) \in Page \cup {Null} /\ PartRows(mem, r, L1(mem, r))
        BY <1>1, <2>1, <3>4 DEF SlotOK, AllocatedOK
      <4>2. PartRows(n, r, L1(mem, r))
        BY <1>2, <3>1, <4>1 DEF PartRows
      <4>. QED  BY <3>1, <3>3, <4>1, <4>2, PartTree
    <3>5. CASE status[s] # "ALLOCATED"
      <4>1. L1(mem, r) \in Page /\ L2(mem, r) \in Page
            /\ LowRows(mem, r, L1(mem, r), L2(mem, r))
        BY <1>1, <2>1, <2>3, <3>5 DEF SlotOK, LiveOK
      <4>2. LowRows(n, r, L1(mem, r), L2(mem, r))
        BY <1>2, <3>1, <4>1 DEF LowRows
      <4>. QED  BY <1>2, <3>1, <3>3, <4>1, <4>2, LowTree
    <3>. QED  BY <3>4, <3>5
  <2>. QED  BY <2>2, <2>3
<1>4. pagetable'[s] = r /\ trapframe'[s] = tf
  BY <1>1 DEF KeepsSlot
<1>5. \A x \in Role : Held(s, x)' = Held(s, x)
  BY <1>1, <1>3, <1>4 DEF Held, KeepsSlot
<1>6. SlotOK(s)'
  <2>1. FreeOK(s)'
    BY <1>1, <1>4 DEF VMInv, SlotOK, FreeOK, Idle, KeepsSlot
  <2>2. TopOK(s)'
    BY <1>1, <1>2, <1>3, <1>4 DEF VMInv, SlotOK, TopOK, TopRows, KeepsSlot
  <2>3. AllocatedOK(s)'
    <3>1. SUFFICES ASSUME status[s] = "ALLOCATED"
                   PROVE  AllocatedOK(s)'
      BY DEF AllocatedOK, KeepsSlot
    <3>2. /\ Idle(s) /\ kstack[s] \in Page \cup {Null} /\ r \in Page
          /\ L1(mem, r) \in Page \cup {Null} /\ PartRows(mem, r, L1(mem, r))
      BY <1>1, <3>1 DEF VMInv, SlotOK, TopOK, AllocatedOK
    <3>3. PartRows(n, r, L1(mem, r))
      BY <1>2, <3>2 DEF PartRows
    <3>. QED  BY <1>1, <1>3, <1>4, <3>2, <3>3 DEF AllocatedOK, Idle, KeepsSlot
  <2>4. LiveOK(s)'
    <3>1. LeafOK(s)' <=> LeafOK(s)
      BY <1>1, <1>2, <1>3, <1>4 DEF LeafOK, KeepsSlot
    <3>. QED
      BY <1>1, <1>2, <1>3, <1>4, <3>1
         DEF VMInv, SlotOK, TopOK, LiveOK, LowRows, KeepsSlot
  <2>. QED  BY <2>1, <2>2, <2>3, <2>4 DEF SlotOK
<1>7. Image(s)' = Image(s)
  BY <1>1, <1>2, <1>3, <1>4 DEF Image, KeepsSlot, Img, VMInv, SlotOK, LiveOK, LeafOK
<1>. QED  BY <1>5, <1>6, <1>7

\* A step that touches slot c, pages of c and free pages only.
Touches(c) ==
  /\ \A s \in Slots : s # c => KeepsSlot(s)
  /\ \A q \in Page : q \notin mem.free /\ (\A x \in Role : Held(c, x) # q)
       => Same(mem, mem', q)
  /\ pipes' = pipes

\* What it has to show of c.
Moves(c) ==
  /\ \A x \in Role : Held(c, x)' \in Page =>
       Held(c, x)' \in mem.free \/ \E y \in Role : Held(c, x)' = Held(c, y)
  /\ \A x, y \in Role : Held(c, x)' \in Page /\ Held(c, x)' = Held(c, y)' => x = y
  /\ \A x \in Role : Held(c, x)' \notin mem'.free
  /\ \A q \in mem'.free : q \in mem.free \/ \E y \in Role : q = Held(c, y)

\* A step that touches slot c alone keeps the invariant if it keeps that of c.
LEMMA StepKeeps ==
  ASSUME VMInv, NEW c \in Slots, Touches(c), SlotOK(c)', Moves(c),
         TypeOK', NeverFaults'
  PROVE  /\ VMInv'
         /\ \A s \in Slots : s # c => Image(s)' = Image(s)
<1>1. \A s \in Slots, x \in Role :
        /\ Held(s, x) \notin mem.free /\ Held(s, x) \notin pipes
        /\ Held(s, x) \in Page /\ s # c =>
             \A y \in Role : Held(c, y) # Held(s, x)
  BY DEF VMInv, Apart
<1>2. ASSUME NEW s \in Slots, s # c
      PROVE  /\ SlotOK(s)'
             /\ \A x \in Role : Held(s, x)' = Held(s, x)
             /\ Image(s)' = Image(s)
  <2>1. KeepsSlot(s)
    BY <1>2 DEF Touches
  <2>2. \A x \in Role : Held(s, x) \in Page => Same(mem, mem', Held(s, x))
    BY <1>1, <1>2 DEF Touches
  <2>. QED  BY <2>1, <2>2, OthersKept
<1>3. mem.free \subseteq Page /\ mem'.free \subseteq Page
      /\ pipes \cap mem.free = {} /\ pipes' = pipes
  BY DEF VMInv, Apart, TypeOK, Touches
<1>4. ASSUME NEW x \in Role
      PROVE  Held(c, x)' \notin mem'.free \cup pipes'
  BY <1>1, <1>3, <1>4 DEF Moves, TypeOK
<1>5. ASSUME NEW s \in Slots, s # c, NEW x \in Role
      PROVE  /\ Held(s, x)' \notin mem'.free \cup pipes'
             /\ \A y \in Role : Held(s, x)' \in Page => Held(c, y)' # Held(s, x)'
  <2>1. Held(s, x)' = Held(s, x)
    BY <1>2, <1>5
  <2>2. /\ Held(s, x) \notin mem.free /\ Held(s, x) \notin pipes
        /\ Held(s, x) \in Page => \A y \in Role : Held(c, y) # Held(s, x)
    BY <1>1, <1>5
  <2>. QED  BY <1>3, <2>1, <2>2 DEF Moves
<1>6. ASSUME NEW s1 \in Slots, NEW s2 \in Slots, NEW x1 \in Role, NEW x2 \in Role,
             Held(s1, x1)' \in Page, Held(s1, x1)' = Held(s2, x2)'
      PROVE  s1 = s2 /\ x1 = x2
  <2>1. CASE s1 = c /\ s2 = c
    BY <1>6, <2>1 DEF Moves
  <2>2. CASE s1 # c /\ s2 # c
    <3>1. Held(s1, x1)' = Held(s1, x1) /\ Held(s2, x2)' = Held(s2, x2)
      BY <1>2, <2>2
    <3>. QED  BY <1>6, <3>1 DEF VMInv, Apart
  <2>3. CASE s1 = c /\ s2 # c
    BY <1>5, <1>6, <2>3
  <2>4. CASE s1 # c /\ s2 = c
    BY <1>5, <1>6, <2>4
  <2>. QED  BY <2>1, <2>2, <2>3, <2>4
<1>7. pipes' \cap mem'.free = {}
  <2>1. \A q \in pipes : q \notin mem.free /\ \A y \in Role : q # Held(c, y)
    BY <1>1, <1>3
  <2>. QED  BY <1>3, <2>1 DEF Moves
<1>8. Apart'
  <2>1. \A s \in Slots, x \in Role : Held(s, x)' \notin mem'.free \cup pipes'
    BY <1>4, <1>5
  <2>. QED  BY <1>6, <1>7, <2>1 DEF Apart
<1>9. \A s \in Slots : SlotOK(s)'
  BY <1>2
<1>. QED  BY <1>2, <1>8, <1>9 DEF VMInv

\* The pages that are not lost.
Kept(q) ==
  q \in mem.free \/ q \in pipes \/ \E s \in Slots, x \in Role : Held(s, x) = q

\* A step loses none but the pages of Q, and the trapframe of a free slot.
Loses(Q) == \A q \in Page : Kept(q) => Kept(q)' \/ q \in Stale \cup Q

Retains(c, Q) ==
  \A q \in Page :
    q \in mem.free \/ (\E x \in Role : Held(c, x) = q) =>
      q \in mem'.free \/ (\E x \in Role : Held(c, x)' = q) \/ q \in Stale \cup Q

\* A step that touches slot c alone loses what it loses of c.
LEMMA StepLoses ==
  ASSUME VMInv, NEW c \in Slots, Touches(c), NEW Q, Retains(c, Q)
  PROVE  Loses(Q)
<1>1. ASSUME NEW s \in Slots, s # c, NEW x \in Role, Held(s, x) \in Page
      PROVE  Held(s, x)' = Held(s, x)
  <2>1. \A y \in Role : Held(s, y) \in Page =>
          Held(s, y) \notin mem.free /\ \A z \in Role : Held(c, z) # Held(s, y)
    BY <1>1 DEF VMInv, Apart
  <2>2. \A y \in Role : Held(s, y) \in Page => Same(mem, mem', Held(s, y))
    BY <2>1 DEF Touches
  <2>3. KeepsSlot(s)
    BY <1>1 DEF Touches
  <2>. QED  BY <1>1, <2>2, <2>3, OthersKept
<1>2. ASSUME NEW q \in Page, Kept(q)
      PROVE  Kept(q)' \/ q \in Stale \cup Q
  <2>1. CASE q \in pipes
    BY <2>1 DEF Kept, Touches
  <2>2. CASE q \in mem.free \/ \E x \in Role : Held(c, x) = q
    BY <2>2 DEF Retains, Kept
  <2>3. ASSUME NEW s \in Slots, s # c, NEW x \in Role, Held(s, x) = q
        PROVE  Kept(q)'
    BY <1>1, <2>3 DEF Kept
  <2>. QED  BY <1>2, <2>1, <2>2, <2>3 DEF Kept
<1>. QED  BY <1>2 DEF Loses

-------------------------------------------------------------------------
(* fork                                                                    *)

\* A process that runs its program has an image.
LEMMA Runs ==
  ASSUME VMInv, NEW p \in Slots, status[p] \in {"LIVE", "ZOMBIE"}, pc[p] # "map"
  PROVE  /\ Img(mem, pagetable[p]) # Invalid
         /\ Img(mem, pagetable[p]).pa \in Page
         /\ mem.content[Img(mem, pagetable[p]).pa] \in Content
         /\ Held(p, "image") = Img(mem, pagetable[p]).pa
BY HeldIs, PageFacts DEF VMInv, SlotOK, LiveOK, LeafOK

\* Building a process does not disturb the parent's image.
LEMMA ParentKept ==
  ASSUME VMInv, NEW p \in Slots, status[p] = "LIVE", pc[p] = "user",
         NEW n, \A q \in Page : q \notin mem.free => Same(mem, n, q)
  PROVE  /\ Lookup(n, pagetable[p], UserVA) = Img(mem, pagetable[p])
         /\ n.content[Img(mem, pagetable[p]).pa]
              = mem.content[Img(mem, pagetable[p]).pa]
<1>1. PICK r, l1, l2 : /\ r = pagetable[p] /\ l1 = L1(mem, r) /\ l2 = L2(mem, r)
  OBVIOUS
<1>2. /\ r \in Page /\ l1 \in Page /\ l2 \in Page /\ LowRows(mem, r, l1, l2)
  BY <1>1 DEF VMInv, SlotOK, TopOK, LiveOK
<1>3. r \notin mem.free /\ l1 \notin mem.free /\ l2 \notin mem.free
      /\ Held(p, "image") \notin mem.free
  BY <1>1, HeldIs DEF VMInv, Apart, Role
<1>4. n.pte[r] = mem.pte[r] /\ n.pte[l1] = mem.pte[l1] /\ n.pte[l2] = mem.pte[l2]
  BY <1>2, <1>3 DEF Same
<1>5. LowRows(n, r, l1, l2)
  BY <1>2, <1>4 DEF LowRows
<1>6. Img(n, r) = n.pte[l2]["low"] /\ Img(mem, r) = mem.pte[l2]["low"]
  BY <1>2, <1>5, LowTree
<1>7. Img(n, r) = Img(mem, r)
  BY <1>4, <1>6
<1>. QED  BY <1>1, <1>3, <1>7, Runs DEF Img, Same

\* How a fork can end.
LEMMA ForkOutcome ==
  ASSUME VMInv, NEW p \in Slots, status[p] = "LIVE", pc[p] = "user",
         NEW b, b = Uvmcopy(AllocProc(mem, Unmapped), pagetable[p]),
         NEW v, v = mem.content[Img(mem, pagetable[p]).pa]
  PROVE  \/ \E n, tf, end, r :
              /\ end \in AllocEnds /\ AllocFailed(mem, n, tf)
              /\ b = Built(n, end, tf, r, Unmapped, Null)
         \/ \E n, tf, r, t1, t2, ks, l1, i :
              /\ ImageBack(mem, n, tf, r, t1, t2, ks, l1)
              /\ b = Built(n, "no_image", tf, r, ks, i)
         \/ \E n, tf, r, t1, t2, ks, img, l1, l2 :
              /\ ImageDone(mem, n, tf, r, t1, t2, ks, img, l1, l2, v)
              /\ b = Built(n, "done", tf, r, ks, img)
<1>1. mem \in Memory
  BY DEF VMInv, TypeOK, Memory, Faults
<1>2. v \in Content
  BY Runs
<1>3. PICK a : a = AllocProc(mem, Unmapped)
  OBVIOUS
<1>4. ASSUME \A q \in Page : q \notin mem.free => Same(mem, a.m, q)
      PROVE  b = GiveBack(MapImage(a, v))
  <2>1. /\ Lookup(a.m, pagetable[p], UserVA) = Img(mem, pagetable[p])
        /\ a.m.content[Img(mem, pagetable[p]).pa] = v
    BY <1>4, ParentKept
  <2>2. Img(mem, pagetable[p]) # Invalid
    BY Runs
  <2>. QED  BY <1>3, <2>1, <2>2 DEF Uvmcopy
<1>5. ASSUME NEW n, NEW tf, NEW end \in AllocEnds, NEW r,
             AllocFailed(mem, n, tf), a = Built(n, end, tf, r, Unmapped, Null)
      PROVE  b = a
  <2>1. a.m = n /\ a.end = end /\ end # "done" /\ end # "no_image"
    BY <1>5 DEF Built, AllocEnds
  <2>2. b = GiveBack(MapImage(a, v))
    BY <1>4, <1>5, <2>1 DEF AllocFailed
  <2>3. MapImage(a, v) = a
    BY <1>5, <2>1, NothingMore DEF MapImage
  <2>. QED  BY <2>1, <2>2, <2>3 DEF GiveBack
<1>6. ASSUME NEW k, NEW tf, NEW r, NEW t1, NEW t2, NEW ks,
             AllocDone(mem, k, tf, r, t1, t2, ks),
             a = Built(k, "done", tf, r, ks, Null)
      PROVE  \/ \E n, l1, i :
                  /\ ImageBack(mem, n, tf, r, t1, t2, ks, l1)
                  /\ b = Built(n, "no_image", tf, r, ks, i)
             \/ \E n, img, l1, l2 :
                  /\ ImageDone(mem, n, tf, r, t1, t2, ks, img, l1, l2, v)
                  /\ b = Built(n, "done", tf, r, ks, img)
  <2>1. a.m = k
    BY <1>6 DEF Built
  <2>2. PICK c : c = MapImage(a, v)
    OBVIOUS
  <2>3. b = GiveBack(c)
    BY <1>4, <1>6, <2>1, <2>2 DEF AllocDone
  <2>4. \/ \E n, img, l1 : /\ ImageFailed(mem, n, tf, r, t1, t2, ks, img, l1)
                           /\ c = Built(n, "no_image", tf, r, ks, img)
        \/ \E n, img, l1, l2 :
             /\ ImageDone(mem, n, tf, r, t1, t2, ks, img, l1, l2, v)
             /\ c = Built(n, "done", tf, r, ks, img)
    BY <1>1, <1>2, <1>6, <2>2, MapImageFacts
  <2>5. ASSUME NEW n, NEW img, NEW l1,
               ImageFailed(mem, n, tf, r, t1, t2, ks, img, l1),
               c = Built(n, "no_image", tf, r, ks, img)
        PROVE  \E h, i : /\ ImageBack(mem, h, tf, r, t1, t2, ks, l1)
                         /\ b = Built(h, "no_image", tf, r, ks, i)
    BY <1>1, <2>3, <2>5, GiveBackFacts
  <2>6. ASSUME NEW n, NEW img, c = Built(n, "done", tf, r, ks, img)
        PROVE  b = c
    <3>1. c.end = "done"
      BY <2>6 DEF Built
    <3>. QED  BY <2>3, <3>1 DEF GiveBack
  <2>. QED  BY <2>4, <2>5, <2>6
<1>. QED  BY <1>1, <1>3, <1>5, <1>6, AllocProcFacts

\* The effect on programs: image is the variable of AbsImages.
Images == [s \in Slots |-> Image(s)]

ImagesKept == \A s \in Slots : Image(s)' = Image(s)

\* A free slot has no page table and no image.
LEMMA FreeSlot ==
  ASSUME VMInv, NEW c \in Slots, status[c] = "FREE"
  PROVE  /\ pagetable[c] = Null /\ kstack[c] = Unmapped
         /\ pc[c] = "user" /\ argbuf[c] = Null /\ newimage[c] = Null
         /\ Image(c) = NoImage
BY DEF VMInv, SlotOK, FreeOK, Idle, Image

\* A free slot holds nothing but the trapframe of a fork that failed there.
LEMMA FreeHolds ==
  ASSUME VMInv, NEW c \in Slots, status[c] = "FREE", NEW x \in Role,
         Held(c, x) \in Page
  PROVE  Held(c, x) \in Stale
<1>1. pagetable[c] = Null /\ kstack[c] = Unmapped
      /\ argbuf[c] = Null /\ newimage[c] = Null
  BY FreeSlot
<1>2. x = "trapframe"
  BY <1>1, HeldIs, NoTree, PageFacts DEF Role, Invalid
<1>. QED  BY <1>2, HeldIs DEF Stale


\* allocproc() fails.
LEMMA ForkNoProcKeeps ==
  ASSUME VMInv, mem.fault = "none", NEW c \in Slots, status[c] = "FREE",
         NEW n, NEW tf, AllocFailed(mem, n, tf), mem' = n,
         trapframe' = [trapframe EXCEPT ![c] = tf],
         UNCHANGED <<files, execs>>,
         UNCHANGED <<status, parent, pagetable, kstack>>,
         unreleased' \in SUBSET Slots
  PROVE  VMInv' /\ ImagesKept /\ \E x, y : Loses({x, y})
<1>1. /\ n \in Memory /\ n.fault = "none" /\ n.free = {}
      /\ tf \in mem.free \/ tf = Null
      /\ \A q \in Page : q \notin mem.free => Same(mem, n, q)
      /\ mem.free \subseteq Page
  BY DEF AllocFailed, VMInv, TypeOK
<1>2. TypeOK' /\ NeverFaults'
  BY <1>1 DEF VMInv, TypeOK, Memory, Faults, files, execs, NeverFaults
<1>3. Touches(c)
  BY <1>1 DEF Touches, KeepsSlot, VMInv, TypeOK, files, execs
<1>4. /\ pagetable'[c] = Null /\ kstack'[c] = Unmapped
      /\ pc'[c] = "user" /\ argbuf'[c] = Null /\ newimage'[c] = Null
      /\ status'[c] = "FREE" /\ trapframe'[c] = tf
  BY FreeSlot DEF VMInv, TypeOK, execs
<1>5. SlotOK(c)' /\ Image(c)' = NoImage
  BY <1>4 DEF SlotOK, FreeOK, TopOK, AllocatedOK, LiveOK, Idle, Image
<1>6. \A x \in Role : Held(c, x)' \in Page => x = "trapframe" /\ Held(c, x)' = tf
  BY <1>4, NoTree, PageFacts DEF Held, Role, Invalid
<1>7. Moves(c)
  <2>1. \A x \in Role : Held(c, x)' \in Page => Held(c, x)' \in mem.free
    BY <1>1, <1>6, PageFacts
  <2>2. \A x, y \in Role : Held(c, x)' \in Page /\ Held(c, x)' = Held(c, y)' => x = y
    BY <1>6
  <2>. QED  BY <1>1, <2>1, <2>2 DEF Moves
<1>8. \A s \in Slots : s # c => Image(s)' = Image(s)
  BY <1>2, <1>3, <1>5, <1>7, StepKeeps
<1>9. PICK x, y : mem.free \subseteq {x, y, tf}
  BY DEF AllocFailed
<1>10. Held(c, "trapframe")' = tf /\ "trapframe" \in Role
  BY <1>4, HeldNext DEF Role
<1>11. Retains(c, {x, y})
  BY <1>9, <1>10, FreeHolds DEF Retains
<1>12. Loses({x, y})
  BY <1>3, <1>11, StepLoses
<1>. QED  BY <1>2, <1>3, <1>5, <1>7, <1>8, <1>12, FreeSlot, StepKeeps DEF ImagesKept

\* uvmcopy() fails.
LEMMA ForkNoImageKeeps ==
  ASSUME VMInv, mem.fault = "none", NEW c \in Slots, status[c] = "FREE",
         NEW n, NEW tf, NEW r, NEW t1, NEW t2, NEW ks, NEW l1,
         ImageBack(mem, n, tf, r, t1, t2, ks, l1), mem' = n,
         trapframe' = [trapframe EXCEPT ![c] = tf],
         pagetable' = [pagetable EXCEPT ![c] = r],
         kstack' = [kstack EXCEPT ![c] = ks],
         status' = [status EXCEPT ![c] = "ALLOCATED"],
         UNCHANGED <<files, execs>>, UNCHANGED <<parent, unreleased>>
  PROVE  VMInv' /\ ImagesKept /\ Loses({})
<1>1. /\ n \in Memory /\ n.fault = "none"
      /\ tf \in mem.free /\ r \in mem.free \ {tf} /\ t1 \in mem.free \ {tf, r}
      /\ t2 \in mem.free \ {tf, r, t1}
      /\ ks = Null \/ ks \in mem.free \ {tf, r, t1, t2}
      /\ l1 = Null \/ l1 \in mem.free \ {tf, r, t1, t2, ks}
      /\ n.free = mem.free \ {tf, r, t1, t2, ks, l1}
      /\ TopRows(n, r, t1, t2, tf) /\ PartRows(n, r, l1)
      /\ \A q \in Page : q \notin mem.free => Same(mem, n, q)
      /\ mem.free \subseteq Page
  BY DEF ImageBack, VMInv, TypeOK
<1>2. TypeOK' /\ NeverFaults'
  BY <1>1 DEF VMInv, TypeOK, Memory, Faults, files, execs, NeverFaults
<1>3. Touches(c)
  BY <1>1 DEF Touches, KeepsSlot, VMInv, TypeOK, files, execs
<1>4. /\ pagetable'[c] = r /\ kstack'[c] = ks
      /\ pc'[c] = "user" /\ argbuf'[c] = Null /\ newimage'[c] = Null
      /\ status'[c] = "ALLOCATED" /\ trapframe'[c] = tf
  BY FreeSlot DEF VMInv, TypeOK, execs
<1>5. /\ T1(n, r) = t1 /\ T2(n, r) = t2 /\ L1(n, r) = l1 /\ L2(n, r) = Null
      /\ Img(n, r) = Invalid
  BY <1>1, TopTree, PartTree
<1>6. SlotOK(c)' /\ Image(c)' = NoImage
  BY <1>1, <1>4, <1>5 DEF SlotOK, FreeOK, TopOK, AllocatedOK, LiveOK, Idle, Image
<1>7. /\ Held(c, "trapframe")' = tf /\ Held(c, "root")' = r
      /\ Held(c, "kstack")' = ks /\ Held(c, "argbuf")' = Null
      /\ Held(c, "newimage")' = Null /\ Held(c, "t1")' = t1
      /\ Held(c, "t2")' = t2 /\ Held(c, "l1")' = l1 /\ Held(c, "l2")' = Null
      /\ Held(c, "image")' = Null
  BY <1>4, <1>5, HeldNext DEF Invalid
<1>8. Moves(c)
  <2>1. \A x \in Role : Held(c, x)' \in Page =>
          Held(c, x)' \in mem.free /\ Held(c, x)' \notin n.free
    BY <1>1, <1>7, PageFacts DEF Role
  <2>2. \A x, y \in Role : Held(c, x)' \in Page /\ Held(c, x)' = Held(c, y)' => x = y
    BY <1>1, <1>7, PageFacts DEF Role
  <2>. QED  BY <1>1, <2>1, <2>2 DEF Moves
<1>9. VMInv' /\ \A s \in Slots : s # c => Image(s)' = Image(s)
  BY <1>2, <1>3, <1>6, <1>8, StepKeeps
<1>10. Retains(c, {})
  <2>1. \A q \in {tf, r, t1, t2, ks, l1} : \E x \in Role : Held(c, x)' = q
    BY <1>7 DEF Role
  <2>. QED  BY <1>1, <2>1, FreeHolds DEF Retains
<1>11. Loses({})
  BY <1>3, <1>10, StepLoses
<1>. QED  BY <1>6, <1>9, <1>11, FreeSlot DEF ImagesKept

\* fork succeeds: the child has a copy of the image, on pages of its own.
LEMMA ForkDoneKeeps ==
  ASSUME VMInv, mem.fault = "none", NEW p \in Slots, NEW c \in Slots,
         status[c] = "FREE",
         NEW n, NEW tf, NEW r, NEW t1, NEW t2, NEW ks, NEW img, NEW l1, NEW l2,
         NEW v \in Content,
         ImageDone(mem, n, tf, r, t1, t2, ks, img, l1, l2, v), mem' = n,
         trapframe' = [trapframe EXCEPT ![c] = tf],
         pagetable' = [pagetable EXCEPT ![c] = r],
         kstack' = [kstack EXCEPT ![c] = ks],
         status' = [status EXCEPT ![c] = "LIVE"],
         parent' = [parent EXCEPT ![c] = p],
         UNCHANGED <<files, execs>>, UNCHANGED unreleased
  PROVE  /\ VMInv' /\ Image(c)' = v /\ Loses({})
         /\ \A s \in Slots : s # c => Image(s)' = Image(s)
<1>1. /\ n \in Memory /\ n.fault = "none"
      /\ tf \in mem.free /\ r \in mem.free \ {tf} /\ t1 \in mem.free \ {tf, r}
      /\ t2 \in mem.free \ {tf, r, t1} /\ ks \in mem.free \ {tf, r, t1, t2}
      /\ img \in mem.free \ {tf, r, t1, t2, ks}
      /\ l1 \in mem.free \ {tf, r, t1, t2, ks, img}
      /\ l2 \in mem.free \ {tf, r, t1, t2, ks, img, l1}
      /\ n.free = mem.free \ {tf, r, t1, t2, ks, img, l1, l2}
      /\ TopRows(n, r, t1, t2, tf) /\ LowRows(n, r, l1, l2)
      /\ n.pte[l2]["low"] = Leaf(img) /\ n.content[img] = v
      /\ \A q \in Page : q \notin mem.free => Same(mem, n, q)
      /\ mem.free \subseteq Page
  BY DEF ImageDone, VMInv, TypeOK
<1>2. TypeOK' /\ NeverFaults'
  BY <1>1 DEF VMInv, TypeOK, Memory, Faults, files, execs, NeverFaults
<1>3. Touches(c)
  BY <1>1 DEF Touches, KeepsSlot, VMInv, TypeOK, files, execs
<1>4. /\ pagetable'[c] = r /\ kstack'[c] = ks
      /\ pc'[c] = "user" /\ argbuf'[c] = Null /\ newimage'[c] = Null
      /\ status'[c] = "LIVE" /\ trapframe'[c] = tf
  BY FreeSlot DEF VMInv, TypeOK, execs
<1>5. /\ T1(n, r) = t1 /\ T2(n, r) = t2 /\ L1(n, r) = l1 /\ L2(n, r) = l2
      /\ Img(n, r) = Leaf(img) /\ Leaf(img).pa = img /\ Leaf(img) # Invalid
  BY <1>1, TopTree, LowTree, PageFacts DEF Leaf
<1>6. SlotOK(c)'
  BY <1>1, <1>4, <1>5
     DEF SlotOK, FreeOK, TopOK, AllocatedOK, LiveOK, LeafOK
<1>7. Image(c)' = v
  BY <1>1, <1>4, <1>5 DEF Image, Img
<1>8. /\ Held(c, "trapframe")' = tf /\ Held(c, "root")' = r
      /\ Held(c, "kstack")' = ks /\ Held(c, "argbuf")' = Null
      /\ Held(c, "newimage")' = Null /\ Held(c, "t1")' = t1
      /\ Held(c, "t2")' = t2 /\ Held(c, "l1")' = l1 /\ Held(c, "l2")' = l2
      /\ Held(c, "image")' = img
  BY <1>4, <1>5, HeldNext
<1>9. Moves(c)
  <2>1. \A x \in Role : Held(c, x)' \in Page =>
          Held(c, x)' \in mem.free /\ Held(c, x)' \notin n.free
    BY <1>1, <1>8, PageFacts DEF Role
  <2>2. \A x, y \in Role : Held(c, x)' \in Page /\ Held(c, x)' = Held(c, y)' => x = y
    BY <1>1, <1>8, PageFacts DEF Role
  <2>. QED  BY <1>1, <2>1, <2>2 DEF Moves
<1>10. Retains(c, {})
  <2>1. \A q \in {tf, r, t1, t2, ks, img, l1, l2} : \E x \in Role : Held(c, x)' = q
    BY <1>8 DEF Role
  <2>. QED  BY <1>1, <2>1, FreeHolds DEF Retains
<1>11. Loses({})
  BY <1>3, <1>10, StepLoses
<1>. QED  BY <1>2, <1>3, <1>6, <1>7, <1>9, <1>11, StepKeeps

\* What a step does to programs.
ImageForks(p, c) ==
  /\ p \in Slots /\ c \in Slots /\ Image(p) # NoImage /\ Image(c) = NoImage
  /\ Image(c)' = Image(p) /\ \A s \in Slots : s # c => Image(s)' = Image(s)

ImageChanges(p) ==
  /\ p \in Slots /\ Image(p) # NoImage /\ Image(p)' \in Content
  /\ \A s \in Slots : s # p => Image(s)' = Image(s)

ImageGoes(p, c) ==
  /\ p \in Slots /\ c \in Slots /\ p # c
  /\ Image(p) # NoImage /\ Image(c) # NoImage
  /\ Image(c)' = NoImage /\ \A s \in Slots : s # c => Image(s)' = Image(s)

ImageStep ==
  \/ ImagesKept
  \/ \E p, c : ImageForks(p, c) \/ ImageGoes(p, c)
  \/ \E p : ImageChanges(p)

\* A process has an image, in the middle of an exec as well.
LEMMA ImageOfLive ==
  ASSUME VMInv, NEW p \in Slots, status[p] \in {"LIVE", "ZOMBIE"}
  PROVE  /\ Image(p) = IF pc[p] = "map" THEN mem.content[newimage[p]]
                       ELSE mem.content[Img(mem, pagetable[p]).pa]
         /\ Image(p) \in Content /\ Image(p) # NoImage
<1>1. Image(p) = IF pc[p] = "map" THEN mem.content[newimage[p]]
                 ELSE mem.content[Img(mem, pagetable[p]).pa]
  <2>1. status[p] = "ZOMBIE" => pc[p] = "user"
    BY DEF VMInv, SlotOK, LiveOK
  <2>2. pc[p] # "map" => Lookup(mem, pagetable[p], UserVA) # Invalid
    BY Runs DEF Img
  <2>. QED  BY <2>1, <2>2 DEF Image, Img
<1>2. Image(p) \in Content
  BY <1>1, Runs DEF VMInv, SlotOK, LiveOK
<1>. QED  BY <1>1, <1>2, ContentAssumption

\* What a step does to the pages in use.
LossStep ==
  \/ Loses({})
  \/ /\ \E p \in Slots : Fork(p)
     /\ ~ \E c \in Slots : status[c] = "FREE" /\ status'[c] = "LIVE"
     /\ \E x, y : Loses({x, y})

\* kfork(), however it ends.
LEMMA ForkKeeps ==
  ASSUME VMInv, NEW p \in Slots, Fork(p)
  PROVE  VMInv' /\ ImageStep /\ LossStep
<1>1. /\ mem.fault = "none" /\ status[p] = "LIVE" /\ pc[p] = "user"
  BY DEF Fork, At, Running
<1>2. PICK c, b : /\ c \in FirstFree \ unreleased
                  /\ b = Uvmcopy(AllocProc(mem, Unmapped), pagetable[p])
                  /\ mem' = b.m
                  /\ trapframe' = [trapframe EXCEPT ![c] = b.trapframe]
                  /\ UNCHANGED <<files, execs>>
                  /\ ForkNoProc(c, b) \/ ForkNoImage(c, b) \/ ForkDone(p, c, b)
  <2>1. PICK c \in FirstFree \ unreleased :
          \E b \in {Uvmcopy(AllocProc(mem, kstack[c]), pagetable[p])} :
            /\ mem' = b.m
            /\ trapframe' = [trapframe EXCEPT ![c] = b.trapframe]
            /\ UNCHANGED <<files, execs>>
            /\ ForkNoProc(c, b) \/ ForkNoImage(c, b) \/ ForkDone(p, c, b)
    BY DEF Fork
  <2>2. c \in Slots /\ status[c] = "FREE"
    BY <2>1 DEF FirstFree
  <2>3. kstack[c] = Unmapped
    BY <2>2, FreeSlot
  <2>. QED  BY <2>1, <2>3
<1>3. c \in Slots /\ status[c] = "FREE" /\ unreleased \subseteq Slots
  BY <1>2 DEF FirstFree, VMInv, TypeOK
<1>4. PICK v : v = mem.content[Img(mem, pagetable[p]).pa]
  OBVIOUS
<1>5. v \in Content /\ Image(p) = v /\ Image(p) # NoImage
  BY <1>1, <1>4, ImageOfLive
<1>6. ASSUME NEW n, NEW tf, NEW end, NEW r, end \in AllocEnds,
             AllocFailed(mem, n, tf), b = Built(n, end, tf, r, Unmapped, Null)
      PROVE  VMInv' /\ ImagesKept /\ LossStep
  <2>1. b.end = end /\ b.m = n /\ b.trapframe = tf
        /\ b.end # "done" /\ b.end # "no_image"
    BY <1>6 DEF Built, AllocEnds
  <2>2. ForkNoProc(c, b)
    BY <1>2, <2>1 DEF ForkNoImage, ForkDone
  <2>3. UNCHANGED <<status, parent, pagetable, kstack>>
        /\ unreleased' \in SUBSET Slots
    BY <1>3, <2>2 DEF ForkNoProc
  <2>4. VMInv' /\ ImagesKept /\ \E x, y : Loses({x, y})
    BY <1>1, <1>2, <1>3, <1>6, <2>1, <2>3, ForkNoProcKeeps
  <2>5. ~ \E d \in Slots : status[d] = "FREE" /\ status'[d] = "LIVE"
    BY <2>3
  <2>. QED  BY <2>4, <2>5 DEF LossStep
<1>7. ASSUME NEW n, NEW tf, NEW r, NEW t1, NEW t2, NEW ks, NEW l1, NEW i,
             ImageBack(mem, n, tf, r, t1, t2, ks, l1),
             b = Built(n, "no_image", tf, r, ks, i)
      PROVE  VMInv' /\ ImagesKept /\ LossStep
  <2>1. /\ b.end = "no_image" /\ b.m = n /\ b.trapframe = tf /\ b.root = r
        /\ b.kstack = ks
    BY <1>7 DEF Built
  <2>2. ForkNoImage(c, b)
    BY <1>2, <2>1 DEF ForkNoProc, ForkDone
  <2>3. /\ pagetable' = [pagetable EXCEPT ![c] = r]
        /\ kstack' = [kstack EXCEPT ![c] = ks]
        /\ status' = [status EXCEPT ![c] = "ALLOCATED"]
        /\ UNCHANGED <<parent, unreleased>>
    BY <2>1, <2>2 DEF ForkNoImage, Allocated
  <2>. QED  BY <1>1, <1>2, <1>3, <1>7, <2>1, <2>3, ForkNoImageKeeps DEF LossStep
<1>8. ASSUME NEW n, NEW tf, NEW r, NEW t1, NEW t2, NEW ks, NEW img, NEW l1,
             NEW l2, ImageDone(mem, n, tf, r, t1, t2, ks, img, l1, l2, v),
             b = Built(n, "done", tf, r, ks, img)
      PROVE  VMInv' /\ ImageForks(p, c) /\ LossStep
  <2>1. /\ b.end = "done" /\ b.m = n /\ b.trapframe = tf /\ b.root = r
        /\ b.kstack = ks
    BY <1>8 DEF Built
  <2>2. ForkDone(p, c, b)
    BY <1>2, <2>1 DEF ForkNoProc, ForkNoImage
  <2>3. /\ pagetable' = [pagetable EXCEPT ![c] = r]
        /\ kstack' = [kstack EXCEPT ![c] = ks]
        /\ status' = [status EXCEPT ![c] = "LIVE"]
        /\ parent' = [parent EXCEPT ![c] = p]
        /\ UNCHANGED unreleased
    BY <2>1, <2>2 DEF ForkDone, Allocated
  <2>4. /\ mem' = n /\ trapframe' = [trapframe EXCEPT ![c] = tf]
        /\ UNCHANGED <<files, execs>>
    BY <1>2, <2>1
  <2>5. c \in Slots /\ status[c] = "FREE" /\ v \in Content /\ mem.fault = "none"
    BY <1>1, <1>3, <1>5
  <2>6. /\ VMInv' /\ Image(c)' = v /\ Loses({})
        /\ \A s \in Slots : s # c => Image(s)' = Image(s)
    BY <1>8, <2>3, <2>4, <2>5, ForkDoneKeeps
  <2>. QED  BY <1>3, <1>5, <2>6, FreeSlot DEF ImageForks, LossStep
<1>. QED
  BY <1>1, <1>2, <1>4, <1>6, <1>7, <1>8, ForkOutcome DEF ImageStep

-------------------------------------------------------------------------
(* exit, exec, pipe and the stores of programs                             *)

\* A step that changes nothing a slot holds.
LEMMA ExitKeeps ==
  ASSUME VMInv, NEW p \in Slots, Exit(p)
  PROVE  VMInv' /\ ImageStep /\ LossStep
<1>1. /\ status[p] = "LIVE" /\ pc[p] = "user" /\ mem.fault = "none"
      /\ status' = [status EXCEPT ![p] = "ZOMBIE"] /\ status'[p] = "ZOMBIE"
      /\ UNCHANGED <<mem, parent, trapframe, pagetable, kstack, unreleased,
                     files, execs>>
  BY DEF Exit, At, Running, VMInv, TypeOK
<1>2. TypeOK' /\ NeverFaults'
  BY <1>1 DEF VMInv, TypeOK, files, execs, NeverFaults
<1>3. Touches(p)
  BY <1>1 DEF Touches, KeepsSlot, Same, files, execs, VMInv, TypeOK
<1>4. \A x \in Role : Held(p, x)' = Held(p, x)
  BY <1>1 DEF Held, execs
<1>5. Moves(p)
  BY <1>1, <1>4 DEF Moves, VMInv, Apart
<1>6. SlotOK(p)'
  BY <1>1 DEF VMInv, SlotOK, FreeOK, TopOK, AllocatedOK, LiveOK, LeafOK, execs
<1>7. VMInv' /\ \A s \in Slots : s # p => Image(s)' = Image(s)
  BY <1>2, <1>3, <1>5, <1>6, StepKeeps
<1>8. Image(p)' = Image(p)
  BY <1>1 DEF Image, execs
<1>9. Loses({})
  <2>1. Retains(p, {})
    BY <1>1, <1>4 DEF Retains
  <2>. QED  BY <1>3, <2>1, StepLoses
<1>. QED  BY <1>7, <1>8, <1>9 DEF ImageStep, ImagesKept, LossStep

\* Process p, with its image in the entry e of its last table, the page a of
\* its arguments and the new image w, at step l of sys_exec.
ExecShape(n, l, a, w, e) ==
  /\ l \in {"user", "args", "unmap", "map", "stack"}
  /\ IF l = "user" THEN a = Null ELSE a \in Page
  /\ IF l \in {"unmap", "map"} THEN w \in Page /\ n.content[w] \in Content
     ELSE w = Null
  /\ IF l = "map" THEN e = Invalid
     ELSE e = Leaf(e.pa) /\ e.pa \in Page /\ n.content[e.pa] \in Content

\* The pages of p that a step of sys_exec, or a store, may exchange.
Loose(p) == {argbuf[p], newimage[p], Img(mem, pagetable[p]).pa}

Swaps(p, n, a, w, e) ==
  /\ n.free \subseteq mem.free \cup Loose(p)
  /\ \A q \in mem.free \cup Loose(p) : q \in Page => q \in n.free \cup {a, w, e.pa}
  /\ a \notin n.free /\ w \notin n.free /\ e.pa \notin n.free
  /\ \A q \in {a, w, e.pa} : q \in Page => q \in mem.free \cup Loose(p)
  /\ a \in Page => a # w /\ a # e.pa
  /\ w \in Page => w # e.pa

\* n is mem but for the entry of p's image and the contents of its pages.
Rest(p, n, e) ==
  LET l2 == L2(mem, pagetable[p]) IN
  /\ n.pte[l2]["low"] = e
  /\ n.pte[l2]["frame"] = mem.pte[l2]["frame"]
  /\ n.pte[l2]["top"] = mem.pte[l2]["top"]
  /\ \A q \in Page : q \notin mem.free /\ q # l2 => n.pte[q] = mem.pte[q]
  /\ \A q \in Page : q \notin mem.free /\ q \notin Loose(p)
       => n.content[q] = mem.content[q]

\* A step of sys_exec, or a store, keeps the invariant and every other image.
LEMMA LiveStep ==
  ASSUME VMInv, NEW p \in Slots, status[p] = "LIVE",
         NEW n \in Memory, n.fault = "none", mem' = n,
         NEW l, NEW a, NEW w, NEW e,
         pc' = [pc EXCEPT ![p] = l], argbuf' = [argbuf EXCEPT ![p] = a],
         newimage' = [newimage EXCEPT ![p] = w],
         ExecShape(n, l, a, w, e), Swaps(p, n, a, w, e), Rest(p, n, e),
         UNCHANGED <<procs, files>>
  PROVE  VMInv' /\ ImageChanges(p) /\ LossStep
<1>1. PICK r, tf, ks, t1, t2, l1, l2, o :
        /\ r = pagetable[p] /\ tf = trapframe[p] /\ ks = kstack[p]
        /\ t1 = T1(mem, r) /\ t2 = T2(mem, r)
        /\ l1 = L1(mem, r) /\ l2 = L2(mem, r) /\ o = Img(mem, r).pa
  OBVIOUS
<1>2. /\ tf \in Page /\ r \in Page /\ ks \in Page /\ t1 \in Page /\ t2 \in Page
      /\ l1 \in Page /\ l2 \in Page
      /\ TopRows(mem, r, t1, t2, tf) /\ LowRows(mem, r, l1, l2)
  BY <1>1 DEF VMInv, SlotOK, TopOK, LiveOK
<1>3. /\ Held(p, "trapframe") = tf /\ Held(p, "root") = r
      /\ Held(p, "kstack") = ks /\ Held(p, "argbuf") = argbuf[p]
      /\ Held(p, "newimage") = newimage[p] /\ Held(p, "t1") = t1
      /\ Held(p, "t2") = t2 /\ Held(p, "l1") = l1 /\ Held(p, "l2") = l2
      /\ Held(p, "image") = o
  BY <1>1, HeldIs
<1>4. /\ \A x, y \in Role : Held(p, x) \in Page /\ Held(p, x) = Held(p, y) => x = y
      /\ \A x \in Role : Held(p, x) \notin mem.free
  BY DEF VMInv, Apart
<1>5. /\ tf \notin mem.free /\ r \notin mem.free /\ ks \notin mem.free
      /\ t1 \notin mem.free /\ t2 \notin mem.free /\ l1 \notin mem.free
      /\ l2 \notin mem.free
  BY <1>3, <1>4 DEF Role
<1>6. Loose(p) = {Held(p, "argbuf"), Held(p, "newimage"), Held(p, "image")}
  BY <1>1, <1>3 DEF Loose
<1>7. \A x \in {"trapframe", "root", "kstack", "t1", "t2", "l1", "l2"} :
        Held(p, x) \in Page /\ Held(p, x) \notin Loose(p)
  <2>1. ASSUME NEW x \in {"trapframe", "root", "kstack", "t1", "t2", "l1", "l2"}
        PROVE  Held(p, x) \in Page /\ x \in Role
    BY <1>2, <1>3, <2>1 DEF Role
  <2>. QED  BY <1>4, <1>6, <2>1 DEF Role
<1>8. r # l2 /\ t1 # l2 /\ t2 # l2 /\ l1 # l2
  BY <1>2, <1>3, <1>4 DEF Role
<1>9. /\ n.pte[r] = mem.pte[r] /\ n.pte[t1] = mem.pte[t1]
      /\ n.pte[t2] = mem.pte[t2] /\ n.pte[l1] = mem.pte[l1]
      /\ n.pte[l2]["frame"] = mem.pte[l2]["frame"]
      /\ n.pte[l2]["top"] = mem.pte[l2]["top"] /\ n.pte[l2]["low"] = e
  BY <1>1, <1>2, <1>5, <1>8 DEF Rest
<1>10. TopRows(n, r, t1, t2, tf) /\ LowRows(n, r, l1, l2)
  BY <1>2, <1>9 DEF TopRows, LowRows
<1>11. /\ T1(n, r) = t1 /\ T2(n, r) = t2 /\ L1(n, r) = l1 /\ L2(n, r) = l2
       /\ Img(n, r) = e
  BY <1>2, <1>9, <1>10, TopTree, LowTree
<1>12. /\ pagetable'[p] = r /\ trapframe'[p] = tf /\ kstack'[p] = ks
       /\ status'[p] = "LIVE" /\ pc'[p] = l /\ argbuf'[p] = a /\ newimage'[p] = w
  BY <1>1 DEF VMInv, TypeOK, procs
<1>13. /\ Held(p, "trapframe")' = tf /\ Held(p, "root")' = r
       /\ Held(p, "kstack")' = ks /\ Held(p, "argbuf")' = a
       /\ Held(p, "newimage")' = w /\ Held(p, "t1")' = t1
       /\ Held(p, "t2")' = t2 /\ Held(p, "l1")' = l1 /\ Held(p, "l2")' = l2
       /\ Held(p, "image")' = e.pa
  BY <1>11, <1>12, HeldNext
<1>14. SlotOK(p)'
  BY <1>2, <1>10, <1>11, <1>12
     DEF SlotOK, FreeOK, TopOK, AllocatedOK, LiveOK, LeafOK, ExecShape
<1>15. TypeOK' /\ NeverFaults'
  <2>1. a \in Page \cup {Null} /\ w \in Page \cup {Null}
    BY DEF ExecShape
  <2>. QED  BY <2>1 DEF VMInv, TypeOK, Memory, Faults, procs, files, NeverFaults,
                        ExecShape
<1>16. Touches(p)
  <2>1. \A s \in Slots : s # p => KeepsSlot(s)
    BY DEF KeepsSlot, procs, VMInv, TypeOK
  <2>2. ASSUME NEW q \in Page, q \notin mem.free, \A x \in Role : Held(p, x) # q
        PROVE  Same(mem, n, q)
    <3>1. q # l2 /\ q \notin Loose(p)
      BY <1>3, <1>6, <2>2 DEF Role
    <3>. QED  BY <1>1, <2>2, <3>1 DEF Rest, Same
  <2>. QED  BY <2>1, <2>2 DEF Touches, files
<1>17. Moves(p)
  <2>1. mem.free \subseteq Page /\ n.free \subseteq Page
    BY DEF VMInv, TypeOK, Memory
  <2>2. ASSUME NEW x \in Role
        PROVE  \/ /\ x \in {"trapframe", "root", "kstack", "t1", "t2", "l1", "l2"}
                  /\ Held(p, x)' = Held(p, x)
               \/ x = "argbuf" /\ Held(p, x)' = a
               \/ x = "newimage" /\ Held(p, x)' = w
               \/ x = "image" /\ Held(p, x)' = e.pa
    BY <1>3, <1>13 DEF Role
  <2>3. ASSUME NEW q, q \in mem.free \cup Loose(p)
        PROVE  q \in mem.free \/ \E y \in Role : q = Held(p, y)
    BY <1>6, <2>3 DEF Role
  <2>4. ASSUME NEW q \in mem.free \cup Loose(p),
               NEW x \in {"trapframe", "root", "kstack", "t1", "t2", "l1", "l2"}
        PROVE  Held(p, x) # q
    BY <1>4, <1>7 DEF Role
  <2>5. \A x \in Role : Held(p, x)' \notin n.free
    BY <2>2, <2>4 DEF Swaps
  <2>6. \A x \in Role : Held(p, x)' \in Page =>
          Held(p, x)' \in mem.free \/ \E y \in Role : Held(p, x)' = Held(p, y)
    BY <2>2, <2>3 DEF Swaps
  <2>7. ASSUME NEW x \in Role, NEW y \in Role, Held(p, x)' \in Page,
               Held(p, x)' = Held(p, y)'
        PROVE  x = y
    <3>1. a \in Page => a \in mem.free \cup Loose(p)
      BY DEF Swaps
    <3>2. w \in Page => w \in mem.free \cup Loose(p)
      BY DEF Swaps
    <3>3. e.pa \in Page => e.pa \in mem.free \cup Loose(p)
      BY DEF Swaps
    <3>4. (a \in Page => a # w /\ a # e.pa) /\ (w \in Page => w # e.pa)
      BY DEF Swaps
    <3>5. Held(p, x)' = Held(p, x) /\ Held(p, y)' = Held(p, y) => x = y
      BY <1>4, <2>7
    <3>. QED  BY <2>2, <2>4, <2>7, <3>1, <3>2, <3>3, <3>4, <3>5
  <2>. QED  BY <2>3, <2>5, <2>6, <2>7 DEF Moves, Swaps
<1>18. VMInv' /\ \A s \in Slots : s # p => Image(s)' = Image(s)
  BY <1>14, <1>15, <1>16, <1>17, StepKeeps
<1>19. Image(p) # NoImage
  BY ImageOfLive
<1>20. Image(p)' \in Content
  <2>1. Image(p)' = IF l = "map" THEN n.content[w]
                    ELSE IF e = Invalid THEN NoImage ELSE n.content[e.pa]
    BY <1>11, <1>12 DEF Image, Img
  <2>. QED  BY <2>1, PageFacts DEF ExecShape
<1>21. Retains(p, {})
  <2>1. \A q \in {a, w, e.pa} : \E x \in Role : Held(p, x)' = q
    BY <1>13 DEF Role
  <2>2. \A q \in mem.free \cup Loose(p) : q \in Page =>
          q \in n.free \/ \E x \in Role : Held(p, x)' = q
    BY <2>1 DEF Swaps
  <2>3. ASSUME NEW x \in Role
        PROVE  Held(p, x) \in Loose(p) \/ Held(p, x)' = Held(p, x)
    BY <1>3, <1>6, <1>13 DEF Role
  <2>. QED  BY <2>2, <2>3 DEF Retains
<1>22. Loses({})
  BY <1>16, <1>21, StepLoses
<1>. QED  BY <1>18, <1>19, <1>20, <1>22 DEF ImageChanges, LossStep

\* What VMInv says of a process that is about to take a step.
ExecNow(p, l, a, w, e) ==
  /\ mem \in Memory /\ mem.fault = "none" /\ status[p] = "LIVE" /\ pc[p] = l
  /\ a = argbuf[p] /\ w = newimage[p] /\ e = Img(mem, pagetable[p])
  /\ e = mem.pte[L2(mem, pagetable[p])]["low"]
  /\ ExecShape(mem, l, a, w, e)
  /\ a \notin mem.free /\ w \notin mem.free /\ e.pa \notin mem.free
  /\ a \in Page => a # w /\ a # e.pa
  /\ w \in Page => w # e.pa
  /\ Loose(p) = {a, w, e.pa}
  /\ L2(mem, pagetable[p]) \in Page /\ L2(mem, pagetable[p]) \notin mem.free
  /\ L2(mem, pagetable[p]) \notin {a, w, e.pa}
  /\ mem.free \subseteq Page

\* The facts about a process at l that its next step needs.
LEMMA ExecNowIs ==
  ASSUME VMInv, NEW p \in Slots, NEW l, At(p, l)
  PROVE  \E a, w, e : ExecNow(p, l, a, w, e)
<1>1. PICK a, w, e, r, l1, l2 :
        /\ a = argbuf[p] /\ w = newimage[p] /\ e = Img(mem, pagetable[p])
        /\ r = pagetable[p] /\ l1 = L1(mem, r) /\ l2 = L2(mem, r)
  OBVIOUS
<1>2. /\ mem \in Memory /\ mem.free \subseteq Page /\ pc[p] = l
      /\ l \in {"user", "args", "unmap", "map", "stack"}
      /\ mem.fault = "none" /\ status[p] = "LIVE"
  BY DEF VMInv, TypeOK, Memory, Faults, At, Running
<1>3. /\ r \in Page /\ l1 \in Page /\ l2 \in Page /\ LowRows(mem, r, l1, l2)
  BY <1>1, <1>2 DEF VMInv, SlotOK, TopOK, LiveOK
<1>4. e = mem.pte[l2]["low"]
  BY <1>1, <1>3, LowTree
<1>5. ExecShape(mem, l, a, w, e)
  BY <1>1, <1>2 DEF VMInv, SlotOK, LiveOK, LeafOK, ExecShape
<1>6. /\ Held(p, "argbuf") = a /\ Held(p, "newimage") = w
      /\ Held(p, "image") = e.pa /\ Held(p, "l2") = l2
  BY <1>1, HeldIs
<1>7. /\ \A x, y \in Role : Held(p, x) \in Page /\ Held(p, x) = Held(p, y) => x = y
      /\ \A x \in Role : Held(p, x) \notin mem.free
  BY DEF VMInv, Apart
<1>8. /\ a \notin mem.free /\ w \notin mem.free /\ e.pa \notin mem.free
      /\ l2 \notin mem.free
      /\ a \in Page => a # w /\ a # e.pa
      /\ w \in Page => w # e.pa
      /\ l2 \notin {a, w, e.pa}
  BY <1>3, <1>6, <1>7 DEF Role
<1>. QED  BY <1>1, <1>2, <1>3, <1>4, <1>5, <1>8 DEF ExecNow, Loose

\* sys_exec() takes a page for the arguments.
LEMMA ExecStartKeeps ==
  ASSUME VMInv, NEW p \in Slots, ExecStart(p)
  PROVE  VMInv' /\ ImageChanges(p) /\ LossStep
<1>1. PICK a, w, e : ExecNow(p, "user", a, w, e)
  BY ExecNowIs DEF ExecStart
<1>2. PICK q, n : Taken(mem, q, n) /\ Kalloc(mem) = [m |-> n, pa |-> q]
  BY <1>1, KallocTakes DEF ExecStart, ExecNow
<1>3. /\ mem' = n /\ argbuf' = [argbuf EXCEPT ![p] = q]
      /\ pc' = [pc EXCEPT ![p] = "args"] /\ newimage' = newimage
      /\ UNCHANGED <<procs, files>>
  BY <1>2 DEF ExecStart
<1>4. newimage' = [newimage EXCEPT ![p] = w]
  BY <1>1, <1>3 DEF ExecNow, VMInv, TypeOK
<1>5. /\ n \in Memory /\ n.fault = "none" /\ n.free = mem.free \ {q}
      /\ q \in mem.free /\ q \in Page
      /\ \A x \in Page : x # q => n.pte[x] = mem.pte[x] /\ n.content[x] = mem.content[x]
  BY <1>1, <1>2, TakenRows DEF Taken, ExecNow
<1>6. ExecShape(n, "args", q, w, e)
  BY <1>1, <1>5 DEF ExecShape, ExecNow
<1>7. Swaps(p, n, q, w, e)
  BY <1>1, <1>5, <1>6 DEF Swaps, ExecNow, ExecShape
<1>8. Rest(p, n, e)
  BY <1>1, <1>5 DEF Rest, ExecNow
<1>. QED  BY <1>1, <1>3, <1>4, <1>5, <1>6, <1>7, <1>8, LiveStep DEF ExecNow

\* sys_exec() gives the page of the arguments back and returns.
LEMMA ReturnKeeps ==
  ASSUME VMInv, NEW p \in Slots, NEW l \in {"args", "stack"}, At(p, l),
         ReturnFromExec(p, mem), UNCHANGED <<procs, files, newimage>>
  PROVE  VMInv' /\ ImageChanges(p) /\ LossStep
<1>1. PICK a, w, e : ExecNow(p, l, a, w, e)
  BY ExecNowIs
<1>2. a \in Page /\ w = Null
  BY <1>1 DEF ExecNow, ExecShape
<1>3. PICK n : n = Kfree(mem, a)
  OBVIOUS
<1>4. /\ n \in Memory /\ n.fault = "none" /\ n.free = mem.free \cup {a}
      /\ n.pte = mem.pte /\ n.content = [mem.content EXCEPT ![a] = Junk]
  BY <1>1, <1>2, <1>3, KfreeFacts DEF ExecNow
<1>5. /\ mem' = n /\ argbuf' = [argbuf EXCEPT ![p] = Null]
      /\ pc' = [pc EXCEPT ![p] = "user"] /\ UNCHANGED <<procs, files>>
  BY <1>1, <1>3 DEF ReturnFromExec, ExecNow
<1>6. newimage' = [newimage EXCEPT ![p] = w]
  BY <1>1 DEF ExecNow, VMInv, TypeOK
<1>7. \A x \in Page : x # a => n.content[x] = mem.content[x]
  BY <1>1, <1>4 DEF ExecNow, Memory
<1>8. ExecShape(n, "user", Null, w, e)
  BY <1>1, <1>2, <1>7 DEF ExecShape, ExecNow
<1>9. Swaps(p, n, Null, w, e)
  BY <1>1, <1>2, <1>4, PageFacts DEF Swaps, ExecNow, ExecShape
<1>10. Rest(p, n, e)
  BY <1>1, <1>4, <1>7 DEF Rest, ExecNow
<1>. QED  BY <1>1, <1>4, <1>5, <1>6, <1>8, <1>9, <1>10, LiveStep DEF ExecNow

\* kexec() loads the program into a fresh page.
LEMMA ExecLoadKeeps ==
  ASSUME VMInv, NEW p \in Slots, NEW v \in Content, ExecLoad(p, v)
  PROVE  VMInv' /\ ImageChanges(p) /\ LossStep
<1>1. PICK a, w, e : ExecNow(p, "args", a, w, e)
  BY ExecNowIs DEF ExecLoad
<1>2. PICK q, k : Taken(mem, q, k) /\ Kalloc(mem) = [m |-> k, pa |-> q]
  BY <1>1, KallocTakes DEF ExecLoad, ExecNow
<1>3. PICK n : n = SetContent(k, q, v)
  OBVIOUS
<1>4. /\ mem' = n /\ newimage' = [newimage EXCEPT ![p] = q]
      /\ pc' = [pc EXCEPT ![p] = "unmap"] /\ argbuf' = argbuf
      /\ UNCHANGED <<procs, files>>
  BY <1>2, <1>3 DEF ExecLoad, SetContent
<1>5. argbuf' = [argbuf EXCEPT ![p] = a]
  BY <1>1, <1>4 DEF ExecNow, VMInv, TypeOK
<1>6. /\ k \in Memory /\ k.fault = "none" /\ k.free = mem.free \ {q}
      /\ q \in mem.free /\ q \in Page
      /\ \A x \in Page : x # q => k.pte[x] = mem.pte[x] /\ k.content[x] = mem.content[x]
  BY <1>1, <1>2, TakenRows DEF Taken, ExecNow
<1>7. /\ n \in Memory /\ n.fault = "none" /\ n.free = mem.free \ {q}
      /\ n.pte = k.pte /\ n.content = [k.content EXCEPT ![q] = v]
  BY <1>3, <1>6, SetContentFacts
<1>8. /\ n.content[q] = v
      /\ \A x \in Page : x # q => n.pte[x] = mem.pte[x] /\ n.content[x] = mem.content[x]
  BY <1>6, <1>7 DEF Memory
<1>9. ExecShape(n, "unmap", a, q, e)
  BY <1>1, <1>6, <1>8 DEF ExecShape, ExecNow
<1>10. Swaps(p, n, a, q, e)
  BY <1>1, <1>6, <1>7, <1>9, PageFacts DEF Swaps, ExecNow, ExecShape
<1>11. Rest(p, n, e)
  BY <1>1, <1>6, <1>8 DEF Rest, ExecNow
<1>. QED  BY <1>1, <1>4, <1>5, <1>7, <1>9, <1>10, <1>11, LiveStep DEF ExecNow

\* uvmunmap() of the image frees its page q and clears its entry in t.
ImageCleared(m, t, q, n) ==
  /\ n \in Memory /\ n.fault = m.fault /\ n.free = m.free \cup {q}
  /\ n.pte = [m.pte EXCEPT ![t]["low"] = Invalid]
  /\ n.content = [m.content EXCEPT ![q] = Junk]

LEMMA UnmapImage ==
  ASSUME NEW m \in Memory, NEW t \in Page, NEW q \in Page, q \notin m.free,
         m.pte[t]["low"] = Leaf(q)
  PROVE  \E n : Clear(m, t, "low", TRUE) = n /\ ImageCleared(m, t, q, n)
<1>1. m.pte[t]["low"] # Invalid /\ Leaf(q).pa = q
  BY PageFacts DEF Leaf
<1>2. EntryAt(m, t, "low") # Invalid /\ m.pte[t]["low"].pa = q
  BY <1>1, PageFacts DEF EntryAt
<1>3. PICK k : k = Kfree(m, q)
  OBVIOUS
<1>4. /\ k \in Memory /\ k.free = m.free \cup {q} /\ k.fault = m.fault
      /\ k.pte = m.pte /\ k.content = [m.content EXCEPT ![q] = Junk]
  BY <1>3, KfreeFacts
<1>5. PICK n : n = SetEntry(k, t, "low", Invalid)
  OBVIOUS
<1>6. Clear(m, t, "low", TRUE) = n
  BY <1>2, <1>3, <1>5 DEF Clear, SetEntry
<1>7. "low" \in Idx /\ Invalid \in Entry
  BY PageFacts DEF Idx
<1>8. /\ n \in Memory /\ n.free = k.free /\ n.fault = k.fault
      /\ n.pte = [k.pte EXCEPT ![t]["low"] = Invalid] /\ n.content = k.content
  BY <1>4, <1>5, <1>7, SetEntryFacts
<1>9. ImageCleared(m, t, q, n)
  BY <1>4, <1>8 DEF ImageCleared
<1>. QED  BY <1>6, <1>9

\* The old image is freed; the new one is what the process has from now on.
LEMMA ExecUnmapKeeps ==
  ASSUME VMInv, NEW p \in Slots, ExecUnmap(p)
  PROVE  VMInv' /\ ImageChanges(p) /\ LossStep
<1>1. PICK a, w, e : ExecNow(p, "unmap", a, w, e)
  BY ExecNowIs DEF ExecUnmap
<1>2. PICK t, q : t = L2(mem, pagetable[p]) /\ q = e.pa
  OBVIOUS
<1>3. /\ a \in Page /\ w \in Page /\ q \in Page /\ e = Leaf(q)
      /\ mem.content[w] \in Content /\ t \in Page /\ q \notin mem.free
      /\ mem.pte[t]["low"] = Leaf(q) /\ mem \in Memory /\ mem.fault = "none"
  BY <1>1, <1>2 DEF ExecNow, ExecShape
<1>4. PICK n : Clear(mem, t, "low", TRUE) = n /\ ImageCleared(mem, t, q, n)
  BY <1>3, UnmapImage
<1>5. LastTable(mem, pagetable[p], UserVA) = t /\ UserVA[3] = "low"
  BY <1>2 DEF LastTable, L2, L1, UserVA
<1>6. /\ mem' = n /\ pc' = [pc EXCEPT ![p] = "map"]
      /\ UNCHANGED <<procs, files, argbuf, newimage>>
  BY <1>4, <1>5 DEF ExecUnmap, Unmap
<1>7. /\ argbuf' = [argbuf EXCEPT ![p] = a]
      /\ newimage' = [newimage EXCEPT ![p] = w]
  BY <1>1, <1>6 DEF ExecNow, VMInv, TypeOK
<1>8. /\ \A x \in Page : x # q => n.content[x] = mem.content[x]
      /\ \A x \in Page : x # t => n.pte[x] = mem.pte[x]
      /\ n.pte[t]["low"] = Invalid /\ n.pte[t]["frame"] = mem.pte[t]["frame"]
      /\ n.pte[t]["top"] = mem.pte[t]["top"]
  BY <1>3, <1>4 DEF ImageCleared, Memory, Idx
<1>9. w # q /\ a # q /\ a # w /\ a \notin mem.free /\ w \notin mem.free
      /\ Loose(p) = {a, w, q}
  <2>1. /\ a \in Page => a # w /\ a # e.pa
        /\ w \in Page => w # e.pa
        /\ a \notin mem.free /\ w \notin mem.free /\ Loose(p) = {a, w, e.pa}
    BY <1>1 DEF ExecNow
  <2>. QED  BY <1>2, <1>3, <2>1
<1>10. ExecShape(n, "map", a, w, Invalid)
  BY <1>3, <1>8, <1>9 DEF ExecShape
<1>11. Invalid.pa = Null /\ Null \notin Page /\ Null \notin n.free
  BY <1>4, PageFacts DEF Invalid, Memory, ImageCleared
<1>12. Swaps(p, n, a, w, Invalid)
  BY <1>3, <1>4, <1>9, <1>11 DEF Swaps, ImageCleared
<1>13. Rest(p, n, Invalid)
  BY <1>2, <1>8, <1>9 DEF Rest
<1>14. status[p] = "LIVE" /\ n \in Memory /\ n.fault = "none"
  BY <1>1, <1>3, <1>4, Zenon DEF ExecNow, ImageCleared
<1>. QED
  BY <1>6, <1>7, <1>10, <1>12, <1>13, <1>14, LiveStep, Zenon

\* mappages() of the new image finds its tables, and cannot fail.
LEMMA ExecMapKeeps ==
  ASSUME VMInv, NEW p \in Slots, ExecMap(p)
  PROVE  VMInv' /\ ImageChanges(p) /\ LossStep
<1>1. PICK a, w, e : ExecNow(p, "map", a, w, e)
  BY ExecNowIs DEF ExecMap
<1>2. PICK r, t, t1 : /\ r = pagetable[p] /\ t = L2(mem, r) /\ t1 = L1(mem, r)
  OBVIOUS
<1>3. /\ a \in Page /\ w \in Page /\ e = Invalid
      /\ mem.content[w] \in Content /\ t \in Page
      /\ mem.pte[t]["low"] = Invalid /\ mem \in Memory /\ mem.fault = "none"
  BY <1>1, <1>2 DEF ExecNow, ExecShape
<1>4. /\ r \in Page /\ t1 \in Page /\ LowRows(mem, r, t1, t)
  BY <1>1, <1>2 DEF VMInv, SlotOK, TopOK, LiveOK, ExecNow
<1>5. PICK n : /\ Leafed(mem, t, "low", w, n)
               /\ MapPage(mem, r, <<"low", "low", "low">>, w) = Ok(n)
  BY <1>3, <1>4, MapOld DEF LowRows, Idx
<1>6. /\ mem' = n /\ pc' = [pc EXCEPT ![p] = "stack"]
      /\ newimage' = [newimage EXCEPT ![p] = Null]
      /\ UNCHANGED <<procs, files, argbuf>>
  BY <1>1, <1>2, <1>5 DEF ExecMap, Ok, UserVA, ExecNow
<1>7. argbuf' = [argbuf EXCEPT ![p] = a]
  BY <1>1, <1>6 DEF ExecNow, VMInv, TypeOK
<1>8. /\ n \in Memory /\ n.free = mem.free /\ n.fault = mem.fault
      /\ n.content = mem.content
      /\ \A x \in Page : x # t => n.pte[x] = mem.pte[x]
      /\ n.pte[t]["low"] = Leaf(w) /\ n.pte[t]["frame"] = mem.pte[t]["frame"]
      /\ n.pte[t]["top"] = mem.pte[t]["top"]
  BY <1>3, <1>5 DEF Leafed, Memory, Idx
<1>9. Leaf(w).pa = w
  BY DEF Leaf
<1>10. ExecShape(n, "stack", a, Null, Leaf(w))
  BY <1>3, <1>8, <1>9 DEF ExecShape
<1>11. a # w /\ a \notin mem.free /\ w \notin mem.free /\ mem.free \subseteq Page
       /\ Loose(p) = {a, w, e.pa}
  BY <1>1, <1>3 DEF ExecNow
<1>12. Swaps(p, n, a, Null, Leaf(w))
  <2>1. e.pa = Null
    BY <1>3 DEF Invalid
  <2>. QED  BY <1>3, <1>8, <1>9, <1>11, <2>1, PageFacts DEF Swaps
<1>13. Rest(p, n, Leaf(w))
  BY <1>2, <1>8 DEF Rest
<1>. QED
  BY <1>1, <1>3, <1>6, <1>7, <1>8, <1>10, <1>12, <1>13, LiveStep DEF ExecNow

\* A program stores to its own image.
LEMMA StoreKeeps ==
  ASSUME VMInv, NEW p \in Slots, NEW v \in Content, Store(p, v)
  PROVE  VMInv' /\ ImageChanges(p) /\ LossStep
<1>1. PICK a, w, e : ExecNow(p, "user", a, w, e)
  BY ExecNowIs DEF Store
<1>2. PICK q : q = e.pa
  OBVIOUS
<1>3. q \in Page /\ e = Leaf(q) /\ mem \in Memory /\ mem.fault = "none"
      /\ a = Null /\ w = Null
  BY <1>1, <1>2 DEF ExecNow, ExecShape
<1>4. PICK n : n = SetContent(mem, q, v)
  OBVIOUS
<1>5. mem' = n /\ UNCHANGED <<procs, files, execs>>
  BY <1>1, <1>2, <1>4 DEF Store, SetContent, ExecNow, Img
<1>6. /\ argbuf' = [argbuf EXCEPT ![p] = a] /\ pc' = [pc EXCEPT ![p] = "user"]
      /\ newimage' = [newimage EXCEPT ![p] = w]
  BY <1>1, <1>5 DEF ExecNow, VMInv, TypeOK, execs
<1>7. /\ n \in Memory /\ n.free = mem.free /\ n.fault = "none" /\ n.pte = mem.pte
      /\ n.content[q] = v /\ \A x \in Page : x # q => n.content[x] = mem.content[x]
  <2>1. /\ n \in Memory /\ n.free = mem.free /\ n.fault = mem.fault
        /\ n.pte = mem.pte /\ n.content = [mem.content EXCEPT ![q] = v]
    BY <1>3, <1>4, SetContentFacts
  <2>. QED  BY <1>3, <2>1 DEF Memory
<1>8. ExecShape(n, "user", a, w, e)
  BY <1>1, <1>2, <1>7 DEF ExecShape, ExecNow
<1>9. Swaps(p, n, a, w, e)
  BY <1>1, <1>7 DEF Swaps, ExecNow
<1>10. Rest(p, n, e)
  BY <1>1, <1>2, <1>7 DEF Rest, ExecNow
<1>. QED
  BY <1>1, <1>5, <1>6, <1>7, <1>8, <1>9, <1>10, LiveStep DEF ExecNow

\* A panic of acquire() leaves pages and images alone.
LEMMA AcquireKeeps ==
  ASSUME VMInv, AcquirePanics
  PROVE  VMInv' /\ ImageStep /\ LossStep
<1>1. PICK n : n = Faulted(mem, "acquire")
  OBVIOUS
<1>2. /\ n \in Memory /\ n.free = mem.free /\ n.pte = mem.pte
      /\ n.content = mem.content /\ n.fault = "acquire"
      /\ mem' = n /\ UNCHANGED <<procs, files, execs>>
  BY <1>1 DEF AcquirePanics, Faulted, VMInv, TypeOK, Memory, Faults
<1>3. TypeOK' /\ NeverFaults'
  BY <1>2 DEF VMInv, TypeOK, NeverFaults, procs, files, execs, Memory
<1>4. ASSUME NEW s \in Slots
      PROVE  /\ SlotOK(s)' /\ Image(s)' = Image(s)
             /\ \A x \in Role : Held(s, x)' = Held(s, x)
  <2>1. KeepsSlot(s)
    BY <1>2 DEF KeepsSlot, procs, execs
  <2>. QED  BY <1>2, <2>1, OthersKept DEF Same
<1>5. Apart'
  BY <1>2, <1>4 DEF VMInv, Apart, files
<1>6. Loses({})
  BY <1>2, <1>4 DEF Loses, Kept, files
<1>. QED  BY <1>3, <1>4, <1>5, <1>6 DEF VMInv, ImageStep, ImagesKept, LossStep

\* A pipe takes a free page that nobody else holds.
LEMMA PipeAllocKeeps ==
  ASSUME VMInv, NEW p \in Slots, PipeAlloc(p)
  PROVE  VMInv' /\ ImageStep /\ LossStep
<1>1. mem \in Memory /\ mem.fault = "none" /\ mem.free \subseteq Page
      /\ mem.free # {} /\ quota \in Nat \ {0}
  BY DEF PipeAlloc, VMInv, TypeOK, Memory, Faults, At, Running
<1>2. PICK q, n : Taken(mem, q, n) /\ Kalloc(mem) = [m |-> n, pa |-> q]
  BY <1>1, KallocTakes
<1>3. /\ mem' = n /\ pipes' = pipes \cup {q} /\ quota' = quota - 1
      /\ UNCHANGED <<procs, execs>>
  BY <1>2 DEF PipeAlloc
<1>4. /\ n \in Memory /\ n.fault = "none" /\ n.free = mem.free \ {q}
      /\ q \in mem.free /\ q \in Page
      /\ \A x \in Page : x # q => n.pte[x] = mem.pte[x] /\ n.content[x] = mem.content[x]
  BY <1>1, <1>2, TakenRows DEF Taken
<1>5. TypeOK' /\ NeverFaults'
  BY <1>1, <1>3, <1>4 DEF VMInv, TypeOK, NeverFaults, procs, execs, Memory, Faults
<1>6. ASSUME NEW s \in Slots
      PROVE  /\ SlotOK(s)' /\ Image(s)' = Image(s)
             /\ \A x \in Role : Held(s, x)' = Held(s, x)
  <2>1. KeepsSlot(s)
    BY <1>3 DEF KeepsSlot, procs, execs
  <2>2. \A x \in Role : Held(s, x) # q
    BY <1>4 DEF VMInv, Apart
  <2>. QED  BY <1>3, <1>4, <2>1, <2>2, OthersKept DEF Same
<1>7. Apart'
  BY <1>3, <1>4, <1>6 DEF VMInv, Apart
<1>8. Loses({})
  BY <1>3, <1>4, <1>6 DEF Loses, Kept
<1>. QED  BY <1>5, <1>6, <1>7, <1>8 DEF VMInv, ImageStep, ImagesKept, LossStep

-------------------------------------------------------------------------
(* wait                                                                    *)

\* n is m without entry i of t.
EntryCleared(m, t, i, n) ==
  /\ n \in Memory /\ n.free = m.free /\ n.fault = m.fault
  /\ n.pte = [m.pte EXCEPT ![t][i] = Invalid] /\ n.content = m.content

\* uvmunmap() without do_free clears the entry and nothing else.
LEMMA UnmapOnly ==
  ASSUME NEW m \in Memory, NEW t \in Page, NEW i \in Idx, m.pte[t][i] # Invalid
  PROVE  EntryCleared(m, t, i, Clear(m, t, i, FALSE))
<1>1. EntryAt(m, t, i) # Invalid /\ Invalid \in Entry
  BY PageFacts DEF EntryAt
<1>2. PICK n : n = SetEntry(m, t, i, Invalid)
  OBVIOUS
<1>3. Clear(m, t, i, FALSE) = n
  BY <1>1, <1>2, Zenon DEF Clear, SetEntry
<1>4. /\ n \in Memory /\ n.free = m.free /\ n.fault = m.fault
      /\ n.pte = [m.pte EXCEPT ![t][i] = Invalid] /\ n.content = m.content
  BY <1>1, <1>2, SetEntryFacts
<1>. QED  BY <1>3, <1>4 DEF EntryCleared

\* A page table whose leaves have been unmapped.
Stripped(m, r, t1, t2, l1, l2) ==
  /\ r \in Page /\ t1 \in Page /\ t2 \in Page /\ l1 \in Page /\ l2 \in Page
  /\ m.pte[r]["top"] = Table(t1) /\ m.pte[r]["low"] = Table(l1)
  /\ m.pte[t1]["top"] = Table(t2) /\ m.pte[l1]["low"] = Table(l2)
  /\ m.pte[r]["frame"] = Invalid
  /\ m.pte[t1]["low"] = Invalid /\ m.pte[t1]["frame"] = Invalid
  /\ m.pte[l1]["top"] = Invalid /\ m.pte[l1]["frame"] = Invalid
  /\ \A i \in Idx : m.pte[t2][i] = Invalid /\ m.pte[l2][i] = Invalid

\* The tables that freewalk() finds below the root: four, without leaves.
LEMMA StrippedTables ==
  ASSUME NEW m, NEW r, NEW t1, NEW t2, NEW l1, NEW l2,
         Stripped(m, r, t1, t2, l1, l2)
  PROVE  /\ Tables(m, r) = {r, t1, t2, l1, l2}
         /\ \A t \in {r, t1, t2, l1, l2}, i \in Idx : ~ m.pte[t][i].leaf
<1>1. Invalid.pa = Null /\ ~ Invalid.leaf /\ Null \notin Page
      /\ \A q : Table(q).pa = q /\ ~ Table(q).leaf
  BY PageFacts DEF Invalid, Table
<1>2. Below(m, {r}) = {t1, l1}
  BY <1>1 DEF Below, Stripped, Idx
<1>3. Below(m, {t1, l1}) = {t2, l2}
  BY <1>1 DEF Below, Stripped, Idx
<1>4. Tables(m, r) = {r} \cup {t1, l1} \cup {t2, l2}
  BY <1>2, <1>3 DEF Tables
<1>5. \A t \in {r, t1, t2, l1, l2}, i \in Idx : ~ m.pte[t][i].leaf
  BY <1>1 DEF Stripped, Idx
<1>. QED  BY <1>4, <1>5

\* freewalk() of pages T without leaves, all of them in use.
LEMMA FreeTablesFacts ==
  ASSUME NEW m \in Memory, NEW T \in SUBSET Page, T \cap m.free = {},
         \A t \in T, i \in Idx : ~ m.pte[t][i].leaf,
         NEW n, n = FreeTables(m, T)
  PROVE  /\ n \in Memory /\ n.free = m.free \cup T /\ n.fault = m.fault
         /\ \A q \in Page : q \notin T => Same(m, n, q)
<1>1. PICK F, P, C :
        /\ F = m.free \cup T
        /\ P = [q \in Page |-> IF q \in T THEN Empty ELSE m.pte[q]]
        /\ C = [q \in Page |-> IF q \in T THEN Junk ELSE m.content[q]]
  OBVIOUS
<1>2. n = [m EXCEPT !.free = F, !.pte = P, !.content = C]
  BY <1>1 DEF FreeTables, Memory
<1>3. F \subseteq Page /\ P \in Rows /\ C \in Contents
  BY <1>1, PageFacts DEF Memory, Rows, Contents
<1>4. /\ n.free = F /\ n.pte = P /\ n.content = C /\ n.fault = m.fault
      /\ n = [free |-> n.free, pte |-> n.pte, content |-> n.content,
              fault |-> n.fault]
  BY <1>2 DEF Memory
<1>5. n \in Memory
  BY <1>3, <1>4, MemoryIs DEF Memory
<1>6. \A q \in Page : q \notin T => P[q] = m.pte[q] /\ C[q] = m.content[q]
  BY <1>1
<1>. QED  BY <1>1, <1>4, <1>5, <1>6 DEF Same

\* The tree of a process that can be freed.
Whole(m, r, tf, t1, t2, l1, l2, q) ==
  /\ {r, tf, t1, t2, l1, l2, q} \subseteq Page
  /\ TopRows(m, r, t1, t2, tf) /\ LowRows(m, r, l1, l2)
  /\ m.pte[l2]["low"] = Leaf(q)
  /\ r \notin {tf, t1, t2, l1, l2, q} /\ tf \notin {t1, t2, l1, l2, q}
  /\ t1 \notin {t2, l1, l2, q} /\ t2 \notin {l1, l2, q}
  /\ l1 \notin {l2, q} /\ l2 # q

\* The three calls of uvmunmap(), and what they leave of the tree.
LEMMA UnmapThree ==
  ASSUME NEW m \in Memory, NEW r, NEW tf, NEW t1, NEW t2, NEW l1, NEW l2, NEW q,
         Whole(m, r, tf, t1, t2, l1, l2, q), q \notin m.free
  PROVE  \E n : /\ Unmap(Unmap(Unmap(m, r, TRAMPOLINE, FALSE),
                                     r, TRAPFRAME, FALSE), r, UserVA, TRUE) = n
                /\ n \in Memory /\ n.fault = m.fault /\ n.free = m.free \cup {q}
                /\ Stripped(n, r, t1, t2, l1, l2)
                /\ \A x \in Page : x \notin {r, t1, t2, l1, l2, q} => Same(m, n, x)
<1>1. /\ r \in Page /\ tf \in Page /\ t1 \in Page /\ t2 \in Page
      /\ l1 \in Page /\ l2 \in Page /\ q \in Page
      /\ t2 \notin {r, t1, l1, l2, q} /\ l2 \notin {r, t1, l1, q}
      /\ TopRows(m, r, t1, t2, tf) /\ LowRows(m, r, l1, l2)
      /\ m.pte[l2]["low"] = Leaf(q)
      /\ "top" \in Idx /\ "frame" \in Idx /\ "low" \in Idx
  BY DEF Whole, Idx
<1>2. PICK m1, m2 : m1 = Clear(m, t2, "top", FALSE) /\ m2 = Clear(m1, t2, "frame", FALSE)
  OBVIOUS
<1>3. EntryCleared(m, t2, "top", m1)
  <2>1. m.pte[t2]["top"] # Invalid
    <3>1. m.pte[t2]["top"] = Leaf(Text)
      BY <1>1 DEF TopRows
    <3>2. Leaf(Text).leaf /\ ~ Invalid.leaf
      BY DEF Leaf, Invalid
    <3>. QED  BY <3>1, <3>2
  <2>. QED  BY <1>1, <1>2, <2>1, UnmapOnly
<1>4. /\ \A x \in Page : x # t2 => m1.pte[x] = m.pte[x]
      /\ m1.pte[t2]["top"] = Invalid /\ m1.pte[t2]["frame"] = m.pte[t2]["frame"]
      /\ m1.pte[t2]["low"] = m.pte[t2]["low"]
  BY <1>1, <1>3 DEF Memory, EntryCleared
<1>5. EntryCleared(m1, t2, "frame", m2)
  <2>1. m1.pte[t2]["frame"] # Invalid
    <3>1. m1.pte[t2]["frame"] = Leaf(tf)
      BY <1>1, <1>4 DEF TopRows
    <3>. QED  BY <1>1, <3>1, PageFacts
  <2>2. m1 \in Memory
    BY <1>3 DEF EntryCleared
  <2>. QED  BY <1>1, <1>2, <2>1, <2>2, UnmapOnly
<1>6. /\ \A x \in Page : x # t2 => m2.pte[x] = m.pte[x]
      /\ m2.pte[t2]["top"] = Invalid /\ m2.pte[t2]["frame"] = Invalid
      /\ m2.pte[t2]["low"] = m.pte[t2]["low"]
      /\ m2 \in Memory /\ m2.free = m.free /\ m2.fault = m.fault
      /\ m2.content = m.content
  BY <1>1, <1>3, <1>4, <1>5 DEF Memory, EntryCleared
<1>7. m2.pte[l2]["low"] = Leaf(q) /\ q \notin m2.free
  BY <1>1, <1>6
<1>8. PICK n : Clear(m2, l2, "low", TRUE) = n /\ ImageCleared(m2, l2, q, n)
  BY <1>1, <1>6, <1>7, UnmapImage
<1>9. /\ n \in Memory /\ n.fault = m.fault /\ n.free = m.free \cup {q}
      /\ \A x \in Page : x # l2 => n.pte[x] = m2.pte[x]
      /\ n.pte[l2]["low"] = Invalid /\ n.pte[l2]["frame"] = m2.pte[l2]["frame"]
      /\ n.pte[l2]["top"] = m2.pte[l2]["top"]
      /\ \A x \in Page : x # q => n.content[x] = m.content[x]
  <2>1. /\ n \in Memory /\ n.fault = m2.fault /\ n.free = m2.free \cup {q}
        /\ n.pte = [m2.pte EXCEPT ![l2]["low"] = Invalid]
        /\ n.content = [m2.content EXCEPT ![q] = Junk]
    BY <1>8 DEF ImageCleared
  <2>2. m2.pte \in Rows /\ m2.content \in Contents
    BY <1>6 DEF Memory, Rows, Contents
  <2>3. /\ \A x \in Page : x # l2 => n.pte[x] = m2.pte[x]
        /\ n.pte[l2]["low"] = Invalid /\ n.pte[l2]["frame"] = m2.pte[l2]["frame"]
        /\ n.pte[l2]["top"] = m2.pte[l2]["top"]
    BY <1>1, <2>1, <2>2 DEF Rows, Idx
  <2>4. \A x \in Page : x # q => n.content[x] = m2.content[x]
    BY <1>1, <2>1, <2>2 DEF Contents
  <2>. QED  BY <1>6, <2>1, <2>3, <2>4
<1>10. Stripped(n, r, t1, t2, l1, l2)
  <2>1. /\ n.pte[r] = m.pte[r] /\ n.pte[t1] = m.pte[t1] /\ n.pte[l1] = m.pte[l1]
        /\ n.pte[t2] = m2.pte[t2]
        /\ n.pte[l2]["frame"] = m.pte[l2]["frame"]
        /\ n.pte[l2]["top"] = m.pte[l2]["top"]
    BY <1>1, <1>6, <1>9
  <2>. QED  BY <1>1, <1>6, <1>9, <2>1 DEF Stripped, TopRows, LowRows, Idx
<1>11. \A x \in Page : x \notin {r, t1, t2, l1, l2, q} => Same(m, n, x)
  BY <1>6, <1>9 DEF Same
<1>12. /\ LastTable(m, r, TRAMPOLINE) = t2 /\ TRAMPOLINE[3] = "top"
       /\ LastTable(m1, r, TRAPFRAME) = t2 /\ TRAPFRAME[3] = "frame"
  <2>1. TopRows(m, r, t1, t2, tf)
    BY <1>1
  <2>2. /\ m1.pte[r]["top"] = Table(t1) /\ m1.pte[t1]["top"] = Table(t2)
    BY <1>1, <1>4 DEF TopRows
  <2>. QED
    BY <1>1, <2>1, <2>2, PageFacts
       DEF LastTable, Next0, Table, TopRows, TRAMPOLINE, TRAPFRAME
<1>13. LastTable(m2, r, UserVA) = l2 /\ UserVA[3] = "low"
  <2>1. m2.pte[r]["low"] = Table(l1) /\ m2.pte[l1]["low"] = Table(l2)
    BY <1>1, <1>6 DEF LowRows
  <2>. QED  BY <1>1, <2>1, PageFacts DEF LastTable, Next0, Table, UserVA
<1>14. Unmap(Unmap(Unmap(m, r, TRAMPOLINE, FALSE),
                         r, TRAPFRAME, FALSE), r, UserVA, TRUE) = n
  <2>1. Unmap(m, r, TRAMPOLINE, FALSE) = m1
    BY <1>2, <1>12 DEF Unmap
  <2>2. Unmap(m1, r, TRAPFRAME, FALSE) = m2
    BY <1>2, <1>12 DEF Unmap
  <2>3. Unmap(m2, r, UserVA, TRUE) = n
    BY <1>8, <1>13 DEF Unmap
  <2>. QED  BY <2>1, <2>2, <2>3
<1>. QED  BY <1>9, <1>10, <1>11, <1>14

\* freeproc() gives back every page of the zombie z and disturbs no other.
LEMMA FreeProcFacts ==
  ASSUME VMInv, mem.fault = "none", NEW z \in Slots, status[z] = "ZOMBIE",
         NEW n, n = FreeProc(mem, z)
  PROVE  /\ n \in Memory /\ n.fault = "none"
         /\ \A q \in n.free : q \in mem.free \/ \E x \in Role : q = Held(z, x)
         /\ mem.free \subseteq n.free
         /\ \A x \in Role : Held(z, x) \in Page => Held(z, x) \in n.free
         /\ \A q \in Page : q \notin mem.free /\ (\A x \in Role : Held(z, x) # q)
              => Same(mem, n, q)
<1>1. PICK r, tf, ks, t1, t2, l1, l2, q :
        /\ r = pagetable[z] /\ tf = trapframe[z] /\ ks = kstack[z]
        /\ t1 = T1(mem, r) /\ t2 = T2(mem, r)
        /\ l1 = L1(mem, r) /\ l2 = L2(mem, r) /\ q = Img(mem, r).pa
  OBVIOUS
<1>2. /\ tf \in Page /\ r \in Page /\ ks \in Page /\ t1 \in Page /\ t2 \in Page
      /\ l1 \in Page /\ l2 \in Page /\ q \in Page
      /\ TopRows(mem, r, t1, t2, tf) /\ LowRows(mem, r, l1, l2)
      /\ Img(mem, r) = Leaf(q) /\ mem \in Memory
  BY <1>1 DEF VMInv, SlotOK, TopOK, LiveOK, LeafOK, TypeOK, Memory, Faults
<1>3. /\ Held(z, "trapframe") = tf /\ Held(z, "root") = r
      /\ Held(z, "kstack") = ks /\ Held(z, "t1") = t1
      /\ Held(z, "t2") = t2 /\ Held(z, "l1") = l1 /\ Held(z, "l2") = l2
      /\ Held(z, "image") = q
  BY <1>1, HeldIs
<1>4. /\ \A x, y \in Role : Held(z, x) \in Page /\ Held(z, x) = Held(z, y) => x = y
      /\ \A x \in Role : Held(z, x) \notin mem.free
  BY DEF VMInv, Apart
<1>5. /\ r \notin {tf, t1, t2, l1, l2, q, ks} /\ tf \notin {t1, t2, l1, l2, q, ks}
      /\ t1 \notin {t2, l1, l2, q, ks} /\ t2 \notin {l1, l2, q, ks}
      /\ l1 \notin {l2, q, ks} /\ l2 \notin {q, ks} /\ q # ks
  BY <1>2, <1>3, <1>4 DEF Role
<1>6. \A x \in {r, tf, t1, t2, l1, l2, q, ks} : x \notin mem.free
  BY <1>3, <1>4 DEF Role
<1>7. PICK m1 : m1 = Kfree(mem, tf)
  OBVIOUS
<1>8. /\ m1 \in Memory /\ m1.free = mem.free \cup {tf} /\ m1.fault = "none"
      /\ m1.pte = mem.pte /\ m1.content = [mem.content EXCEPT ![tf] = Junk]
  BY <1>2, <1>6, <1>7, KfreeFacts
<1>9. Whole(m1, r, tf, t1, t2, l1, l2, q)
  <2>1. mem.pte[l2]["low"] = Leaf(q)
    BY <1>2, LowTree
  <2>2. TopRows(m1, r, t1, t2, tf) /\ LowRows(m1, r, l1, l2)
    BY <1>2, <1>8 DEF TopRows, LowRows
  <2>. QED  BY <1>2, <1>5, <1>8, <2>1, <2>2 DEF Whole
<1>10. q \notin m1.free
  BY <1>5, <1>6, <1>8
<1>11. PICK m2 :
         /\ Unmap(Unmap(Unmap(m1, r, TRAMPOLINE, FALSE),
                        r, TRAPFRAME, FALSE), r, UserVA, TRUE) = m2
         /\ m2 \in Memory /\ m2.fault = m1.fault /\ m2.free = m1.free \cup {q}
         /\ Stripped(m2, r, t1, t2, l1, l2)
         /\ \A x \in Page : x \notin {r, t1, t2, l1, l2, q} => Same(m1, m2, x)
  BY <1>8, <1>9, <1>10, UnmapThree
<1>12. PICK T, m3 : T = {r, t1, t2, l1, l2} /\ m3 = Freewalk(m2, r)
  OBVIOUS
<1>13. /\ m3 = FreeTables(m2, T) /\ T \in SUBSET Page
       /\ \A t \in T, i \in Idx : ~ m2.pte[t][i].leaf
  <2>1. /\ Tables(m2, r) = {r, t1, t2, l1, l2}
        /\ \A t \in {r, t1, t2, l1, l2}, i \in Idx : ~ m2.pte[t][i].leaf
    <3>1. Stripped(m2, r, t1, t2, l1, l2)
      BY <1>11
    <3>. QED  BY <3>1, StrippedTables
  <2>2. T \in SUBSET Page
    BY <1>2, <1>12
  <2>. QED  BY <1>12, <2>1, <2>2 DEF Freewalk
<1>14. T \cap m2.free = {}
  BY <1>5, <1>6, <1>8, <1>11, <1>12
<1>15. /\ m3 \in Memory /\ m3.free = m2.free \cup T /\ m3.fault = m2.fault
       /\ \A x \in Page : x \notin T => Same(m2, m3, x)
  BY <1>11, <1>13, <1>14, FreeTablesFacts
<1>16. n = Kfree(m3, ks)
  <2>1. ks # Unmapped
    BY <1>2, PageFacts
  <2>. QED  BY <1>1, <1>7, <1>11, <1>12, <2>1 DEF FreeProc, FreeKstack
<1>17. ks \notin m3.free
  BY <1>5, <1>6, <1>8, <1>11, <1>12, <1>15
<1>18. /\ n \in Memory /\ n.free = m3.free \cup {ks} /\ n.fault = m3.fault
       /\ n.pte = m3.pte /\ n.content = [m3.content EXCEPT ![ks] = Junk]
  BY <1>2, <1>15, <1>16, <1>17, KfreeFacts
<1>19. n.free = mem.free \cup {tf, q, r, t1, t2, l1, l2, ks}
  BY <1>8, <1>11, <1>12, <1>15, <1>18
<1>20. ASSUME NEW x \in Page, x \notin {tf, q, r, t1, t2, l1, l2, ks}
       PROVE  Same(mem, n, x)
  <2>1. m1.pte[x] = mem.pte[x] /\ m1.content[x] = mem.content[x]
    BY <1>2, <1>8, <1>20 DEF Memory
  <2>2. m2.pte[x] = m1.pte[x] /\ m2.content[x] = m1.content[x]
    BY <1>11, <1>20 DEF Same
  <2>3. m3.pte[x] = m2.pte[x] /\ m3.content[x] = m2.content[x]
    BY <1>12, <1>15, <1>20 DEF Same
  <2>4. n.pte[x] = m3.pte[x] /\ n.content[x] = m3.content[x]
    BY <1>15, <1>18, <1>20 DEF Memory
  <2>. QED  BY <2>1, <2>2, <2>3, <2>4 DEF Same
<1>21. \A x \in {tf, q, r, t1, t2, l1, l2, ks} : \E y \in Role : x = Held(z, y)
  BY <1>3 DEF Role
<1>22. Held(z, "argbuf") = Null /\ Held(z, "newimage") = Null
  BY HeldIs DEF VMInv, SlotOK, LiveOK
<1>23. \A x \in Role : Held(z, x) \in Page => Held(z, x) \in n.free
  BY <1>3, <1>19, <1>22, PageFacts DEF Role
<1>. QED  BY <1>8, <1>11, <1>15, <1>18, <1>19, <1>20, <1>21, <1>23

\* kwait() frees a zombie.
LEMMA WaitKeeps ==
  ASSUME VMInv, NEW p \in Slots, Wait(p)
  PROVE  VMInv' /\ ImageStep /\ LossStep
<1>1. mem.fault = "none" /\ status[p] = "LIVE"
  BY DEF Wait, At, Running
<1>2. PICK z : /\ z \in FirstChild(p)
               /\ mem' = FreeProc(mem, z)
               /\ status' = [status EXCEPT ![z] = "FREE"]
               /\ parent' = [parent EXCEPT ![z] = None]
               /\ trapframe' = [trapframe EXCEPT ![z] = Null]
               /\ pagetable' = [pagetable EXCEPT ![z] = Null]
               /\ kstack' = [kstack EXCEPT ![z] = Unmapped]
  BY DEF Wait
<1>3. UNCHANGED <<unreleased, files, execs>>
  BY DEF Wait
<1>4. z \in Slots /\ status[z] = "ZOMBIE" /\ z # p
  BY <1>1, <1>2 DEF FirstChild, Children
<1>5. PICK n : n = FreeProc(mem, z)
  OBVIOUS
<1>6. /\ n \in Memory /\ n.fault = "none"
      /\ \A q \in n.free : q \in mem.free \/ \E x \in Role : q = Held(z, x)
      /\ mem.free \subseteq n.free
      /\ \A x \in Role : Held(z, x) \in Page => Held(z, x) \in n.free
      /\ \A q \in Page : q \notin mem.free /\ (\A x \in Role : Held(z, x) # q)
           => Same(mem, n, q)
  BY <1>1, <1>4, <1>5, FreeProcFacts
<1>7. mem' = n
  BY <1>2, <1>5
<1>8. TypeOK' /\ NeverFaults'
  BY <1>2, <1>3, <1>6, <1>7 DEF VMInv, TypeOK, Memory, Faults, files, execs, NeverFaults
<1>9. Touches(z)
  BY <1>2, <1>3, <1>6, <1>7 DEF Touches, KeepsSlot, VMInv, TypeOK, files, execs
<1>10. pc[z] = "user" /\ argbuf[z] = Null /\ newimage[z] = Null
  BY <1>4 DEF VMInv, SlotOK, LiveOK
<1>11. /\ pagetable'[z] = Null /\ kstack'[z] = Unmapped /\ trapframe'[z] = Null
       /\ pc'[z] = "user" /\ argbuf'[z] = Null /\ newimage'[z] = Null
       /\ status'[z] = "FREE"
  BY <1>2, <1>3, <1>4, <1>10 DEF VMInv, TypeOK, execs
<1>12. SlotOK(z)' /\ Image(z)' = NoImage
  BY <1>11 DEF SlotOK, FreeOK, TopOK, AllocatedOK, LiveOK, Idle, Image
<1>13. \A x \in Role : Held(z, x)' \notin Page
  BY <1>11, NoTree, PageFacts DEF Held, Role, Invalid
<1>14. Moves(z)
  <2>1. n.free \subseteq Page
    BY <1>6 DEF Memory
  <2>. QED  BY <1>6, <1>7, <1>13, <2>1 DEF Moves
<1>15. VMInv' /\ \A s \in Slots : s # z => Image(s)' = Image(s)
  BY <1>4, <1>8, <1>9, <1>12, <1>14, StepKeeps
<1>16. Image(p) # NoImage /\ Image(z) # NoImage
  BY <1>1, <1>4, ImageOfLive
<1>17. ImageGoes(p, z)
  BY <1>4, <1>12, <1>15, <1>16 DEF ImageGoes
<1>18. Loses({})
  <2>1. Retains(z, {})
    BY <1>6, <1>7 DEF Retains
  <2>. QED  BY <1>4, <1>9, <2>1, StepLoses
<1>. QED  BY <1>15, <1>17, <1>18 DEF ImageStep, LossStep

-------------------------------------------------------------------------
(* The initial state: eight pages are enough for userinit().               *)

\* Eight pages are not among seven.
LEMMA SevenAreFew ==
  ASSUME NEW n \in 8 .. NPAGE, NEW a, NEW b, NEW c, NEW d, NEW e, NEW f, NEW g
  PROVE  ~ 1 .. n \subseteq {a, b, c, d, e, f, g}
<1>1. NPAGE \in Nat /\ n \in Nat /\ n >= 8
  BY NPAGEAssumption
<1>2. PICK S, l : S = {a, b, c, d, e, f, g} /\ l = <<a, b, c, d, e, f, g>>
  OBVIOUS
<1>3. l \in Surjection(1 .. 7, S)
  <2>1. l \in [1 .. 7 -> S]
    BY <1>2
  <2>2. /\ l[1] = a /\ l[2] = b /\ l[3] = c /\ l[4] = d /\ l[5] = e /\ l[6] = f
        /\ l[7] = g
    BY <1>2
  <2>3. \A x \in S : \E i \in 1 .. 7 : l[i] = x
    BY <1>2, <2>2
  <2>. QED  BY <2>1, <2>3 DEF Surjection
<1>4. IsFiniteSet(1 .. 7) /\ Cardinality(1 .. 7) = 7
  <2>1. ASSUME NEW k \in Nat, k >= 1
        PROVE  IsFiniteSet(1 .. k) /\ Cardinality(1 .. k) = k
    <3>1. IsFiniteSet(1 .. k)
      BY FS_Interval
    <3>2. Cardinality(1 .. k) = k
      BY <2>1, FS_Interval
    <3>. QED  BY <3>1, <3>2
  <2>2. 7 \in Nat /\ 7 >= 1
    OBVIOUS
  <2>. QED  BY <2>1, <2>2, Zenon
<1>5. IsFiniteSet(S) /\ Cardinality(S) <= 7 /\ Cardinality(S) \in Nat
  BY <1>3, <1>4, FS_Surjection, FS_CardinalityType
<1>6. Cardinality(1 .. n) = n
  BY <1>1, FS_Interval
<1>7. 1 .. n \subseteq S => Cardinality(1 .. n) <= Cardinality(S)
  BY <1>5, FS_Subset
<1>. QED  BY <1>1, <1>2, <1>5, <1>6, <1>7

\* userinit() has the pages it needs.
LEMMA BootFacts ==
  ASSUME NEW n \in 8 .. NPAGE, NEW v \in Content
  PROVE  \E m, k, tf, r, t1, t2, ks, img, l1, l2 :
           /\ m \in Memory /\ m.fault = "none"
           /\ ImageDone(m, k, tf, r, t1, t2, ks, img, l1, l2, v)
           /\ Boot(n, v) = Built(k, "done", tf, r, ks, img)
<1>1. PICK m : m = [free    |-> 1 .. n,
                    pte     |-> [q \in Page |-> Empty],
                    content |-> [q \in Page |-> Junk],
                    fault   |-> "none"]
  OBVIOUS
<1>2. m \in Memory /\ m.free = 1 .. n /\ m.fault = "none"
  <2>1. 1 .. n \subseteq Page
    BY NPAGEAssumption DEF Page
  <2>. QED  BY <1>1, <2>1, PageFacts DEF Memory, Faults
<1>3. PICK a : a = AllocProc(m, Unmapped)
  OBVIOUS
<1>4. PICK b : b = MapImage(a, v)
  OBVIOUS
<1>5. Boot(n, v) = b
  BY <1>1, <1>3, <1>4 DEF Boot
<1>6. PICK k, tf, r, t1, t2, ks : /\ AllocDone(m, k, tf, r, t1, t2, ks)
                                  /\ a = Built(k, "done", tf, r, ks, Null)
  <2>1. ASSUME NEW k, NEW tf, AllocFailed(m, k, tf)  PROVE  FALSE
    <3>1. PICK x, y : 1 .. n \subseteq {x, y, tf}
      BY <1>2, <2>1 DEF AllocFailed
    <3>2. 1 .. n \subseteq {x, y, tf, tf, tf, tf, tf}
      BY <3>1
    <3>. QED  BY <3>2, SevenAreFew
  <2>. QED  BY <1>2, <1>3, <2>1, AllocProcFacts
<1>7. ASSUME NEW h, NEW img, NEW l1, ImageFailed(m, h, tf, r, t1, t2, ks, img, l1)
      PROVE  FALSE
  <2>1. 1 .. n \subseteq {tf, r, t1, t2, ks, img, l1}
    BY <1>2, <1>7 DEF ImageFailed
  <2>. QED  BY <2>1, SevenAreFew
<1>8. \E h, img, l1, l2 :
        /\ ImageDone(m, h, tf, r, t1, t2, ks, img, l1, l2, v)
        /\ b = Built(h, "done", tf, r, ks, img)
  BY <1>2, <1>4, <1>6, <1>7, MapImageFacts
<1>. QED  BY <1>2, <1>5, <1>8

\* The invariant holds when the first process is there.
LEMMA InitOK ==
  ASSUME Init
  PROVE  /\ VMInv
         /\ \E v \in Content : Images = [s \in Slots |-> IF s = 0 THEN v ELSE NoImage]
<1>1. PICK machine \in Machines, v \in Content :
        /\ quota = machine.pipes
        /\ \E b \in {Boot(machine.pages, v)} :
             /\ mem       = b.m
             /\ status    = InSlot0("LIVE", "FREE")
             /\ trapframe = InSlot0(b.trapframe, Null)
             /\ pagetable = InSlot0(b.root, Null)
             /\ kstack    = InSlot0(b.kstack, Unmapped)
  BY DEF Init
<1>2. machine.pages \in 8 .. NPAGE /\ machine.pipes \in Nat
  BY MachinesAssumption
<1>3. PICK m, n, tf, r, t1, t2, ks, img, l1, l2 :
        /\ m \in Memory /\ m.fault = "none"
        /\ ImageDone(m, n, tf, r, t1, t2, ks, img, l1, l2, v)
        /\ Boot(machine.pages, v) = Built(n, "done", tf, r, ks, img)
  BY <1>2, BootFacts
<1>4. /\ mem = n /\ quota = machine.pipes
      /\ status    = InSlot0("LIVE", "FREE") /\ trapframe = InSlot0(tf, Null)
      /\ pagetable = InSlot0(r, Null) /\ kstack = InSlot0(ks, Unmapped)
  BY <1>1, <1>3 DEF Built
<1>5. /\ parent = [p \in Slots |-> None] /\ unreleased = {} /\ pipes = {}
      /\ pc = [p \in Slots |-> "user"] /\ argbuf = [p \in Slots |-> Null]
      /\ newimage = [p \in Slots |-> Null]
  BY DEF Init
<1>6. /\ n \in Memory /\ n.fault = "none"
      /\ tf \in Page /\ r \in Page \ {tf} /\ t1 \in Page \ {tf, r}
      /\ t2 \in Page \ {tf, r, t1} /\ ks \in Page \ {tf, r, t1, t2}
      /\ img \in Page \ {tf, r, t1, t2, ks}
      /\ l1 \in Page \ {tf, r, t1, t2, ks, img}
      /\ l2 \in Page \ {tf, r, t1, t2, ks, img, l1}
      /\ n.free \cap {tf, r, t1, t2, ks, img, l1, l2} = {}
      /\ TopRows(n, r, t1, t2, tf) /\ LowRows(n, r, l1, l2)
      /\ n.pte[l2]["low"] = Leaf(img) /\ n.content[img] = v
      /\ n.free \subseteq Page
  BY <1>3 DEF ImageDone, Memory
<1>7. 0 \in Slots
  BY NPROCAssumption DEF Slots
<1>8. TypeOK /\ NeverFaults
  BY <1>2, <1>4, <1>5, <1>6
     DEF TypeOK, NeverFaults, Memory, Faults, InSlot0
<1>9. /\ status[0] = "LIVE" /\ trapframe[0] = tf /\ pagetable[0] = r
      /\ kstack[0] = ks /\ pc[0] = "user" /\ argbuf[0] = Null
      /\ newimage[0] = Null
  BY <1>4, <1>5, <1>7 DEF InSlot0
<1>10. ASSUME NEW s \in Slots, s # 0
       PROVE  /\ status[s] = "FREE" /\ trapframe[s] = Null /\ pagetable[s] = Null
              /\ kstack[s] = Unmapped /\ pc[s] = "user" /\ argbuf[s] = Null
              /\ newimage[s] = Null
  BY <1>4, <1>5, <1>10 DEF InSlot0
<1>11. /\ T1(n, r) = t1 /\ T2(n, r) = t2 /\ L1(n, r) = l1 /\ L2(n, r) = l2
       /\ Img(n, r) = Leaf(img) /\ Leaf(img).pa = img /\ Leaf(img) # Invalid
  BY <1>6, TopTree, LowTree, PageFacts DEF Leaf
<1>12. SlotOK(0) /\ Image(0) = v
  BY <1>4, <1>6, <1>9, <1>11
     DEF SlotOK, FreeOK, TopOK, AllocatedOK, LiveOK, LeafOK, Image, Img
<1>13. /\ Held(0, "trapframe") = tf /\ Held(0, "root") = r
       /\ Held(0, "kstack") = ks /\ Held(0, "argbuf") = Null
       /\ Held(0, "newimage") = Null /\ Held(0, "t1") = t1
       /\ Held(0, "t2") = t2 /\ Held(0, "l1") = l1 /\ Held(0, "l2") = l2
       /\ Held(0, "image") = img
  BY <1>4, <1>9, <1>11, HeldIs
<1>14. ASSUME NEW s \in Slots, s # 0
       PROVE  /\ SlotOK(s) /\ Image(s) = NoImage
              /\ \A x \in Role : Held(s, x) \notin Page
  <2>1. SlotOK(s) /\ Image(s) = NoImage
    BY <1>10, <1>14 DEF SlotOK, FreeOK, TopOK, AllocatedOK, LiveOK, Idle, Image
  <2>2. \A x \in Role : Held(s, x) \notin Page
    BY <1>10, <1>14, NoTree, PageFacts DEF Held, Role, Invalid
  <2>. QED  BY <2>1, <2>2
<1>15. Apart
  <2>1. ASSUME NEW x \in Role, NEW y \in Role, Held(0, x) \in Page,
               Held(0, x) = Held(0, y)
        PROVE  x = y
    BY <1>6, <1>13, <2>1, PageFacts DEF Role
  <2>2. ASSUME NEW x \in Role
        PROVE  Held(0, x) \notin n.free
    BY <1>6, <1>13, <2>2, PageFacts DEF Role
  <2>3. \A s \in Slots, x \in Role : Held(s, x) \notin mem.free \cup pipes
    BY <1>4, <1>5, <1>6, <1>14, <2>2
  <2>4. \A s1, s2 \in Slots, x1, x2 \in Role :
          Held(s1, x1) \in Page /\ Held(s1, x1) = Held(s2, x2) =>
            s1 = s2 /\ x1 = x2
    BY <1>14, <2>1
  <2>. QED  BY <1>5, <2>3, <2>4 DEF Apart
<1>16. VMInv
  BY <1>8, <1>12, <1>14, <1>15 DEF VMInv
<1>. QED  BY <1>12, <1>14, <1>16 DEF Images

\* Every step keeps the invariant, and does to the images what AbsImages allows.
LEMMA NextKeeps ==
  ASSUME VMInv, Next
  PROVE  VMInv' /\ ImageStep /\ LossStep
<1>1. CASE AcquirePanics
  BY <1>1, AcquireKeeps
<1>2. ASSUME NEW p \in Slots, Fork(p) \/ Exit(p) \/ Wait(p) \/ PipeAlloc(p)
      PROVE  VMInv' /\ ImageStep /\ LossStep
  BY <1>2, ForkKeeps, ExitKeeps, WaitKeeps, PipeAllocKeeps
<1>3. ASSUME NEW p \in Slots, ExecStart(p)  PROVE  VMInv' /\ ImageStep /\ LossStep
  BY <1>3, ExecStartKeeps DEF ImageStep
<1>4. ASSUME NEW p \in Slots, ExecRejected(p)  PROVE  VMInv' /\ ImageStep /\ LossStep
  BY <1>4, ReturnKeeps DEF ExecRejected, ImageStep
<1>5. ASSUME NEW p \in Slots, NEW v \in Content, ExecLoad(p, v)
      PROVE  VMInv' /\ ImageStep /\ LossStep
  BY <1>5, ExecLoadKeeps DEF ImageStep
<1>6. ASSUME NEW p \in Slots, ExecUnmap(p)  PROVE  VMInv' /\ ImageStep /\ LossStep
  BY <1>6, ExecUnmapKeeps DEF ImageStep
<1>7. ASSUME NEW p \in Slots, ExecMap(p)  PROVE  VMInv' /\ ImageStep /\ LossStep
  BY <1>7, ExecMapKeeps DEF ImageStep
<1>8. ASSUME NEW p \in Slots, ExecReturn(p)  PROVE  VMInv' /\ ImageStep /\ LossStep
  BY <1>8, ReturnKeeps DEF ExecReturn, ImageStep
<1>9. ASSUME NEW p \in Slots, NEW v \in Content, Store(p, v)
      PROVE  VMInv' /\ ImageStep /\ LossStep
  BY <1>9, StoreKeeps DEF ImageStep
<1>. QED
  BY <1>1, <1>2, <1>3, <1>4, <1>5, <1>6, <1>7, <1>8, <1>9 DEF Next

\* A stuttering step.
LEMMA StutterKeeps ==
  ASSUME VMInv, UNCHANGED vars
  PROVE  VMInv' /\ ImageStep /\ LossStep
<1>1. UNCHANGED <<mem, procs, files, execs>> /\ mem' = mem
  BY DEF vars
<1>2. TypeOK' /\ NeverFaults'
  BY <1>1 DEF VMInv, TypeOK, NeverFaults, procs, files, execs
<1>3. ASSUME NEW s \in Slots
      PROVE  /\ SlotOK(s)' /\ Image(s)' = Image(s)
             /\ \A x \in Role : Held(s, x)' = Held(s, x)
  <2>1. KeepsSlot(s)
    BY <1>1 DEF KeepsSlot, procs, execs
  <2>. QED  BY <1>1, <2>1, OthersKept DEF Same
<1>4. Apart'
  BY <1>1, <1>3 DEF VMInv, Apart, files
<1>5. Loses({})
  BY <1>1, <1>3 DEF Loses, Kept, files
<1>. QED  BY <1>2, <1>3, <1>4, <1>5 DEF VMInv, ImageStep, ImagesKept, LossStep

-------------------------------------------------------------------------
(* The theorems.                                                           *)

\* The invariant holds in every state.
LEMMA Inductive == Spec => []VMInv
<1>1. Init => VMInv
  BY InitOK
<1>2. VMInv /\ [Next]_vars => VMInv'
  BY NextKeeps, StutterKeeps
<1>. QED  BY <1>1, <1>2, PTL DEF Spec

\* The page tables, the process table and the pages keep their types: every
\* pointer of theirs is null or a page between end_address and PHYSTOP.
THEOREM TypeCorrect == Spec => []TypeOK
<1>1. VMInv => TypeOK
  BY DEF VMInv
<1>. QED  BY <1>1, Inductive, PTL

\* With any number of processes, pages and pipes, and wherever memory runs
\* out, mappages() and freewalk() never panic and no page is freed twice.  That
\* no fork maps its kernel stack over another follows from FreeOK: the stack of
\* a free slot is not mapped.
THEOREM NoFault == Spec => []NeverFaults
<1>1. VMInv => NeverFaults
  BY DEF VMInv
<1>. QED  BY <1>1, Inductive, PTL

\* A process that can run, or be freed, has a kernel stack, though allocproc()
\* does not check the kalloc() of it.
THEOREM StackMapped == Spec => []NoNullStack
<1>1. VMInv => NoNullStack
  BY DEF VMInv, SlotOK, LiveOK, NoNullStack
<1>. QED  BY <1>1, Inductive, PTL

\* The reference to the page that slot s holds as x.
OwnerOf(s, x) ==
  CASE x = "trapframe" -> <<"trapframe", s, trapframe[s]>>
    [] x = "root"      -> <<"pagetable", s, pagetable[s]>>
    [] x = "kstack"    -> <<"kstack", s, kstack[s]>>
    [] x = "argbuf"    -> <<"argbuf", s, argbuf[s]>>
    [] x = "newimage"  -> <<"newimage", s, newimage[s]>>
    [] x = "t1"        -> <<"top", pagetable[s], T1(mem, pagetable[s])>>
    [] x = "t2"        -> <<"top", T1(mem, pagetable[s]), T2(mem, pagetable[s])>>
    [] x = "l1"        -> <<"low", pagetable[s], L1(mem, pagetable[s])>>
    [] x = "l2"        -> <<"low", L1(mem, pagetable[s]), L2(mem, pagetable[s])>>
    [] x = "image"     -> <<"low", L2(mem, pagetable[s]), Img(mem, pagetable[s]).pa>>

\* The references of slot s, place by place.
LEMMA OwnerIs ==
  ASSUME NEW s
  PROVE  LET r == pagetable[s] IN
         /\ OwnerOf(s, "trapframe") = <<"trapframe", s, trapframe[s]>>
         /\ OwnerOf(s, "root") = <<"pagetable", s, r>>
         /\ OwnerOf(s, "kstack") = <<"kstack", s, kstack[s]>>
         /\ OwnerOf(s, "argbuf") = <<"argbuf", s, argbuf[s]>>
         /\ OwnerOf(s, "newimage") = <<"newimage", s, newimage[s]>>
         /\ OwnerOf(s, "t1") = <<"top", r, T1(mem, r)>>
         /\ OwnerOf(s, "t2") = <<"top", T1(mem, r), T2(mem, r)>>
         /\ OwnerOf(s, "l1") = <<"low", r, L1(mem, r)>>
         /\ OwnerOf(s, "l2") = <<"low", L1(mem, r), L2(mem, r)>>
         /\ OwnerOf(s, "image") = <<"low", L2(mem, r), Img(mem, r).pa>>
BY DEF OwnerOf

\* The entries of a table of slot s that lead to pages.
LEMMA EntriesOf ==
  ASSUME VMInv, NEW s \in Slots, pagetable[s] # Null,
         NEW t \in Tables(mem, pagetable[s]), NEW i \in {"low", "top"},
         mem.pte[t][i].pa \in Page
  PROVE  \E x \in Role : <<i, t, mem.pte[t][i].pa>> = OwnerOf(s, x)
<1>1. PICK r, t1, t2, l1, l2 :
        /\ r = pagetable[s] /\ t1 = T1(mem, r) /\ t2 = T2(mem, r)
        /\ l1 = L1(mem, r) /\ l2 = L2(mem, r)
  OBVIOUS
<1>2. status[s] # "FREE"
  BY DEF VMInv, SlotOK, FreeOK
<1>3. /\ r \in Page /\ t1 \in Page /\ t2 \in Page
      /\ TopRows(mem, r, t1, t2, trapframe[s])
  BY <1>1, <1>2 DEF VMInv, SlotOK, TopOK
<1>4. /\ mem.pte[r]["low"].pa = l1 /\ mem.pte[r]["top"].pa = t1
      /\ mem.pte[t1]["top"].pa = t2
      /\ l1 \in Page => mem.pte[l1]["low"].pa = l2
      /\ l2 \in Page => mem.pte[l2]["low"].pa = Img(mem, r).pa
  <2>1. r # Null /\ t1 # Null /\ (l1 \in Page => l1 # Null) /\ (l2 \in Page => l2 # Null)
    BY <1>3, PageFacts
  <2>2. /\ l1 = mem.pte[r]["low"].pa /\ t1 = mem.pte[r]["top"].pa
        /\ t2 = mem.pte[t1]["top"].pa
        /\ l1 \in Page => l2 = mem.pte[l1]["low"].pa
    BY <1>1, <2>1 DEF T1, T2, L1, L2, Next0
  <2>3. l2 \in Page => Img(mem, r) = mem.pte[l2]["low"]
    BY <1>1, <2>1, ImgIs DEF EntryAt
  <2>. QED  BY <2>2, <2>3
<1>5. /\ mem.pte[r]["frame"].pa = Null
      /\ mem.pte[t1]["low"].pa = Null /\ mem.pte[t1]["frame"].pa = Null
      /\ mem.pte[t2]["low"].pa = Null /\ mem.pte[t2]["top"].pa = Text
  BY <1>3 DEF TopRows, Invalid, Leaf
<1>6. /\ l1 \in Page => mem.pte[l1]["top"].pa = Null /\ mem.pte[l1]["frame"].pa = Null
      /\ l2 \in Page => l1 \in Page /\ mem.pte[l2]["top"].pa = Null
  <2>1. CASE status[s] = "ALLOCATED"
    <3>1. l1 \in Page \cup {Null} /\ PartRows(mem, r, l1)
      BY <1>1, <2>1 DEF VMInv, SlotOK, AllocatedOK
    <3>2. l2 = Null
      BY <1>1, <1>3, <3>1, PartTree
    <3>. QED  BY <3>1, <3>2, PageFacts DEF PartRows, Invalid, Idx
  <2>2. CASE status[s] # "ALLOCATED"
    <3>1. l1 \in Page /\ l2 \in Page /\ LowRows(mem, r, l1, l2)
      BY <1>1, <1>2, <2>2 DEF VMInv, SlotOK, LiveOK, TypeOK
    <3>. QED  BY <3>1 DEF LowRows, Invalid
  <2>. QED  BY <2>1, <2>2
<1>7. Null \notin Page /\ Text \notin Page
  BY PageFacts
<1>8. Below(mem, {r}) = {t1, l1} \cap Page
  BY <1>3, <1>4, <1>5, <1>7 DEF Below, Idx
<1>9. Below(mem, Below(mem, {r})) \subseteq {t2, l2} \cap Page
  BY <1>3, <1>4, <1>5, <1>6, <1>7, <1>8 DEF Below, Idx
<1>10. t \in {r, t1, t2, l1, l2} /\ t \in Page
  BY <1>1, <1>3, <1>8, <1>9 DEF Tables
<1>11. /\ OwnerOf(s, "t1") = <<"top", r, t1>> /\ OwnerOf(s, "t2") = <<"top", t1, t2>>
       /\ OwnerOf(s, "l1") = <<"low", r, l1>> /\ OwnerOf(s, "l2") = <<"low", l1, l2>>
       /\ OwnerOf(s, "image") = <<"low", l2, Img(mem, r).pa>>
  BY <1>1, OwnerIs
<1>12. {"t1", "t2", "l1", "l2", "image"} \subseteq Role
  BY DEF Role
<1>13. CASE t = r
  BY <1>4, <1>11, <1>12, <1>13
<1>14. CASE t = t1
  BY <1>4, <1>5, <1>7, <1>11, <1>12, <1>14
<1>15. CASE t = t2
  BY <1>5, <1>7, <1>15
<1>16. CASE t = l1
  BY <1>4, <1>6, <1>7, <1>10, <1>11, <1>12, <1>16
<1>17. CASE t = l2
  BY <1>4, <1>6, <1>7, <1>10, <1>11, <1>12, <1>17
<1>. QED  BY <1>10, <1>13, <1>14, <1>15, <1>16, <1>17

\* Every reference to a page is that of one place of one slot, or a pipe's.
LEMMA OwnersAre ==
  ASSUME VMInv, NEW o \in Owners
  PROVE  /\ o[3] \in Page
         /\ \/ \E s \in Slots, x \in Role : o = OwnerOf(s, x) /\ o[3] = Held(s, x)
            \/ \E q \in pipes : o = <<"pipe", q, q>>
<1>1. o \in Refs /\ o[3] \in Page
  BY DEF Owners
<1>2. \A s, x : x \in Role => OwnerOf(s, x)[3] = Held(s, x)
  <2>1. ASSUME NEW s, NEW x \in Role
        PROVE  OwnerOf(s, x)[3] = Held(s, x)
    <3>1. /\ OwnerOf(s, "trapframe")[3] = trapframe[s]
          /\ OwnerOf(s, "root")[3] = pagetable[s]
          /\ OwnerOf(s, "kstack")[3] = kstack[s]
          /\ OwnerOf(s, "argbuf")[3] = argbuf[s]
          /\ OwnerOf(s, "newimage")[3] = newimage[s]
          /\ OwnerOf(s, "t1")[3] = T1(mem, pagetable[s])
          /\ OwnerOf(s, "t2")[3] = T2(mem, pagetable[s])
          /\ OwnerOf(s, "l1")[3] = L1(mem, pagetable[s])
          /\ OwnerOf(s, "l2")[3] = L2(mem, pagetable[s])
          /\ OwnerOf(s, "image")[3] = Img(mem, pagetable[s]).pa
      BY OwnerIs
    <3>. QED  BY <2>1, <3>1, HeldIs DEF Role
  <2>. QED  BY <2>1
<1>3. ASSUME NEW s \in Slots, o \in SlotRefs(s)
      PROVE  \E x \in Role : o = OwnerOf(s, x)
  <2>1. /\ OwnerOf(s, "trapframe") = <<"trapframe", s, trapframe[s]>>
        /\ OwnerOf(s, "root") = <<"pagetable", s, pagetable[s]>>
        /\ OwnerOf(s, "kstack") = <<"kstack", s, kstack[s]>>
        /\ OwnerOf(s, "argbuf") = <<"argbuf", s, argbuf[s]>>
        /\ OwnerOf(s, "newimage") = <<"newimage", s, newimage[s]>>
    BY OwnerIs
  <2>2. {"trapframe", "root", "kstack", "argbuf", "newimage"} \subseteq Role
    BY DEF Role
  <2>. QED  BY <1>3, <2>1, <2>2 DEF SlotRefs
<1>4. ASSUME NEW t \in Trees, NEW i \in {"low", "top"},
             o = <<i, t, mem.pte[t][i].pa>>
      PROVE  \E s \in Slots, x \in Role : o = OwnerOf(s, x)
  <2>1. PICK s \in Slots : pagetable[s] # Null /\ t \in Tables(mem, pagetable[s])
    BY DEF Trees
  <2>2. mem.pte[t][i].pa \in Page
    BY <1>1, <1>4
  <2>. QED  BY <1>4, <2>1, <2>2, EntriesOf
<1>5. (\E s \in Slots : o \in SlotRefs(s)) \/ o \in EntryRefs \/ o \in PipeRefs
  BY <1>1 DEF Refs
<1>. QED  BY <1>1, <1>2, <1>3, <1>4, <1>5 DEF EntryRefs, PipeRefs

\* Pages held apart have one reference each.
LEMMA OneOwnerHolds ==
  ASSUME VMInv
  PROVE  OneOwner
<1>1. ASSUME NEW o1 \in Owners, NEW o2 \in Owners, o1[3] = o2[3]
      PROVE  o1 = o2
  <2>1. ASSUME NEW s1 \in Slots, NEW x1 \in Role, o1 = OwnerOf(s1, x1),
               o1[3] = Held(s1, x1), NEW s2 \in Slots, NEW x2 \in Role,
               o2 = OwnerOf(s2, x2), o2[3] = Held(s2, x2)
        PROVE  o1 = o2
    <3>1. s1 = s2 /\ x1 = x2
      BY <1>1, <2>1, OwnersAre DEF VMInv, Apart
    <3>. QED  BY <2>1, <3>1
  <2>2. \A s \in Slots, x \in Role, q \in pipes : Held(s, x) # q
    BY DEF VMInv, Apart
  <2>3. \A q : <<"pipe", q, q>>[3] = q
    OBVIOUS
  <2>. QED  BY <1>1, <2>1, <2>2, <2>3, OwnersAre
<1>2. Owned \cap mem.free = {}
  <2>1. ASSUME NEW o \in Owners  PROVE  o[3] \notin mem.free
    <3>1. CASE \E s \in Slots, x \in Role : o[3] = Held(s, x)
      BY <3>1 DEF VMInv, Apart
    <3>2. CASE \E q \in pipes : o = <<"pipe", q, q>>
      BY <3>2 DEF VMInv, Apart
    <3>. QED  BY <3>1, <3>2, OwnersAre
  <2>. QED  BY <2>1 DEF Owned
<1>3. Owned \subseteq Page
  BY DEF Owned, Owners
<1>4. PICK f : f = [o \in Owners |-> o[3]]
  OBVIOUS
<1>5. f \in Injection(Owners, Page) /\ f \in Injection(Owners, Owned)
      /\ f \in Surjection(Owners, Owned)
  <2>1. f \in [Owners -> Page] /\ f \in [Owners -> Owned]
    BY <1>4 DEF Owned, Owners
  <2>2. \A a, b \in Owners : f[a] = f[b] => a = b
    BY <1>1, <1>4
  <2>3. \A q \in Owned : \E o \in Owners : f[o] = q
    BY <1>4 DEF Owned
  <2>. QED  BY <2>1, <2>2, <2>3 DEF Injection, Surjection, IsInjective
<1>6. IsFiniteSet(Owners)
  BY <1>5, PageFacts, FS_Injection
<1>7. Cardinality(Owned) = Cardinality(Owners)
  BY <1>5, <1>6, FS_Surjection
<1>. QED  BY <1>2, <1>7 DEF OneOwner

\* Whatever a slot holds has a reference.
LEMMA HeldIsOwned ==
  ASSUME VMInv, NEW s \in Slots, NEW x \in Role, Held(s, x) \in Page
  PROVE  Held(s, x) \in Owned
<1>1. PICK r, t1, t2, l1, l2, e :
        /\ r = pagetable[s] /\ t1 = T1(mem, r) /\ t2 = T2(mem, r)
        /\ l1 = L1(mem, r) /\ l2 = L2(mem, r) /\ e = Img(mem, r)
  OBVIOUS
<1>2. Null \notin Page /\ "low" \in Idx /\ "top" \in Idx /\ Invalid.pa = Null
  BY PageFacts DEF Idx, Invalid
<1>3. /\ t1 \in Page => r # Null /\ t1 = mem.pte[r]["top"].pa
      /\ t2 \in Page => t1 # Null /\ t2 = mem.pte[t1]["top"].pa
      /\ l1 \in Page => r # Null /\ l1 = mem.pte[r]["low"].pa
      /\ l2 \in Page => l1 # Null /\ l2 = mem.pte[l1]["low"].pa
      /\ e.pa \in Page => l2 # Null /\ e = mem.pte[l2]["low"]
  <2>1. e = EntryAt(mem, l2, "low")
    BY <1>1, ImgIs
  <2>. QED  BY <1>1, <1>2, <2>1 DEF T1, T2, L1, L2, Next0, EntryAt
<1>4. /\ r \in Page \cup {Null} /\ mem.pte \in [Page -> [Idx -> Entry]]
  BY <1>1 DEF VMInv, TypeOK
<1>5. \A t \in Page, i \in Idx : mem.pte[t][i].pa \in Page \cup {Null, Text}
  <2>1. \A d \in Entry : d.pa \in Page \cup {Null, Text}
    BY DEF Entry
  <2>. QED  BY <1>4, <2>1
<1>6. /\ t2 \in Page => t1 \in Page
      /\ l2 \in Page => l1 \in Page
      /\ e.pa \in Page => l2 \in Page
  <2>1. CASE status[s] = "FREE"
    <3>1. r = Null
      BY <1>1, <2>1, FreeSlot
    <3>. QED  BY <1>1, <1>2, <3>1, NoTree
  <2>2. CASE status[s] # "FREE"
    <3>1. r \in Page /\ t1 \in Page
      BY <1>1, <2>2 DEF VMInv, SlotOK, TopOK
    <3>2. CASE status[s] = "ALLOCATED"
      <4>1. l1 \in Page \cup {Null} /\ PartRows(mem, r, l1)
        BY <1>1, <3>2 DEF VMInv, SlotOK, AllocatedOK
      <4>2. l2 = Null /\ e = Invalid
        BY <1>1, <3>1, <4>1, PartTree
      <4>. QED  BY <1>2, <3>1, <4>2
    <3>3. CASE status[s] # "ALLOCATED"
      BY <1>1, <2>2, <3>1, <3>3 DEF VMInv, SlotOK, LiveOK, TypeOK
    <3>. QED  BY <3>2, <3>3
  <2>. QED  BY <2>1, <2>2
<1>7. ASSUME NEW t \in Trees, NEW i \in {"low", "top"}, mem.pte[t][i].pa \in Page
      PROVE  mem.pte[t][i].pa \in Owned
  <2>1. PICK o : o = <<i, t, mem.pte[t][i].pa>>
    OBVIOUS
  <2>2. o \in EntryRefs
    BY <2>1 DEF EntryRefs
  <2>3. o \in Owners /\ o[3] = mem.pte[t][i].pa
    BY <1>7, <2>1, <2>2 DEF Owners, Refs
  <2>. QED  BY <2>3 DEF Owned
<1>8. ASSUME NEW o \in SlotRefs(s), o[3] \in Page
      PROVE  o[3] \in Owned
  BY <1>8 DEF Owned, Owners, Refs
<1>9. r # Null => Tables(mem, r) \subseteq Trees
  BY <1>1 DEF Trees
<1>10. r # Null => r \in Trees
  BY <1>9 DEF Tables
<1>11. /\ t1 \in Page => t1 \in Below(mem, {r})
       /\ l1 \in Page => l1 \in Below(mem, {r})
  BY <1>2, <1>3 DEF Below
<1>12. l2 \in Page => l2 \in Below(mem, Below(mem, {r}))
  BY <1>2, <1>3, <1>6, <1>11 DEF Below
<1>13. /\ t1 \in Page => r # Null /\ t1 \in Trees
       /\ l1 \in Page => r # Null /\ l1 \in Trees
       /\ l2 \in Page => l2 \in Trees
  BY <1>3, <1>6, <1>9, <1>11, <1>12 DEF Tables
<1>14. CASE x \in {"trapframe", "root", "kstack", "argbuf", "newimage"}
  <2>1. /\ <<"trapframe", s, trapframe[s]>> \in SlotRefs(s)
        /\ <<"pagetable", s, pagetable[s]>> \in SlotRefs(s)
        /\ <<"kstack", s, kstack[s]>> \in SlotRefs(s)
        /\ <<"argbuf", s, argbuf[s]>> \in SlotRefs(s)
        /\ <<"newimage", s, newimage[s]>> \in SlotRefs(s)
    BY DEF SlotRefs
  <2>2. \A k, q : <<k, s, q>>[3] = q
    OBVIOUS
  <2>3. \A k, q : <<k, s, q>> \in SlotRefs(s) /\ q \in Page => q \in Owned
    BY <1>8, <2>2
  <2>. QED  BY <1>14, <2>1, <2>3, HeldIs
<1>15. CASE x = "t1"
  BY <1>1, <1>3, <1>7, <1>10, <1>15, HeldIs
<1>16. CASE x = "t2"
  BY <1>1, <1>3, <1>6, <1>7, <1>13, <1>16, HeldIs
<1>17. CASE x = "l1"
  BY <1>1, <1>3, <1>7, <1>10, <1>17, HeldIs
<1>18. CASE x = "l2"
  BY <1>1, <1>3, <1>6, <1>7, <1>13, <1>18, HeldIs
<1>19. CASE x = "image"
  BY <1>1, <1>3, <1>6, <1>7, <1>13, <1>19, HeldIs
<1>. QED  BY <1>14, <1>15, <1>16, <1>17, <1>18, <1>19 DEF Role

\* The pages that are not lost, in terms of references.
LEMMA KeptIs == VMInv => \A q \in Page : Kept(q) <=> q \notin Lost
<1>. SUFFICES ASSUME VMInv, NEW q \in Page
              PROVE  Kept(q) <=> q \notin Lost
  OBVIOUS
<1>1. ASSUME NEW d \in pipes, d \in Page  PROVE  d \in Owned
  <2>1. <<"pipe", d, d>> \in Owners
    BY <1>1 DEF Owners, Refs, PipeRefs
  <2>2. <<"pipe", d, d>>[3] = d
    OBVIOUS
  <2>. QED  BY <2>1, <2>2 DEF Owned
<1>2. ASSUME NEW o \in Owners
      PROVE  o[3] \in pipes \/ \E s \in Slots, x \in Role : Held(s, x) = o[3]
  BY OwnersAre
<1>3. q \in Owned <=> q \in pipes \/ \E s \in Slots, x \in Role : Held(s, x) = q
  BY <1>1, <1>2, HeldIsOwned DEF Owned
<1>. QED  BY <1>3 DEF Kept, Lost

\* The pages a step loses.
LEMMA LossIs ==
  ASSUME VMInv, VMInv', NEW Q, Loses(Q)
  PROVE  Lost' \ (Lost \cup Stale) \subseteq Q
<1>0. (VMInv => \A q \in Page : Kept(q) <=> q \notin Lost)'
  BY KeptIs, PTL
<1>1. ASSUME NEW q \in Page, q \in Lost', q \notin Lost, q \notin Stale
      PROVE  q \in Q
  <2>1. Kept(q)
    BY <1>1, KeptIs
  <2>2. ~ Kept(q)'
    BY <1>0, <1>1
  <2>. QED  BY <1>1, <2>1, <2>2 DEF Loses
<1>2. Lost' \subseteq Page
  BY DEF Lost
<1>. QED  BY <1>1, <1>2

\* A fork that fails loses at most two pages, whatever the number of slots and
\* pages, and wherever memory runs out; no other system call loses any.
THEOREM LossesAreForks == Spec => OnlyFailedForksLose
<1>1. ASSUME VMInv, VMInv', LossStep
      PROVE  LET new == Lost' \ (Lost \cup Stale)
             IN  \/ new = {}
                 \/ /\ \E p \in Slots : Fork(p)
                    /\ ~ \E c \in Slots : status[c] = "FREE" /\ status'[c] = "LIVE"
                    /\ Cardinality(new) <= 2
  <2>1. PICK new : new = Lost' \ (Lost \cup Stale)
    OBVIOUS
  <2>2. CASE Loses({})
    BY <1>1, <2>1, <2>2, LossIs
  <2>3. ASSUME NEW x, NEW y, Loses({x, y})
        PROVE  Cardinality(new) <= 2
    <3>1. new \subseteq {x} \cup {y}
      BY <1>1, <2>1, <2>3, LossIs
    <3>2. IsFiniteSet({x}) /\ Cardinality({x}) = 1
      BY FS_Singleton
    <3>3. /\ IsFiniteSet({x} \cup {y}) /\ Cardinality({x} \cup {y}) <= 2
      BY <3>2, FS_AddElement
    <3>4. /\ IsFiniteSet(new) /\ Cardinality(new) <= Cardinality({x} \cup {y})
      BY <3>1, <3>3, FS_Subset
    <3>5. Cardinality(new) \in Nat /\ Cardinality({x} \cup {y}) \in Nat
      BY <3>3, <3>4, FS_CardinalityType
    <3>. QED  BY <3>3, <3>4, <3>5
  <2>. QED  BY <1>1, <2>1, <2>2, <2>3 DEF LossStep
<1>2. VMInv /\ [Next]_vars => VMInv' /\ LossStep
  BY NextKeeps, StutterKeeps
<1>3. VMInv /\ [Next]_vars =>
        [LET new == Lost' \ (Lost \cup Stale)
         IN  \/ new = {}
             \/ /\ \E p \in Slots : Fork(p)
                /\ ~ \E c \in Slots : status[c] = "FREE" /\ status'[c] = "LIVE"
                /\ Cardinality(new) <= 2]_vars
  BY <1>1, <1>2
<1>. QED  BY <1>3, Inductive, PTL DEF Spec, OnlyFailedForksLose

\* Whatever forks, execs, exits, waits and pipes run and wherever memory runs
\* out, no page has two owners or is free while it has one.
THEOREM PagesHaveOneOwner == Spec => []OneOwner
<1>. QED  BY OneOwnerHolds, Inductive, PTL

\* A step on images is one of AbsImages.
LEMMA StepRefines ==
  ASSUME VMInv, ImageStep
  PROVE  AbstractImages!Next \/ Images' = Images
<1>1. PICK new : new = Images'
  OBVIOUS
<1>2. /\ Images = [s \in Slots |-> Image(s)]
      /\ new = [s \in Slots |-> Image(s)']
  BY <1>1 DEF Images
<1>3. CASE ImagesKept
  BY <1>1, <1>2, <1>3 DEF ImagesKept
<1>4. ASSUME NEW p, NEW c, ImageForks(p, c)
      PROVE  AbstractImages!Next
  <2>1. new = [Images EXCEPT ![c] = Images[p]]
    BY <1>2, <1>4 DEF ImageForks
  <2>2. AbstractImages!Fork(p, c)
    BY <1>1, <1>2, <1>4, <2>1
       DEF AbstractImages!Fork, AbstractImages!Exists, ImageForks, Images
  <2>. QED  BY <1>4, <2>2 DEF AbstractImages!Next, ImageForks
<1>5. ASSUME NEW p, NEW c, ImageGoes(p, c)
      PROVE  AbstractImages!Next
  <2>1. new = [Images EXCEPT ![c] = NoImage]
    BY <1>2, <1>5 DEF ImageGoes
  <2>2. AbstractImages!Reap(p, c)
    BY <1>1, <1>2, <1>5, <2>1
       DEF AbstractImages!Reap, AbstractImages!Exists, ImageGoes, Images
  <2>. QED  BY <1>5, <2>2 DEF AbstractImages!Next, ImageGoes
<1>6. ASSUME NEW p, ImageChanges(p)
      PROVE  AbstractImages!Next
  <2>1. PICK v \in Content : v = Image(p)'
    BY <1>6 DEF ImageChanges
  <2>2. new = [Images EXCEPT ![p] = v]
    BY <1>2, <1>6, <2>1 DEF ImageChanges
  <2>3. AbstractImages!Change(p, v)
    BY <1>1, <1>2, <1>6, <2>2
       DEF AbstractImages!Change, AbstractImages!Exists, ImageChanges, Images
  <2>. QED  BY <1>6, <2>3 DEF AbstractImages!Next, ImageChanges
<1>. QED  BY <1>3, <1>4, <1>5, <1>6 DEF ImageStep

\* Each program has its image to itself, for any number of processes, pages
\* and pipes: fork copies it, exec replaces it whatever fails, and no step of
\* another process changes it.
THEOREM ImagesRefinement == Spec => ImplementsAbsImages
<1>1. Init => AbstractImages!Init
  BY InitOK DEF AbstractImages!Init, Images
<1>2. VMInv /\ [Next]_vars => [AbstractImages!Next]_Images
  BY NextKeeps, StutterKeeps, StepRefines
<1>3. VMInv /\ [Next]_vars => [AbstractImages!Next]_[s \in Slots |-> Image(s)]
  BY <1>2 DEF Images
<1>. QED
  BY <1>1, <1>3, Inductive, PTL
     DEF Spec, ImplementsAbsImages, AbstractImages!Spec

-------------------------------------------------------------------------
(* The functions of UserMem.                                             *)

\* What user memory can be: the values of its bytes are of no interest.
UserMemory(B) == [pte : PTEs, byte : [VA -> B]]

LEMMA Sizes ==
  /\ PGSIZE \in Nat /\ PGSIZE > 0 /\ PTRSIZE \in Nat /\ PTRSIZE > 0
  /\ ByteMod \in Nat /\ ByteMod > 0
  /\ MAXVA \in Nat /\ MAXVA > 0 /\ MAXVA % PGSIZE = 0
  /\ VAMod \in Nat /\ MAXVA + PGSIZE <= VAMod
<1>1. /\ PTRSIZE \in Nat \ {0} /\ ByteMod \in Nat \ {0} /\ PGSIZE \in Nat \ {0}
      /\ MAXVA \in Nat \ {0} /\ MAXVA % PGSIZE = 0 /\ MAXVA + PGSIZE <= VAMod
  BY SizeAssumption, Zenon
<1>2. VAMod \in Nat
  BY <1>1, PowerIsNat DEF VAMod
<1>. QED  BY <1>1, <1>2

\* Multiples of the page size that are less than a page apart are equal.
LEMMA SamePage ==
  ASSUME NEW i \in Int, NEW j \in Int
  PROVE  /\ PGSIZE * i \in Int /\ PGSIZE * j \in Int
         /\ PGSIZE * i - PGSIZE * j < PGSIZE /\ PGSIZE * j - PGSIZE * i < PGSIZE
              => i = j
         /\ PGSIZE * i < PGSIZE * j => PGSIZE * i + PGSIZE <= PGSIZE * j
<1>. PICK p \in Nat \ {0} : p = PGSIZE
  BY Sizes
<1>1. p * (i - j) = p * i - p * j /\ p * i \in Int /\ p * j \in Int
  OBVIOUS
<1>2. i - j \in Int /\ (i - j >= 1 \/ i - j <= -1 \/ i - j = 0)
  OBVIOUS
<1>3. /\ i - j >= 1 => p * i - p * j >= p
      /\ i - j <= -1 => p * i - p * j <= -p
      /\ i - j = 0 => p * i - p * j = 0
  BY <1>1, <1>2, Multiples
<1>. QED  BY <1>1, <1>2, <1>3

\* The part of a range that lies in the page where the range begins.
LEMMA ChunkInPage ==
  ASSUME NEW va \in Nat, NEW len \in Nat, len # 0
  PROVE  LET n == Less(InPage(va), len)
         IN  /\ n \in 1 .. len
             /\ NextPage(va) \in Nat
             /\ n < len => NextPage(va) = va + n
             /\ \A a \in va .. va + n - 1 : a \div PGSIZE = va \div PGSIZE
             /\ va < MAXVA => va + n <= MAXVA
<1>. PICK n : n = Less(InPage(va), len)
  OBVIOUS
<1>0. \A a \in Int : \E j \in Int, r \in 0 .. PGSIZE - 1 :
        /\ a = PGSIZE * j + r /\ j = a \div PGSIZE /\ r = a % PGSIZE
        /\ PGSIZE * j \in Int
  BY Sizes, DivMod, SamePage
<1>1. PICK k \in Int, o \in 0 .. PGSIZE - 1 :
        /\ va = PGSIZE * k + o /\ k = va \div PGSIZE /\ o = va % PGSIZE
        /\ PGSIZE * k \in Int
  BY <1>0
<1>2. n \in 1 .. len /\ o + n <= PGSIZE /\ (n < len => n = PGSIZE - o)
  BY <1>1, Sizes DEF Less, InPage
<1>3. NextPage(va) = PGSIZE * k + PGSIZE /\ NextPage(va) = va + PGSIZE - o
  <2>1. NextPage(va) = va - o + PGSIZE
    BY <1>1, Sizes DEF NextPage, AlignDown
  <2>. QED  BY <1>1, <2>1, Sizes
<1>4. ASSUME NEW a \in va .. va + n - 1
      PROVE  a \div PGSIZE = k
  <2>1. PICK j \in Int, r \in 0 .. PGSIZE - 1 :
          a = PGSIZE * j + r /\ j = a \div PGSIZE /\ PGSIZE * j \in Int
    BY <1>0, <1>2
  <2>2. a - va \in 0 .. n - 1
    BY <1>2
  <2>3. PGSIZE * j - PGSIZE * k < PGSIZE /\ PGSIZE * k - PGSIZE * j < PGSIZE
    BY <1>1, <1>2, <2>1, <2>2, Sizes
  <2>. QED  BY <2>1, <2>3, SamePage
<1>5. ASSUME va < MAXVA
      PROVE  va + n <= MAXVA
  <2>1. PICK q \in Int : MAXVA = PGSIZE * q
    <3>1. MAXVA \div PGSIZE \in Int /\ MAXVA = PGSIZE * (MAXVA \div PGSIZE) + (MAXVA % PGSIZE)
      BY Sizes, DivMod
    <3>2. PGSIZE * (MAXVA \div PGSIZE) \in Int
      BY <3>1, SamePage
    <3>3. MAXVA = PGSIZE * (MAXVA \div PGSIZE)
      BY <3>1, <3>2, Sizes
    <3>. QED  BY <3>1, <3>3
  <2>2. PGSIZE * k < PGSIZE * q
    BY <1>1, <1>5, <2>1, Sizes
  <2>3. PGSIZE * k + PGSIZE <= PGSIZE * q
    BY <2>2, SamePage
  <2>. QED  BY <1>1, <1>2, <2>1, <2>3, Sizes
<1>6. NextPage(va) \in Nat /\ (n < len => NextPage(va) = va + n)
  BY <1>1, <1>2, <1>3, Sizes
<1>. QED  BY <1>1, <1>2, <1>4, <1>5, <1>6

-------------------------------------------------------------------------
LEMMA BytesAreSeq ==
  ASSUME NEW B, NEW m \in UserMemory(B), NEW va \in Nat, NEW n \in Nat,
         n > 0 => va + n <= MAXVA
  PROVE  Bytes(m, va, n) \in Seq(B) /\ Len(Bytes(m, va, n)) = n
<1>1. Bytes(m, va, n) \in [1 .. n -> B]
  BY Sizes DEF Bytes, UserMemory, VA
<1>. QED  BY <1>1, FunctionIsSeq

\* The bytes of a range after another.
LEMMA BytesConcat ==
  ASSUME NEW B, NEW m \in UserMemory(B), NEW va \in Nat, NEW k \in Nat,
         NEW n \in Nat, k + n > 0 => va + k + n <= MAXVA
  PROVE  Bytes(m, va, k) \o Bytes(m, va + k, n) = Bytes(m, va, k + n)
<1>2. /\ Bytes(m, va, k) \in Seq(B) /\ Len(Bytes(m, va, k)) = k
      /\ Bytes(m, va + k, n) \in Seq(B) /\ Len(Bytes(m, va + k, n)) = n
      /\ Bytes(m, va, k + n) \in Seq(B) /\ Len(Bytes(m, va, k + n)) = k + n
  <2>1. /\ va + k \in Nat /\ k + n \in Nat
        /\ k > 0 => va + k <= MAXVA
        /\ n > 0 => (va + k) + n <= MAXVA
        /\ k + n > 0 => va + (k + n) <= MAXVA
    BY Sizes
  <2>. QED  BY <2>1, BytesAreSeq
<1>. DEFINE c == Bytes(m, va, k) \o Bytes(m, va + k, n)
<1>3. /\ c \in Seq(B) /\ Len(c) = k + n
      /\ \A i \in 1 .. k + n : c[i] = IF i <= k THEN Bytes(m, va, k)[i]
                                        ELSE Bytes(m, va + k, n)[i - k]
  <2>. DEFINE s == Bytes(m, va, k)
              t == Bytes(m, va + k, n)
  <2>1. /\ s \in Seq(B) /\ Len(s) = k /\ t \in Seq(B) /\ Len(t) = n
    BY <1>2
  <2>. HIDE DEF s, t
  <2>2. /\ s \o t \in Seq(B) /\ Len(s \o t) = k + n
        /\ \A i \in 1 .. k + n : (s \o t)[i] = IF i <= k THEN s[i] ELSE t[i - k]
    BY <2>1, ConcatProperties
  <2>. QED  BY <2>2 DEF s, t
<1>. HIDE DEF c
<1>4. ASSUME NEW i \in 1 .. k + n
      PROVE  c[i] = Bytes(m, va, k + n)[i]
  <2>1. Bytes(m, va, k + n)[i] = m.byte[va + i - 1]
    BY DEF Bytes
  <2>2. CASE i <= k
    <3>1. i \in 1 .. k
      BY <2>2
    <3>2. Bytes(m, va, k)[i] = m.byte[va + i - 1]
      BY <3>1 DEF Bytes
    <3>. QED  BY <1>3, <2>1, <2>2, <3>2
  <2>3. CASE ~ (i <= k)
    <3>1. i - k \in 1 .. n /\ va + k + (i - k) - 1 = va + i - 1
      BY <2>3
    <3>2. Bytes(m, va + k, n)[i - k] = m.byte[va + k + (i - k) - 1]
      BY <3>1 DEF Bytes
    <3>. QED  BY <1>3, <2>1, <2>3, <3>1, <3>2
  <2>. QED  BY <2>2, <2>3
<1>5. c = Bytes(m, va, k + n)
  BY <1>2, <1>3, <1>4, SeqEqual
<1>. QED  BY <1>2, <1>5 DEF c

\* A chunk of a range lies in the page that walkaddr() was asked for.
LEMMA ChunkIsUsers ==
  ASSUME NEW B, NEW m \in UserMemory(B), NEW va \in Nat, NEW len \in Nat, len # 0
  PROVE  /\ UserPage(m, va) <=> Readable(m, va)
         /\ UserPage(m, va) =>
              /\ va + Less(InPage(va), len) <= MAXVA
              /\ \A a \in va .. va + Less(InPage(va), len) - 1 : Readable(m, a)
              /\ m.pte[va \div PGSIZE] = "write" =>
                   \A a \in va .. va + Less(InPage(va), len) - 1 : Writable(m, a)
<1>. PICK n : n = Less(InPage(va), len)
  OBVIOUS
<1>1. /\ n \in 1 .. len
      /\ \A a \in va .. va + n - 1 : a \div PGSIZE = va \div PGSIZE
      /\ va < MAXVA => va + n <= MAXVA
  BY ChunkInPage
<1>2. UserPage(m, va) <=> Readable(m, va)
  BY Sizes DEF UserPage, Readable, VA
<1>3. ASSUME UserPage(m, va), NEW a \in va .. va + n - 1
      PROVE  /\ Readable(m, a)
             /\ m.pte[va \div PGSIZE] = "write" => Writable(m, a)
  <2>1. va < MAXVA /\ m.pte[va \div PGSIZE] \in {"read", "write"}
    BY <1>3 DEF UserPage
  <2>2. a \in VA
    BY <1>1, <2>1, Sizes DEF VA
  <2>. QED  BY <1>1, <2>1, <2>2 DEF Readable, Writable
<1>. QED  BY <1>1, <1>2, <1>3 DEF UserPage

CopyInState(B) == [ok : BOOLEAN, va : Nat, len : Nat, got : Seq(B)]

\* The rounds of copyin(): after the end, at a byte that it may not read, and
\* at one that it may.
LEMMA CopyInEnded ==
  ASSUME NEW m, NEW st, ~ st.ok \/ st.len = 0
  PROVE  CopyInRound(m, st) = st
BY DEF CopyInRound

LEMMA CopyInFails ==
  ASSUME NEW B, NEW m \in UserMemory(B), NEW st \in CopyInState(B),
         st.ok, st.len # 0, ~ Readable(m, st.va)
  PROVE  CopyInRound(m, st) = [st EXCEPT !.ok = FALSE]
<1>0. st.va \in Nat /\ st.len \in Nat
  BY DEF CopyInState
<1>1. ~ UserPage(m, st.va)
  BY <1>0, ChunkIsUsers
<1>. QED  BY <1>1 DEF CopyInRound

LEMMA CopyInMoves ==
  ASSUME NEW B, NEW m \in UserMemory(B), NEW st \in CopyInState(B),
         st.ok, st.len # 0, Readable(m, st.va)
  PROVE  \E n \in 1 .. st.len, next \in Nat :
           /\ CopyInRound(m, st) = [ok |-> TRUE, va |-> next, len |-> st.len - n,
                                    got |-> st.got \o Bytes(m, st.va, n)]
           /\ CopyInRound(m, st).ok = TRUE
           /\ CopyInRound(m, st).va = next
           /\ CopyInRound(m, st).len = st.len - n
           /\ CopyInRound(m, st).got = st.got \o Bytes(m, st.va, n)
           /\ n < st.len => next = st.va + n
           /\ st.va + n <= MAXVA
           /\ \A a \in st.va .. st.va + n - 1 : Readable(m, a)
<1>. PICK n : n = Less(InPage(st.va), st.len)
  OBVIOUS
<1>0. /\ st.va \in Nat /\ st.len \in Nat
  BY DEF CopyInState
<1>1. UserPage(m, st.va)
  BY <1>0, ChunkIsUsers
<1>2. /\ n \in 1 .. st.len /\ NextPage(st.va) \in Nat
      /\ n < st.len => NextPage(st.va) = st.va + n
  BY <1>0, ChunkInPage
<1>3. /\ st.va + n <= MAXVA
      /\ \A a \in st.va .. st.va + n - 1 : Readable(m, a)
  BY <1>0, <1>1, ChunkIsUsers
<1>4. CopyInRound(m, st) = [ok |-> TRUE, va |-> NextPage(st.va), len |-> st.len - n,
                            got |-> st.got \o Bytes(m, st.va, n)]
  BY <1>1 DEF CopyInRound
<1>5. PICK c : c = CopyInRound(m, st)
  OBVIOUS
<1>6. /\ c.ok = TRUE /\ c.va = NextPage(st.va) /\ c.len = st.len - n
      /\ c.got = st.got \o Bytes(m, st.va, n)
  <2>. PICK read, left, next :
         /\ read = st.got \o Bytes(m, st.va, n) /\ left = st.len - n
         /\ next = NextPage(st.va)
    OBVIOUS
  <2>1. c = [ok |-> TRUE, va |-> next, len |-> left, got |-> read]
    BY <1>4, <1>5
  <2>. QED  BY <2>1
<1>. QED  BY <1>2, <1>3, <1>4, <1>5, <1>6

LEMMA CopyInTyped ==
  ASSUME NEW B, NEW m \in UserMemory(B), NEW st \in CopyInState(B)
  PROVE  CopyInRound(m, st) \in CopyInState(B)
<1>0. /\ st.ok \in BOOLEAN /\ st.va \in Nat /\ st.len \in Nat /\ st.got \in Seq(B)
  BY DEF CopyInState
<1>1. CASE ~ st.ok \/ st.len = 0
  BY <1>1, CopyInEnded
<1>2. CASE st.ok /\ st.len # 0 /\ ~ Readable(m, st.va)
  <2>1. CopyInRound(m, st) = [st EXCEPT !.ok = FALSE]
    BY <1>2, CopyInFails
  <2>. QED  BY <2>1 DEF CopyInState
<1>3. CASE st.ok /\ st.len # 0 /\ Readable(m, st.va)
  <2>1. PICK n \in 1 .. st.len, next \in Nat :
          /\ CopyInRound(m, st) = [ok |-> TRUE, va |-> next, len |-> st.len - n,
                                   got |-> st.got \o Bytes(m, st.va, n)]
          /\ st.va + n <= MAXVA
    BY <1>3, CopyInMoves
  <2>2. Bytes(m, st.va, n) \in Seq(B)
    BY <1>0, <2>1, BytesAreSeq
  <2>3. st.got \o Bytes(m, st.va, n) \in Seq(B) /\ st.len - n \in Nat
    BY <1>0, <2>2, ConcatProperties
  <2>. QED  BY <2>1, <2>3 DEF CopyInState
<1>. QED  BY <1>0, <1>1, <1>2, <1>3

\* copyin() as a sequence of rounds.
LEMMA CopyInRecursion ==
  ASSUME NEW B, NEW m \in UserMemory(B), NEW x \in CopyInState(B)
  PROVE  \E g : g = [i \in Nat |-> IF i = 0 THEN x ELSE CopyInRound(m, g[i - 1])]
<1>. DEFINE S    == CopyInState(B)
            step == [st \in S |-> CopyInRound(m, st)]
<1>1. step \in [S -> S]
  BY CopyInTyped
<1>2. PICK g \in [Nat -> S] : g[0] = x /\ \A i \in Nat : g[i + 1] = step[g[i]]
  <2>. HIDE DEF step
  <2>. QED  BY <1>1, Recursion DEF HasRun
<1>3. ASSUME NEW i \in Nat, i # 0
      PROVE  g[i] = CopyInRound(m, g[i - 1])
  <2>1. i - 1 \in Nat /\ (i - 1) + 1 = i
    BY <1>3
  <2>2. g[i - 1] \in S
    BY <2>1
  <2>. QED  BY <1>2, <2>1, <2>2
<1>. QED  BY <1>2, <1>3

\* g is where copyin(m, va, len) is after each round.
AreCopyInRounds(m, va, len, g) ==
  /\ CopyIn(m, va, len) = g[len]
  /\ g[0] = [ok |-> TRUE, va |-> va, len |-> len, got |-> <<>>]
  /\ \A i \in Nat : g[i + 1] = CopyInRound(m, g[i])

LEMMA CopyInRuns ==
  ASSUME NEW B, NEW m \in UserMemory(B), NEW va \in Nat, NEW len \in Nat
  PROVE  \E g : AreCopyInRounds(m, va, len, g)
<1>. DEFINE x == [ok |-> TRUE, va |-> va, len |-> len, got |-> <<>>]
            h == CHOOSE h : h = [i \in Nat |-> IF i = 0 THEN x
                                               ELSE CopyInRound(m, h[i - 1])]
<1>1. x \in CopyInState(B)
  BY EmptySeq DEF CopyInState
<1>2. CopyIn(m, va, len) = h[len]
  BY DEF CopyIn, Rounds
<1>. HIDE DEF x
<1>3. \E g : g = [i \in Nat |-> IF i = 0 THEN x ELSE CopyInRound(m, g[i - 1])]
  BY <1>1, CopyInRecursion
<1>4. h = [i \in Nat |-> IF i = 0 THEN x ELSE CopyInRound(m, h[i - 1])]
  BY <1>3, Zenon
<1>. HIDE DEF h
<1>5. h[0] = x /\ \A i \in Nat : h[i + 1] = CopyInRound(m, h[i])
  BY <1>4
<1>6. AreCopyInRounds(m, va, len, h)
  BY <1>2, <1>5 DEF x, AreCopyInRounds
<1>. QED  BY <1>6

\* What holds after some rounds of copyin(m, va, len): the first k bytes are
\* there, and if it has failed the next cannot be read.
CopiedIn(m, va, len, st) ==
  LET k == len - st.len
  IN /\ k \in 0 .. len
     /\ k > 0 => va + k <= MAXVA
     /\ \A a \in va .. va + k - 1 : Readable(m, a)
     /\ st.got = Bytes(m, va, k)
     /\ st.len # 0 => st.va = va + k
     /\ ~ st.ok => st.len # 0 /\ ~ Readable(m, va + k)

LEMMA CopyInRoundKeeps ==
  ASSUME NEW B, NEW m \in UserMemory(B), NEW va \in Nat, NEW len \in Nat,
         NEW st \in CopyInState(B), CopiedIn(m, va, len, st)
  PROVE  LET new == CopyInRound(m, st)
         IN  /\ new \in CopyInState(B)
             /\ CopiedIn(m, va, len, new)
             /\ ~ new.ok \/ new.len = 0 \/ new.len < st.len
<1>. PICK new : new = CopyInRound(m, st)
  OBVIOUS
<1>0. /\ st.ok \in BOOLEAN /\ st.va \in Nat /\ st.len \in Nat /\ st.got \in Seq(B)
      /\ new \in CopyInState(B)
  BY CopyInTyped DEF CopyInState
<1>1. CASE ~ st.ok \/ st.len = 0
  <2>1. new = st
    BY <1>1, CopyInEnded
  <2>. QED  BY <1>0, <1>1, <2>1
<1>2. CASE st.ok /\ st.len # 0 /\ ~ Readable(m, st.va)
  <2>1. new = [st EXCEPT !.ok = FALSE]
    BY <1>2, CopyInFails
  <2>2. /\ new.ok = FALSE /\ new.va = st.va /\ new.len = st.len
        /\ new.got = st.got
    BY <2>1 DEF CopyInState
  <2>. QED  BY <1>0, <1>2, <2>2 DEF CopiedIn
<1>3. CASE st.ok /\ st.len # 0 /\ Readable(m, st.va)
  <2>1. PICK k \in 0 .. len : k = len - st.len
    BY DEF CopiedIn
  <2>0. PICK n \in 1 .. st.len, next \in Nat :
          /\ new = [ok |-> TRUE, va |-> next, len |-> st.len - n,
                    got |-> st.got \o Bytes(m, st.va, n)]
          /\ new.ok = TRUE /\ new.va = next /\ new.len = st.len - n
          /\ new.got = st.got \o Bytes(m, st.va, n)
          /\ n < st.len => next = st.va + n
          /\ st.va + n <= MAXVA
          /\ \A a \in st.va .. st.va + n - 1 : Readable(m, a)
    BY <1>3, CopyInMoves
  <2>2. /\ new.ok = TRUE /\ new.len = st.len - n /\ new.va = next
        /\ new.got = st.got \o Bytes(m, st.va, n)
    BY <2>0
  <2>3. /\ st.va = va + k /\ st.got = Bytes(m, va, k)
        /\ \A a \in va .. va + k - 1 : Readable(m, a)
    BY <1>3, <2>1 DEF CopiedIn
  <2>4. new.got = Bytes(m, va, k + n)
    <3>1. va + k + n <= MAXVA
      BY <2>0, <2>3
    <3>. QED  BY <1>0, <2>2, <2>3, <3>1, BytesConcat
  <2>5. len - new.len = k + n /\ k + n \in 0 .. len
    <3>1. st.len = len - k
      BY <1>0, <2>1
    <3>. QED  BY <2>2, <3>1
  <2>6. \A a \in va .. va + (k + n) - 1 : Readable(m, a)
    BY <1>0, <2>0, <2>3
  <2>7. new.len # 0 => new.va = va + (k + n)
    BY <1>0, <2>0, <2>2, <2>3
  <2>8. CopiedIn(m, va, len, new)
    <3>1. va + (k + n) <= MAXVA /\ new.ok
      BY <2>0, <2>2, <2>3
    <3>. QED  BY <2>4, <2>5, <2>6, <2>7, <3>1 DEF CopiedIn
  <2>. QED  BY <1>0, <2>2, <2>8
<1>. QED  BY <1>0, <1>1, <1>2, <1>3

\* copyin() gets exactly the bytes of the range, or fails on one that is not
\* the program's to read.
LEMMA CopyInIsExact ==
  ASSUME NEW B, NEW m \in UserMemory(B), NEW va \in Nat, NEW len \in Nat
  PROVE  CopyInAgrees(m, va, len)
<1>. PICK g : AreCopyInRounds(m, va, len, g)
  BY CopyInRuns
<1>1. /\ CopyIn(m, va, len) = g[len]
      /\ g[0] = [ok |-> TRUE, va |-> va, len |-> len, got |-> <<>>]
      /\ \A i \in Nat : g[i + 1] = CopyInRound(m, g[i])
  BY DEF AreCopyInRounds
<1>. DEFINE R == {i \in Nat : /\ g[i] \in CopyInState(B)
                              /\ CopiedIn(m, va, len, g[i])
                              /\ g[i].ok => g[i].len = 0 \/ g[i].len <= len - i}
<1>2. 0 \in R
  <2>1. g[0] \in CopyInState(B)
    BY <1>1, EmptySeq DEF CopyInState
  <2>2. g[0].ok = TRUE /\ g[0].va = va /\ g[0].len = len /\ g[0].got = <<>>
    BY <1>1
  <2>3. Bytes(m, va, 0) = <<>>
    <3>1. Bytes(m, va, 0) \in Seq(B) /\ Len(Bytes(m, va, 0)) = 0
      BY BytesAreSeq
    <3>. QED  BY <3>1, EmptySeq
  <2>4. CopiedIn(m, va, len, g[0])
    BY <2>2, <2>3 DEF CopiedIn
  <2>. QED  BY <2>1, <2>2, <2>4
<1>3. ASSUME NEW i \in Nat, i \in R
      PROVE  i + 1 \in R
  <2>1. g[i] \in CopyInState(B) /\ CopiedIn(m, va, len, g[i])
    BY <1>3
  <2>2. /\ g[i + 1] \in CopyInState(B) /\ CopiedIn(m, va, len, g[i + 1])
        /\ ~ g[i + 1].ok \/ g[i + 1].len = 0 \/ g[i + 1].len < g[i].len
    BY <1>1, <2>1, CopyInRoundKeeps
  <2>3. g[i + 1].ok => g[i].ok
    BY <1>1, <2>1, CopyInEnded
  <2>4. g[i].len \in Nat /\ g[i + 1].len \in Nat
    BY <2>1, <2>2 DEF CopyInState
  <2>. QED  BY <1>3, <2>2, <2>3, <2>4
<1>. HIDE DEF R
<1>4. len \in R
  BY <1>2, <1>3, Induction
<1>5. PICK c : c = CopyIn(m, va, len)
  OBVIOUS
<1>6. /\ c \in CopyInState(B) /\ CopiedIn(m, va, len, c)
      /\ c.ok => c.len = 0
  <2>1. /\ c \in CopyInState(B) /\ CopiedIn(m, va, len, c)
        /\ c.ok => c.len = 0 \/ c.len <= len - len
    BY <1>1, <1>4, <1>5 DEF R
  <2>2. c.len \in Nat
    BY <2>1 DEF CopyInState
  <2>. QED  BY <2>1, <2>2
<1>7. CASE c.ok
  BY <1>5, <1>6, <1>7 DEF CopyInAgrees, CopiedIn
<1>8. CASE ~ c.ok
  <2>1. PICK k \in 0 .. len : k = len - c.len
    BY <1>6 DEF CopiedIn
  <2>2. va + k \in va .. va + len - 1 /\ ~ Readable(m, va + k)
    BY <1>6, <1>8, <2>1 DEF CopiedIn, CopyInState
  <2>. QED  BY <1>5, <1>8, <2>2 DEF CopyInAgrees
<1>. QED  BY <1>7, <1>8

-------------------------------------------------------------------------
(* copyout().                                                              *)

\* The n elements of s that come after the first k.
LEMMA Chunk ==
  ASSUME NEW B, NEW s, NEW k \in Int, NEW n \in Nat,
         \A i \in k + 1 .. k + n : s[i] \in B
  PROVE  /\ SubSeq(s, k + 1, k + n) \in Seq(B)
         /\ Len(SubSeq(s, k + 1, k + n)) = n
         /\ \A i \in 1 .. n : SubSeq(s, k + 1, k + n)[i] = s[k + i]
<1>. PICK f \in Int, l \in Int : f = k + 1 /\ l = k + n
  OBVIOUS
<1>1. \A i \in f .. l : s[i] \in B
  OBVIOUS
<1>2. PICK t : t = SubSeq(s, f, l)
  OBVIOUS
<1>3. /\ t \in Seq(B) /\ Len(t) = IF f <= l THEN l - f + 1 ELSE 0
      /\ \A i \in 1 .. l - f + 1 : t[i] = s[f + i - 1]
  <2>1. /\ SubSeq(s, f, l) \in Seq(B)
        /\ Len(SubSeq(s, f, l)) = IF f <= l THEN l - f + 1 ELSE 0
        /\ \A i \in 1 .. l - f + 1 : SubSeq(s, f, l)[i] = s[f + i - 1]
    BY <1>1, SubSeqProperties
  <2>. QED  BY <1>2, <2>1
<1>4. Len(t) = n
  BY <1>3
<1>5. ASSUME NEW i \in 1 .. n
      PROVE  t[i] = s[k + i]
  <2>1. i \in 1 .. l - f + 1 /\ f + i - 1 = k + i
    OBVIOUS
  <2>. QED  BY <1>3, <2>1
<1>. QED  BY <1>2, <1>3, <1>4, <1>5

\* What is left of s after k elements, and the next n of it.
IsRest(B, s, k, n, src) ==
  /\ src \in Seq(B) /\ Len(src) = Len(s) - k
  /\ \A i \in 1 .. Len(s) - k : src[i] = s[k + i]
  /\ Prefix(src, n) \in Seq(B) /\ Len(Prefix(src, n)) = n
  /\ \A i \in 1 .. n : Prefix(src, n)[i] = s[k + i]
  /\ Beyond(src, n) = Beyond(s, k + n)

LEMMA RestOfSeq ==
  ASSUME NEW B, NEW s \in Seq(B), NEW k \in Nat, NEW n \in Nat,
         k + n <= Len(s)
  PROVE  IsRest(B, s, k, n, Beyond(s, k))
<1>. PICK src : src = Beyond(s, k)
  OBVIOUS
<1>. PICK l \in Nat : l = Len(s)
  BY LenProperties
<1>0. \A i \in 1 .. l : s[i] \in B
  BY ElementOfSeq
<1>1. src = SubSeq(s, k + 1, k + (l - k))
  BY DEF Beyond
<1>2. /\ src \in Seq(B) /\ Len(src) = l - k
      /\ \A i \in 1 .. l - k : src[i] = s[k + i]
  <2>0. l - k \in Nat /\ k \in Int
    OBVIOUS
  <2>. PICK r \in Nat : r = l - k
    BY <2>0
  <2>1. \A i \in k + 1 .. k + r : s[i] \in B
    BY <1>0, <2>0
  <2>2. /\ SubSeq(s, k + 1, k + r) \in Seq(B) /\ Len(SubSeq(s, k + 1, k + r)) = r
        /\ \A i \in 1 .. r : SubSeq(s, k + 1, k + r)[i] = s[k + i]
    BY <2>0, <2>1, Chunk
  <2>. QED  BY <1>1, <2>0, <2>2
<1>3. /\ Prefix(src, n) \in Seq(B) /\ Len(Prefix(src, n)) = n
      /\ \A i \in 1 .. n : Prefix(src, n)[i] = s[k + i]
  <2>1. \A i \in 1 .. n : src[0 + i] \in B /\ src[0 + i] = s[k + i]
    BY <1>0, <1>2
  <2>2. Prefix(src, n) = SubSeq(src, 0 + 1, 0 + n)
    BY DEF Prefix
  <2>3. /\ SubSeq(src, 0 + 1, 0 + n) \in Seq(B) /\ Len(SubSeq(src, 0 + 1, 0 + n)) = n
        /\ \A i \in 1 .. n : SubSeq(src, 0 + 1, 0 + n)[i] = src[0 + i]
    <3>1. 0 \in Int /\ n \in Nat /\ \A i \in 0 + 1 .. 0 + n : src[i] \in B
      BY <2>1
    <3>. QED  BY <3>1, Chunk
  <2>. QED  BY <2>1, <2>2, <2>3
<1>4. Beyond(src, n) = Beyond(s, k + n)
  <2>0. l - k - n \in Nat
    OBVIOUS
  <2>. PICK r \in Nat : r = l - k - n
    BY <2>0
  <2>. PICK t, u : t = Beyond(src, n) /\ u = Beyond(s, k + n)
    OBVIOUS
  <2>1. /\ t \in Seq(B) /\ Len(t) = r
        /\ \A i \in 1 .. r : t[i] = src[n + i]
    <3>1. \A i \in n + 1 .. n + r : src[i] \in B
      BY <1>0, <1>2
    <3>2. t = SubSeq(src, n + 1, n + r)
      BY <1>2 DEF Beyond
    <3>3. /\ SubSeq(src, n + 1, n + r) \in Seq(B) /\ Len(SubSeq(src, n + 1, n + r)) = r
          /\ \A i \in 1 .. r : SubSeq(src, n + 1, n + r)[i] = src[n + i]
      BY <3>1, Chunk
    <3>. QED  BY <3>2, <3>3
  <2>2. /\ u \in Seq(B) /\ Len(u) = r
        /\ \A i \in 1 .. r : u[i] = s[(k + n) + i]
    <3>. PICK x \in Int : x = k + n
      OBVIOUS
    <3>1. \A i \in x + 1 .. x + r : s[i] \in B
      BY <1>0
    <3>2. u = SubSeq(s, x + 1, x + r)
      BY DEF Beyond
    <3>3. /\ SubSeq(s, x + 1, x + r) \in Seq(B) /\ Len(SubSeq(s, x + 1, x + r)) = r
          /\ \A i \in 1 .. r : SubSeq(s, x + 1, x + r)[i] = s[x + i]
      BY <3>1, Chunk
    <3>. QED  BY <3>2, <3>3
  <2>3. ASSUME NEW i \in 1 .. r
        PROVE  t[i] = u[i]
    <3>1. n + i \in 1 .. l - k /\ k + (n + i) = (k + n) + i
      OBVIOUS
    <3>. QED  BY <1>2, <2>1, <2>2, <3>1
  <2>. QED  BY <2>1, <2>2, <2>3, SeqEqual
<1>. QED  BY <1>2, <1>3, <1>4 DEF IsRest

\* The bytes of m after the first k of s were written to va.
Written(m, va, s, k) ==
  [a \in VA |-> IF a \in va .. va + k - 1 THEN s[a - va + 1] ELSE m.byte[a]]

\* new is m with s at va.
IsOverwritten(B, m, va, s, new) ==
  /\ new \in UserMemory(B) /\ new.pte = m.pte
  /\ new.byte = Written(m, va, s, Len(s))

LEMMA OverwrittenIs ==
  ASSUME NEW B, NEW m \in UserMemory(B), NEW va \in Nat, NEW s \in Seq(B)
  PROVE  IsOverwritten(B, m, va, s, Overwritten(m, va, s))
<1>. PICK w : w = Written(m, va, s, Len(s))
  OBVIOUS
<1>1. w \in [VA -> B]
  <2>1. ASSUME NEW a \in VA, a \in va .. va + Len(s) - 1
        PROVE  s[a - va + 1] \in B
    <3>1. Len(s) \in Nat /\ a \in Int
      BY LenProperties DEF VA
    <3>2. a - va + 1 \in 1 .. Len(s)
      BY <2>1, <3>1
    <3>. QED  BY <3>2, ElementOfSeq
  <2>. QED  BY <2>1 DEF Written, UserMemory
<1>2. Overwritten(m, va, s) = [m EXCEPT !.byte = w]
  BY DEF Overwritten, Written
<1>. QED  BY <1>1, <1>2 DEF UserMemory, IsOverwritten

CopyOutState(B) == [ok : BOOLEAN, va : Nat, src : Seq(B), mem : UserMemory(B)]

\* The rounds of copyout(): after the end, at a byte that it may not write,
\* and at one that it may.
LEMMA CopyOutEnded ==
  ASSUME NEW st, ~ st.ok \/ st.src = <<>>
  PROVE  CopyOutRound(st) = st
BY DEF CopyOutRound

LEMMA CopyOutFails ==
  ASSUME NEW B, NEW st \in CopyOutState(B),
         st.ok, st.src # <<>>, ~ Writable(st.mem, st.va)
  PROVE  CopyOutRound(st) = [st EXCEPT !.ok = FALSE]
<1>1. ~ (UserPage(st.mem, st.va) /\ st.mem.pte[st.va \div PGSIZE] = "write")
  BY Sizes DEF CopyOutState, UserPage, Writable, VA
<1>. QED  BY <1>1 DEF CopyOutRound

LEMMA CopyOutMoves ==
  ASSUME NEW B, NEW st \in CopyOutState(B),
         st.ok, st.src # <<>>, Writable(st.mem, st.va)
  PROVE  \E n \in 1 .. Len(st.src) :
           LET new == CopyOutRound(st)
           IN /\ new \in CopyOutState(B)
              /\ new.ok
              /\ n < Len(st.src) => new.va = st.va + n
              /\ new.src = Beyond(st.src, n)
              /\ new.mem.pte = st.mem.pte
              /\ new.mem.byte = Written(st.mem, st.va, Prefix(st.src, n), n)
              /\ st.va + n <= MAXVA
              /\ \A a \in st.va .. st.va + n - 1 : Writable(st.mem, a)
<1>. PICK n : n = Less(InPage(st.va), Len(st.src))
  OBVIOUS
<1>0. /\ st.va \in Nat /\ st.src \in Seq(B) /\ st.mem \in UserMemory(B)
      /\ Len(st.src) \in Nat /\ Len(st.src) # 0
  BY EmptySeq, LenProperties DEF CopyOutState
<1>1. UserPage(st.mem, st.va) /\ st.mem.pte[st.va \div PGSIZE] = "write"
  BY Sizes DEF UserPage, Writable, VA
<1>2. /\ n \in 1 .. Len(st.src) /\ NextPage(st.va) \in Nat
      /\ n < Len(st.src) => NextPage(st.va) = st.va + n
  BY <1>0, ChunkInPage
<1>3. /\ st.va + n <= MAXVA
      /\ \A a \in st.va .. st.va + n - 1 : Writable(st.mem, a)
  BY <1>0, <1>1, ChunkIsUsers
<1>. PICK next, rest, chunk, after :
       /\ next = NextPage(st.va) /\ rest = Beyond(st.src, n)
       /\ chunk = Prefix(st.src, n) /\ after = Overwritten(st.mem, st.va, chunk)
  OBVIOUS
<1>4. CopyOutRound(st) = [ok |-> TRUE, va |-> next, src |-> rest, mem |-> after]
  BY <1>1 DEF CopyOutRound
<1>5. chunk \in Seq(B) /\ Len(chunk) = n /\ rest \in Seq(B)
  <2>1. st.src = Beyond(st.src, 0)
    BY <1>0, SubSeqFull DEF Beyond
  <2>2. n \in Nat /\ 0 + n <= Len(st.src) /\ n + 0 <= Len(st.src)
    BY <1>0, <1>2
  <2>5. IsRest(B, st.src, 0, n, Beyond(st.src, 0)) /\ IsRest(B, st.src, n, 0, rest)
    BY <1>0, <2>2, RestOfSeq
  <2>3. chunk \in Seq(B) /\ Len(chunk) = n
    BY <2>1, <2>5 DEF IsRest
  <2>4. rest \in Seq(B)
    BY <2>5 DEF IsRest
  <2>. QED  BY <2>3, <2>4
<1>6. /\ after \in UserMemory(B) /\ after.pte = st.mem.pte
      /\ after.byte = Written(st.mem, st.va, chunk, n)
  <2>. PICK m, va : m = st.mem /\ va = st.va
    OBVIOUS
  <2>0. m \in UserMemory(B) /\ va \in Nat /\ chunk \in Seq(B)
    BY <1>0, <1>5
  <2>1. IsOverwritten(B, m, va, chunk, after)
    BY <2>0, OverwrittenIs
  <2>. QED  BY <1>5, <2>1 DEF IsOverwritten
<1>7. PICK new : new = CopyOutRound(st)
  OBVIOUS
<1>8. new = [ok |-> TRUE, va |-> next, src |-> rest, mem |-> after]
  BY <1>4, <1>7
<1>9. new.ok = TRUE /\ new.va = next /\ new.src = rest /\ new.mem = after
  BY <1>8
<1>10. new \in CopyOutState(B)
  BY <1>2, <1>5, <1>6, <1>8 DEF CopyOutState
<1>. QED  BY <1>2, <1>3, <1>6, <1>7, <1>9, <1>10

LEMMA CopyOutTyped ==
  ASSUME NEW B, NEW st \in CopyOutState(B)
  PROVE  CopyOutRound(st) \in CopyOutState(B)
<1>1. CASE ~ st.ok \/ st.src = <<>>
  BY <1>1, CopyOutEnded
<1>2. CASE st.ok /\ st.src # <<>> /\ ~ Writable(st.mem, st.va)
  <2>1. CopyOutRound(st) = [st EXCEPT !.ok = FALSE]
    BY <1>2, CopyOutFails
  <2>. QED  BY <2>1 DEF CopyOutState
<1>3. CASE st.ok /\ st.src # <<>> /\ Writable(st.mem, st.va)
  BY <1>3, CopyOutMoves
<1>. QED  BY <1>1, <1>2, <1>3

LEMMA CopyOutRecursion ==
  ASSUME NEW B, NEW x \in CopyOutState(B)
  PROVE  \E g : g = [i \in Nat |-> IF i = 0 THEN x ELSE CopyOutRound(g[i - 1])]
<1>. DEFINE S    == CopyOutState(B)
            step == [st \in S |-> CopyOutRound(st)]
<1>1. step \in [S -> S]
  BY CopyOutTyped
<1>2. PICK g \in [Nat -> S] : g[0] = x /\ \A i \in Nat : g[i + 1] = step[g[i]]
  <2>1. HasRun(S, x, step)
    <3>. HIDE DEF step
    <3>. QED  BY <1>1, Recursion
  <2>. HIDE DEF S, step
  <2>. QED  BY <2>1 DEF HasRun
<1>3. ASSUME NEW i \in Nat, i # 0
      PROVE  g[i] = CopyOutRound(g[i - 1])
  <2>1. i - 1 \in Nat /\ (i - 1) + 1 = i
    BY <1>3
  <2>2. g[i - 1] \in S
    BY <2>1
  <2>. QED  BY <1>2, <2>1, <2>2
<1>. QED  BY <1>2, <1>3

\* g holds the states of copyout(m, va, s), round by round.
IsCopyOutRun(m, va, s, g) ==
  /\ CopyOut(m, va, s) = g[Len(s)]
  /\ g[0] = [ok |-> TRUE, va |-> va, src |-> s, mem |-> m]
  /\ \A i \in Nat : g[i + 1] = CopyOutRound(g[i])

LEMMA CopyOutRuns ==
  ASSUME NEW B, NEW m \in UserMemory(B), NEW va \in Nat, NEW s \in Seq(B)
  PROVE  \E g : IsCopyOutRun(m, va, s, g)
<1>. DEFINE x == [ok |-> TRUE, va |-> va, src |-> s, mem |-> m]
            h == CHOOSE h : h = [i \in Nat |-> IF i = 0 THEN x
                                               ELSE CopyOutRound(h[i - 1])]
<1>1. x \in CopyOutState(B)
  BY DEF CopyOutState
<1>2. CopyOut(m, va, s) = h[Len(s)]
  BY DEF CopyOut, Rounds
<1>. HIDE DEF x
<1>3. \E g : g = [i \in Nat |-> IF i = 0 THEN x ELSE CopyOutRound(g[i - 1])]
  BY <1>1, CopyOutRecursion
<1>4. h = [i \in Nat |-> IF i = 0 THEN x ELSE CopyOutRound(h[i - 1])]
  BY <1>3, Zenon
<1>. HIDE DEF h
<1>5. h[0] = x /\ \A i \in Nat : h[i + 1] = CopyOutRound(h[i])
  BY <1>4
<1>6. IsCopyOutRun(m, va, s, h)
  BY <1>2, <1>5 DEF x, IsCopyOutRun
<1>. QED  BY <1>6

\* What holds after some rounds of copyout(m, va, s): the first k bytes were
\* written and nothing else was, and if it has failed the next cannot be
\* written.
CopiedOut(m, va, s, st) ==
  LET k == Len(s) - Len(st.src)
  IN /\ k \in 0 .. Len(s)
     /\ k > 0 => va + k <= MAXVA
     /\ \A a \in va .. va + k - 1 : Writable(m, a)
     /\ st.src = Beyond(s, k)
     /\ st.mem.pte = m.pte
     /\ st.mem.byte = Written(m, va, s, k)
     /\ Len(st.src) # 0 => st.va = va + k
     /\ ~ st.ok => Len(st.src) # 0 /\ ~ Writable(m, va + k)

LEMMA CopyOutRoundKeeps ==
  ASSUME NEW B, NEW m \in UserMemory(B), NEW va \in Nat, NEW s, s \in Seq(B),
         NEW st \in CopyOutState(B), CopiedOut(m, va, s, st)
  PROVE  LET new == CopyOutRound(st)
         IN  /\ new \in CopyOutState(B)
             /\ CopiedOut(m, va, s, new)
             /\ ~ new.ok \/ Len(new.src) = 0 \/ Len(new.src) < Len(st.src)
<1>. PICK new : new = CopyOutRound(st)
  OBVIOUS
<1>l. PICK l \in Nat : l = Len(s)
  BY LenProperties
<1>0. /\ st.ok \in BOOLEAN /\ st.va \in Nat /\ st.src \in Seq(B)
      /\ st.mem \in UserMemory(B) /\ Len(st.src) \in Nat
      /\ Len(st.src) = 0 <=> st.src = <<>>
      /\ new \in CopyOutState(B)
  BY CopyOutTyped, LenProperties, EmptySeq DEF CopyOutState
<1>4. \A a : Writable(st.mem, a) <=> Writable(m, a)
  BY DEF CopiedOut, Writable
<1>1. CASE ~ st.ok \/ st.src = <<>>
  <2>1. new = st
    BY <1>1, CopyOutEnded
  <2>. QED  BY <1>0, <1>1, <2>1
<1>2. CASE st.ok /\ st.src # <<>> /\ ~ Writable(st.mem, st.va)
  <2>1. new = [st EXCEPT !.ok = FALSE]
    BY <1>2, CopyOutFails
  <2>2. /\ new.ok = FALSE /\ new.va = st.va /\ new.src = st.src
        /\ new.mem = st.mem
    BY <2>1 DEF CopyOutState
  <2>. QED  BY <1>0, <1>2, <1>4, <2>2 DEF CopiedOut
<1>3. CASE st.ok /\ st.src # <<>> /\ Writable(st.mem, st.va)
  <2>r. PICK r \in Nat : r = Len(st.src)
    BY <1>0
  <2>1. PICK k \in 0 .. l : k = l - r /\ r = l - k
    BY <1>l, <2>r DEF CopiedOut
  <2>2. PICK n \in 1 .. r :
          /\ new.ok
          /\ n < r => new.va = st.va + n
          /\ new.src = Beyond(st.src, n)
          /\ new.mem.pte = st.mem.pte
          /\ new.mem.byte = Written(st.mem, st.va, Prefix(st.src, n), n)
          /\ st.va + n <= MAXVA
          /\ \A a \in st.va .. st.va + n - 1 : Writable(st.mem, a)
    BY <1>3, <2>r, CopyOutMoves
  <2>3. /\ st.va = va + k /\ st.src = Beyond(s, k)
        /\ st.mem.pte = m.pte /\ st.mem.byte = Written(m, va, s, k)
        /\ \A a \in va .. va + k - 1 : Writable(m, a)
    BY <1>0, <1>3, <1>l, <2>r, <2>1 DEF CopiedOut
  <2>4. n \in 0 .. l - k /\ k + n \in 0 .. l
    BY <2>1
  <2>5. PICK src : src = st.src
    OBVIOUS
  <2>6. /\ \A i \in 1 .. n : Prefix(src, n)[i] = s[k + i]
        /\ Beyond(src, n) = Beyond(s, k + n)
    <3>1. k \in Nat /\ n \in Nat /\ k + n <= Len(s) /\ src = Beyond(s, k)
      BY <1>l, <2>3, <2>4, <2>5
    <3>2. IsRest(B, s, k, n, Beyond(s, k))
      BY <3>1, RestOfSeq
    <3>. QED  BY <3>1, <3>2 DEF IsRest
  <2>7. new.src = Beyond(s, k + n) /\ Len(new.src) = l - (k + n)
    <3>1. PICK j : j = k + n
      OBVIOUS
    <3>2. j \in Nat /\ j + 0 <= Len(s)
      BY <1>l, <2>4, <3>1
    <3>3. IsRest(B, s, j, 0, Beyond(s, j))
      BY <3>2, RestOfSeq
    <3>4. Len(Beyond(s, j)) = Len(s) - j
      BY <3>3 DEF IsRest
    <3>. QED  BY <1>l, <2>2, <2>5, <2>6, <3>1, <3>4
  <2>8. new.mem.byte = Written(m, va, s, k + n)
    <3>1. ASSUME NEW a \in VA
          PROVE  Written(st.mem, st.va, Prefix(src, n), n)[a] = Written(m, va, s, k + n)[a]
      <4>0. a \in Int
        BY DEF VA
      <4>1. CASE a \in va + k .. va + k + n - 1
        <5>1. a - (va + k) + 1 \in 1 .. n /\ k + (a - (va + k) + 1) = a - va + 1
          BY <4>0, <4>1
        <5>2. Prefix(src, n)[a - (va + k) + 1] = s[a - va + 1]
          BY <2>6, <5>1
        <5>3. a \in va .. va + (k + n) - 1
          BY <4>0, <4>1
        <5>. QED  BY <2>3, <4>1, <5>2, <5>3 DEF Written
      <4>2. CASE a \notin va + k .. va + k + n - 1
        <5>1. a \in va .. va + (k + n) - 1 <=> a \in va .. va + k - 1
          BY <4>0, <4>2, <2>4
        <5>2. Written(st.mem, st.va, Prefix(src, n), n)[a] = st.mem.byte[a]
          BY <2>3, <4>2 DEF Written
        <5>. QED  BY <2>3, <5>1, <5>2 DEF Written
      <4>. QED  BY <4>1, <4>2
    <3>. QED  BY <2>2, <2>5, <3>1 DEF Written
  <2>9. \A a \in va .. va + (k + n) - 1 : Writable(m, a)
    BY <1>0, <1>4, <2>2, <2>3
  <2>10. CopiedOut(m, va, s, new)
    <3>1. l - Len(new.src) = k + n /\ (Len(new.src) # 0 => new.va = va + (k + n))
      BY <2>1, <2>2, <2>3, <2>4, <2>7
    <3>2. va + (k + n) <= MAXVA /\ new.ok /\ new.mem.pte = m.pte
      BY <2>2, <2>3
    <3>. QED  BY <1>l, <2>4, <2>7, <2>8, <2>9, <3>1, <3>2 DEF CopiedOut
  <2>11. Len(new.src) < Len(st.src)
    <3>1. l - (k + n) < r
      BY <2>1
    <3>. QED  BY <2>r, <2>7, <3>1
  <2>. QED  BY <1>0, <2>10, <2>11
<1>. QED  BY <1>0, <1>1, <1>2, <1>3

\* copyout() writes exactly the bytes up to the first that is not the
\* program's to write, and fails if there is one.
LEMMA CopyOutIsExact ==
  ASSUME NEW B, NEW m \in UserMemory(B), NEW va \in Nat, NEW s \in Seq(B)
  PROVE  /\ CopyOutAgrees(m, va, s)
         /\ CopyOut(m, va, s).ok \in BOOLEAN
         /\ CopyOut(m, va, s).mem \in UserMemory(B)
<1>l. PICK l \in Nat : l = Len(s)
  BY LenProperties
<1>g. PICK g : IsCopyOutRun(m, va, s, g)
  BY CopyOutRuns
<1>1. /\ CopyOut(m, va, s) = g[l]
      /\ g[0] = [ok |-> TRUE, va |-> va, src |-> s, mem |-> m]
      /\ \A i \in Nat : g[i + 1] = CopyOutRound(g[i])
  BY <1>l, <1>g DEF IsCopyOutRun
<1>. DEFINE R == {i \in Nat : /\ g[i] \in CopyOutState(B)
                              /\ CopiedOut(m, va, s, g[i])
                              /\ g[i].ok => \/ Len(g[i].src) = 0
                                            \/ Len(g[i].src) <= l - i}
<1>2. 0 \in R
  <2>1. g[0] \in CopyOutState(B)
    BY <1>1 DEF CopyOutState
  <2>2. g[0].ok = TRUE /\ g[0].va = va /\ g[0].src = s /\ g[0].mem = m
    BY <1>1
  <2>3. Beyond(s, 0) = s
    BY SubSeqFull DEF Beyond
  <2>4. Written(m, va, s, 0) = m.byte
    <3>1. m.byte \in [VA -> B]
      BY DEF UserMemory
    <3>. QED  BY <3>1 DEF Written
  <2>5. CopiedOut(m, va, s, g[0])
    BY <1>l, <2>2, <2>3, <2>4 DEF CopiedOut
  <2>. QED  BY <1>l, <2>1, <2>2, <2>5
<1>3. ASSUME NEW i \in Nat, i \in R
      PROVE  i + 1 \in R
  <2>1. g[i] \in CopyOutState(B) /\ CopiedOut(m, va, s, g[i])
    BY <1>3
  <2>2. /\ g[i + 1] \in CopyOutState(B) /\ CopiedOut(m, va, s, g[i + 1])
        /\ \/ ~ g[i + 1].ok \/ Len(g[i + 1].src) = 0
           \/ Len(g[i + 1].src) < Len(g[i].src)
    <3>. PICK st \in CopyOutState(B) : st = g[i]
      BY <2>1
    <3>. PICK new : new = g[i + 1]
      OBVIOUS
    <3>1. CopiedOut(m, va, s, st) /\ new = CopyOutRound(st)
      BY <1>1, <2>1
    <3>2. /\ new \in CopyOutState(B) /\ CopiedOut(m, va, s, new)
          /\ ~ new.ok \/ Len(new.src) = 0 \/ Len(new.src) < Len(st.src)
      BY <3>1, CopyOutRoundKeeps
    <3>. QED  BY <3>2
  <2>3. g[i + 1].ok => g[i].ok
    BY <1>1, <2>1, CopyOutEnded
  <2>4. Len(g[i].src) \in Nat /\ Len(g[i + 1].src) \in Nat
    BY <2>1, <2>2, LenProperties DEF CopyOutState
  <2>5. g[i].ok => Len(g[i].src) = 0 \/ Len(g[i].src) <= l - i
    BY <1>3
  <2>. PICK now \in Nat : now = Len(g[i].src)
    BY <2>4
  <2>. PICK next \in Nat : next = Len(g[i + 1].src)
    BY <2>4
  <2>6. ASSUME g[i + 1].ok
        PROVE  next = 0 \/ next <= l - (i + 1)
    <3>1. next = 0 \/ next < now
      BY <2>2, <2>6
    <3>2. now = 0 \/ now <= l - i
      BY <2>3, <2>5, <2>6
    <3>. QED  BY <1>l, <3>1, <3>2
  <2>. QED  BY <2>2, <2>6
<1>. HIDE DEF R
<1>4. l \in R
  BY <1>2, <1>3, Induction
<1>5. PICK c : c = CopyOut(m, va, s)
  OBVIOUS
<1>6. /\ c \in CopyOutState(B) /\ CopiedOut(m, va, s, c)
      /\ c.ok => Len(c.src) = 0
  <2>1. /\ c \in CopyOutState(B) /\ CopiedOut(m, va, s, c)
        /\ c.ok => Len(c.src) = 0 \/ Len(c.src) <= l - l
    BY <1>1, <1>4, <1>5 DEF R
  <2>2. Len(c.src) \in Nat
    BY <2>1, LenProperties DEF CopyOutState
  <2>. QED  BY <2>1, <2>2
<1>r. PICK r \in Nat : r = Len(c.src)
  BY <1>6, LenProperties DEF CopyOutState
<1>7. PICK k \in 0 .. l : k = l - r
  BY <1>6, <1>l, <1>r DEF CopiedOut
<1>8. /\ \A a \in va .. va + k - 1 : Writable(m, a)
      /\ c.mem.pte = m.pte /\ c.mem.byte = Written(m, va, s, k)
      /\ c.ok => k = l
      /\ ~ c.ok => k < l /\ ~ Writable(m, va + k)
  <2>1. /\ \A a \in va .. va + k - 1 : Writable(m, a)
        /\ c.mem.pte = m.pte /\ c.mem.byte = Written(m, va, s, k)
        /\ ~ c.ok => r # 0 /\ ~ Writable(m, va + k)
    BY <1>6, <1>7, <1>l, <1>r DEF CopiedOut
  <2>2. c.ok => r = 0
    BY <1>6, <1>r
  <2>. QED  BY <1>7, <2>1, <2>2
<1>9. {a \in va .. va + l - 1 : \A b \in va .. a : Writable(m, b)} = va .. va + k - 1
  <2>1. ASSUME NEW a \in va .. va + l - 1, \A b \in va .. a : Writable(m, b)
        PROVE  a <= va + k - 1
    <3>1. CASE c.ok
      BY <1>8, <3>1
    <3>2. CASE ~ c.ok
      <4>1. ~ (va + k \in va .. a)
        BY <1>8, <2>1, <3>2
      <4>. QED  BY <4>1
    <3>. QED  BY <3>1, <3>2
  <2>2. ASSUME NEW a \in va .. va + k - 1, NEW b \in va .. a
        PROVE  Writable(m, b)
    BY <1>8
  <2>3. \A a \in va .. va + k - 1 : a \in va .. va + l - 1
    BY <1>7
  <2>. DEFINE Done == {a \in va .. va + l - 1 : \A b \in va .. a : Writable(m, b)}
  <2>4. ASSUME NEW a \in Done
        PROVE  a \in va .. va + k - 1
    <3>1. a \in va .. va + l - 1 /\ \A b \in va .. a : Writable(m, b)
      OBVIOUS
    <3>. HIDE DEF Done
    <3>2. a <= va + k - 1
      BY <2>1, <3>1
    <3>. QED  BY <3>1, <3>2
  <2>5. \A a \in va .. va + k - 1 : a \in Done
    BY <2>2, <2>3
  <2>. HIDE DEF Done
  <2>6. Done = va .. va + k - 1
    BY <2>4, <2>5
  <2>. QED  BY <2>6 DEF Done
<1>10. c.ok <=> va .. va + k - 1 = va .. va + l - 1
  <2>1. ASSUME ~ c.ok
        PROVE  va + k \in va .. va + l - 1 /\ va + k \notin va .. va + k - 1
    BY <1>7, <1>8, <2>1
  <2>. QED  BY <1>8, <2>1
<1>11. CopyOutAgrees(m, va, s)
  BY <1>5, <1>8, <1>9, <1>10, <1>l DEF CopyOutAgrees, Written
<1>. QED  BY <1>5, <1>6, <1>11 DEF CopyOutState

-------------------------------------------------------------------------
(* copyinstr().                                                            *)

\* The first Nul of the n bytes at va is after k of them.
IsUpToNul(m, va, n, k) ==
  /\ k \in 0 .. n
  /\ k < n => m.byte[va + k] = Nul
  /\ \A i \in 0 .. k - 1 : m.byte[va + i] # Nul

LEMMA UpToNulIs ==
  ASSUME NEW m, NEW va \in Nat, NEW n \in Nat
  PROVE  IsUpToNul(m, va, n, UpToNul(m, va, n))
<1>. DEFINE Ends == {i \in 0 .. n : i < n => m.byte[va + i] = Nul}
<1>1. \E x \in Ends : \A y \in Ends : x <= y
  <2>1. n \in Ends /\ Ends \in SUBSET Nat
    OBVIOUS
  <2>. HIDE DEF Ends
  <2>. QED  BY <2>1, LeastNat
<1>2. PICK x \in Ends : \A y \in Ends : x <= y
  BY <1>1
<1>3. ASSUME NEW i \in 0 .. x - 1
      PROVE  m.byte[va + i] # Nul
  <2>1. i \notin Ends /\ i \in 0 .. n
    BY <1>2
  <2>. QED  BY <2>1
<1>4. \E k \in 0 .. n : /\ k < n => m.byte[va + k] = Nul
                        /\ \A i \in 0 .. k - 1 : m.byte[va + i] # Nul
  BY <1>2, <1>3
<1>. QED  BY <1>4 DEF UpToNul, IsUpToNul

CopyInStrState(B) ==
  [ok : BOOLEAN, nul : BOOLEAN, va : Nat, max : Nat, got : Seq(B)]

\* The rounds of copyinstr(): after the end, at a byte that it may not read,
\* and at one that it may.
LEMMA CopyInStrEnded ==
  ASSUME NEW m, NEW st, ~ st.ok \/ st.nul \/ st.max = 0
  PROVE  CopyInStrRound(m, st) = st
BY DEF CopyInStrRound

LEMMA CopyInStrFails ==
  ASSUME NEW B, NEW m \in UserMemory(B), NEW st \in CopyInStrState(B),
         st.ok, ~ st.nul, st.max # 0, ~ Readable(m, st.va)
  PROVE  CopyInStrRound(m, st) = [st EXCEPT !.ok = FALSE]
<1>0. st.va \in Nat /\ st.max \in Nat
  BY DEF CopyInStrState
<1>1. ~ UserPage(m, st.va)
  BY <1>0, ChunkIsUsers
<1>. QED  BY <1>1 DEF CopyInStrRound

\* A round that scans n bytes and appends k of them.
IsStrRound(m, st, n, k, new) ==
  /\ new.ok
  /\ new.nul <=> (k < n)
  /\ new.max = st.max - n
  /\ n < st.max => new.va = st.va + n
  /\ new.got = st.got \o Bytes(m, st.va, k)
  /\ st.va + n <= MAXVA
  /\ \A a \in st.va .. st.va + n - 1 : Readable(m, a)
  /\ IsUpToNul(m, st.va, n, k)

LEMMA CopyInStrMoves ==
  ASSUME NEW B, NEW m \in UserMemory(B), NEW st \in CopyInStrState(B),
         st.ok, ~ st.nul, st.max # 0, Readable(m, st.va)
  PROVE  /\ CopyInStrRound(m, st) \in CopyInStrState(B)
         /\ \E n \in 1 .. st.max, k \in Nat :
              IsStrRound(m, st, n, k, CopyInStrRound(m, st))
<1>. PICK n : n = Less(InPage(st.va), st.max)
  OBVIOUS
<1>0. /\ st.va \in Nat /\ st.max \in Nat /\ st.got \in Seq(B)
  BY DEF CopyInStrState
<1>1. UserPage(m, st.va)
  BY <1>0, ChunkIsUsers
<1>2. /\ n \in 1 .. st.max /\ NextPage(st.va) \in Nat
      /\ n < st.max => NextPage(st.va) = st.va + n
  BY <1>0, ChunkInPage
<1>3. /\ st.va + n <= MAXVA
      /\ \A a \in st.va .. st.va + n - 1 : Readable(m, a)
  BY <1>0, <1>1, ChunkIsUsers
<1>. PICK k : k = UpToNul(m, st.va, n)
  OBVIOUS
<1>4. IsUpToNul(m, st.va, n, k) /\ k \in 0 .. n
  <2>1. IsUpToNul(m, st.va, n, UpToNul(m, st.va, n))
    BY <1>0, <1>2, UpToNulIs
  <2>. QED  BY <2>1 DEF IsUpToNul
<1>. PICK nul : nul = (k < n)
  BY Zenon
<1>. PICK read, left, next :
       /\ read = st.got \o Bytes(m, st.va, k) /\ left = st.max - n
       /\ next = NextPage(st.va)
  OBVIOUS
<1>5. CopyInStrRound(m, st) =
        [ok |-> TRUE, nul |-> nul, va |-> next, max |-> left, got |-> read]
  BY <1>1 DEF CopyInStrRound
<1>6. read \in Seq(B) /\ left \in Nat
  <2>1. Bytes(m, st.va, k) \in Seq(B)
    <3>1. k \in Nat /\ (k > 0 => st.va + k <= MAXVA)
      BY <1>0, <1>2, <1>3, <1>4, Sizes
    <3>. QED  BY <1>0, <3>1, BytesAreSeq
  <2>. QED  BY <1>0, <1>2, <2>1, ConcatProperties
<1>7. PICK new : new = CopyInStrRound(m, st)
  OBVIOUS
<1>8. new = [ok |-> TRUE, nul |-> nul, va |-> next, max |-> left, got |-> read]
  BY <1>5, <1>7
<1>9. /\ new.ok = TRUE /\ new.nul = nul /\ new.va = next /\ new.max = left
      /\ new.got = read
  BY <1>8
<1>10. new \in CopyInStrState(B)
  BY <1>2, <1>6, <1>8 DEF CopyInStrState
<1>11. IsStrRound(m, st, n, k, new)
  BY <1>2, <1>3, <1>4, <1>9 DEF IsStrRound
<1>. QED  BY <1>2, <1>4, <1>7, <1>10, <1>11

LEMMA CopyInStrTyped ==
  ASSUME NEW B, NEW m \in UserMemory(B), NEW st \in CopyInStrState(B)
  PROVE  CopyInStrRound(m, st) \in CopyInStrState(B)
<1>1. CASE ~ st.ok \/ st.nul \/ st.max = 0
  BY <1>1, CopyInStrEnded
<1>2. CASE st.ok /\ ~ st.nul /\ st.max # 0 /\ ~ Readable(m, st.va)
  <2>1. CopyInStrRound(m, st) = [st EXCEPT !.ok = FALSE]
    BY <1>2, CopyInStrFails
  <2>. QED  BY <2>1 DEF CopyInStrState
<1>3. CASE st.ok /\ ~ st.nul /\ st.max # 0 /\ Readable(m, st.va)
  BY <1>3, CopyInStrMoves
<1>. QED  BY <1>1, <1>2, <1>3

\* copyinstr() as a sequence of rounds.
LEMMA CopyInStrRecursion ==
  ASSUME NEW B, NEW m \in UserMemory(B), NEW x \in CopyInStrState(B)
  PROVE  \E g : g = [i \in Nat |-> IF i = 0 THEN x ELSE CopyInStrRound(m, g[i - 1])]
<1>. DEFINE S    == CopyInStrState(B)
            step == [st \in S |-> CopyInStrRound(m, st)]
<1>1. step \in [S -> S]
  BY CopyInStrTyped
<1>2. PICK g \in [Nat -> S] : g[0] = x /\ \A i \in Nat : g[i + 1] = step[g[i]]
  <2>1. HasRun(S, x, step)
    <3>. HIDE DEF step
    <3>. QED  BY <1>1, Recursion
  <2>. HIDE DEF S, step
  <2>. QED  BY <2>1 DEF HasRun
<1>3. ASSUME NEW i \in Nat, i # 0
      PROVE  g[i] = CopyInStrRound(m, g[i - 1])
  <2>1. i - 1 \in Nat /\ (i - 1) + 1 = i
    BY <1>3
  <2>2. g[i - 1] \in S
    BY <2>1
  <2>. QED  BY <1>2, <2>1, <2>2
<1>. QED  BY <1>2, <1>3

LEMMA CopyInStrRuns ==
  ASSUME NEW B, NEW m \in UserMemory(B), NEW va \in Nat, NEW max \in Nat
  PROVE  \E g : /\ CopyInStr(m, va, max) = [ok |-> g[max].nul, got |-> g[max].got]
                /\ g[0] = [ok |-> TRUE, nul |-> FALSE, va |-> va, max |-> max,
                           got |-> <<>>]
                /\ \A i \in Nat : g[i + 1] = CopyInStrRound(m, g[i])
<1>. DEFINE x == [ok |-> TRUE, nul |-> FALSE, va |-> va, max |-> max, got |-> <<>>]
            h == CHOOSE h : h = [i \in Nat |-> IF i = 0 THEN x
                                               ELSE CopyInStrRound(m, h[i - 1])]
<1>1. x \in CopyInStrState(B)
  BY EmptySeq DEF CopyInStrState
<1>2. CopyInStr(m, va, max) = [ok |-> h[max].nul, got |-> h[max].got]
  BY DEF CopyInStr, Rounds
<1>. HIDE DEF x
<1>3. \E g : g = [i \in Nat |-> IF i = 0 THEN x ELSE CopyInStrRound(m, g[i - 1])]
  BY <1>1, CopyInStrRecursion
<1>4. h = [i \in Nat |-> IF i = 0 THEN x ELSE CopyInStrRound(m, h[i - 1])]
  BY <1>3, Zenon
<1>. HIDE DEF h
<1>5. h[0] = x /\ \A i \in Nat : h[i + 1] = CopyInStrRound(m, h[i])
  BY <1>4
<1>. QED  BY <1>2, <1>5 DEF x

\* What holds after some rounds of copyinstr(m, va, max): it has the string,
\* or the first k bytes, with no Nul in them; and then, if it has failed, the
\* next byte cannot be read.
CopiedInStr(m, va, max, st) ==
  LET k == max - st.max
  IN /\ k \in 0 .. max
     /\ ~ st.nul =>
          /\ k > 0 => va + k <= MAXVA
          /\ \A a \in va .. va + k - 1 : Readable(m, a) /\ m.byte[a] # Nul
          /\ st.got = Bytes(m, va, k)
          /\ st.max # 0 => st.va = va + k
          /\ ~ st.ok => st.max # 0 /\ ~ Readable(m, va + k)
     /\ st.nul =>
          \E n \in 0 .. max - 1 : IsString(m, va, n) /\ st.got = Bytes(m, va, n)

LEMMA CopyInStrRoundKeeps ==
  ASSUME NEW B, NEW m \in UserMemory(B), NEW va \in Nat, NEW max \in Nat,
         NEW st \in CopyInStrState(B), CopiedInStr(m, va, max, st)
  PROVE  LET new == CopyInStrRound(m, st)
         IN  /\ new \in CopyInStrState(B)
             /\ CopiedInStr(m, va, max, new)
             /\ ~ new.ok \/ new.nul \/ new.max = 0 \/ new.max < st.max
<1>. PICK new : new = CopyInStrRound(m, st)
  OBVIOUS
<1>0. /\ st.ok \in BOOLEAN /\ st.nul \in BOOLEAN /\ st.va \in Nat
      /\ st.max \in Nat /\ st.got \in Seq(B) /\ new \in CopyInStrState(B)
  BY CopyInStrTyped DEF CopyInStrState
<1>1. CASE ~ st.ok \/ st.nul \/ st.max = 0
  <2>1. new = st
    BY <1>1, CopyInStrEnded
  <2>. QED  BY <1>0, <1>1, <2>1
<1>2. CASE st.ok /\ ~ st.nul /\ st.max # 0 /\ ~ Readable(m, st.va)
  <2>1. new = [st EXCEPT !.ok = FALSE]
    BY <1>2, CopyInStrFails
  <2>2. /\ new.ok = FALSE /\ new.va = st.va /\ new.max = st.max
        /\ new.got = st.got /\ new.nul = st.nul
    BY <2>1 DEF CopyInStrState
  <2>. QED  BY <1>0, <1>2, <2>2 DEF CopiedInStr
<1>3. CASE st.ok /\ ~ st.nul /\ st.max # 0 /\ Readable(m, st.va)
  <2>1. PICK j \in 0 .. max : j = max - st.max /\ st.max = max - j
    BY <1>0 DEF CopiedInStr
  <2>0. PICK n \in 1 .. st.max, k \in Nat : IsStrRound(m, st, n, k, new)
    BY <1>3, CopyInStrMoves
  <2>2. /\ new.ok
        /\ k <= n
        /\ new.nul <=> (k < n)
        /\ new.max = st.max - n
        /\ n < st.max => new.va = st.va + n
        /\ new.got = st.got \o Bytes(m, st.va, k)
        /\ st.va + n <= MAXVA
        /\ \A a \in st.va .. st.va + n - 1 : Readable(m, a)
        /\ k < n => m.byte[st.va + k] = Nul
        /\ \A i \in 0 .. k - 1 : m.byte[st.va + i] # Nul
    BY <2>0 DEF IsStrRound, IsUpToNul
  <2>3. /\ st.va = va + j /\ st.got = Bytes(m, va, j)
        /\ \A a \in va .. va + j - 1 : Readable(m, a) /\ m.byte[a] # Nul
    BY <1>3, <2>1 DEF CopiedInStr
  <2>4. new.got = Bytes(m, va, j + k)
    <3>1. va + j + k <= MAXVA /\ k \in Nat /\ j \in Nat
      BY <1>0, <2>2, <2>3, Sizes
    <3>2. Bytes(m, va, j) \o Bytes(m, va + j, k) = Bytes(m, va, j + k)
      BY <3>1, BytesConcat
    <3>. QED  BY <2>2, <2>3, <3>2
  <2>5. max - new.max = j + n /\ j + n \in 0 .. max
    <3>1. /\ j \in Nat /\ n \in Nat /\ st.max \in Nat /\ st.max = max - j
          /\ n <= st.max /\ new.max = st.max - n
      BY <1>0, <2>1, <2>2
    <3>. QED  BY <3>1
  <2>6. ASSUME NEW a \in va .. va + (j + k) - 1
        PROVE  Readable(m, a) /\ m.byte[a] # Nul
    <3>1. CASE a < va + j
      BY <2>3, <3>1
    <3>2. CASE ~ (a < va + j)
      <4>1. /\ a \in st.va .. st.va + n - 1
            /\ a - st.va \in 0 .. k - 1 /\ st.va + (a - st.va) = a
        BY <1>0, <2>2, <2>3, <3>2
      <4>. QED  BY <2>2, <4>1
    <3>. QED  BY <3>1, <3>2
  <2>7. CASE k = n
    <3>1. new.max # 0 => new.va = va + (j + n)
      BY <1>0, <2>2, <2>3
    <3>2. va + (j + n) <= MAXVA /\ new.ok /\ ~ new.nul
      BY <2>2, <2>3, <2>7
    <3>3. CopiedInStr(m, va, max, new)
      BY <2>4, <2>5, <2>6, <2>7, <3>1, <3>2 DEF CopiedInStr
    <3>. QED  BY <1>0, <2>2, <3>3
  <2>8. CASE k < n
    <3>1. new.nul /\ j + k \in 0 .. max - 1
      <4>1. new.nul
        BY <2>2, <2>8
      <4>. QED  BY <4>1, <2>5, <2>8
    <3>2. IsString(m, va, j + k)
      <4>1. m.byte[va + (j + k)] = Nul /\ Readable(m, va + (j + k))
        <5>1. va + (j + k) = st.va + k /\ st.va + k \in st.va .. st.va + n - 1
          BY <1>0, <2>3, <2>8
        <5>. QED  BY <2>2, <2>8, <5>1
      <4>. QED  BY <2>6, <4>1 DEF IsString
    <3>3. CopiedInStr(m, va, max, new)
      BY <2>4, <2>5, <3>1, <3>2 DEF CopiedInStr
    <3>. QED  BY <1>0, <3>1, <3>3
  <2>. QED  BY <2>2, <2>7, <2>8
<1>. QED  BY <1>0, <1>1, <1>2, <1>3

\* copyinstr() gets exactly the string at va, or fails when there is none of
\* fewer than max bytes that the program may read.
LEMMA CopyInStrIsExact ==
  ASSUME NEW B, NEW m \in UserMemory(B), NEW va \in Nat, NEW max \in Nat
  PROVE  CopyInStrAgrees(m, va, max) /\ CopyInStr(m, va, max).got \in Seq(B)
<1>1. PICK g : /\ CopyInStr(m, va, max) = [ok |-> g[max].nul, got |-> g[max].got]
               /\ g[0] = [ok |-> TRUE, nul |-> FALSE, va |-> va, max |-> max,
                          got |-> <<>>]
               /\ \A i \in Nat : g[i + 1] = CopyInStrRound(m, g[i])
  BY CopyInStrRuns
<1>. DEFINE R == {i \in Nat : /\ g[i] \in CopyInStrState(B)
                              /\ CopiedInStr(m, va, max, g[i])
                              /\ g[i].ok /\ ~ g[i].nul =>
                                   g[i].max = 0 \/ g[i].max <= max - i}
<1>2. 0 \in R
  <2>1. g[0] \in CopyInStrState(B)
    BY <1>1, EmptySeq DEF CopyInStrState
  <2>2. /\ g[0].ok = TRUE /\ g[0].nul = FALSE /\ g[0].va = va /\ g[0].max = max
        /\ g[0].got = <<>>
    BY <1>1
  <2>3. Bytes(m, va, 0) = <<>>
    <3>1. Bytes(m, va, 0) \in Seq(B) /\ Len(Bytes(m, va, 0)) = 0
      BY BytesAreSeq
    <3>. QED  BY <3>1, EmptySeq
  <2>4. CopiedInStr(m, va, max, g[0])
    BY <2>2, <2>3 DEF CopiedInStr
  <2>. QED  BY <2>1, <2>2, <2>4
<1>3. ASSUME NEW i \in Nat, i \in R
      PROVE  i + 1 \in R
  <2>1. g[i] \in CopyInStrState(B) /\ CopiedInStr(m, va, max, g[i])
    BY <1>3
  <2>2. /\ g[i + 1] \in CopyInStrState(B) /\ CopiedInStr(m, va, max, g[i + 1])
        /\ \/ ~ g[i + 1].ok \/ g[i + 1].nul \/ g[i + 1].max = 0
           \/ g[i + 1].max < g[i].max
    BY <1>1, <2>1, CopyInStrRoundKeeps
  <2>3. g[i + 1].ok /\ ~ g[i + 1].nul => g[i].ok /\ ~ g[i].nul
    BY <1>1, <2>1, CopyInStrEnded
  <2>4. g[i].max \in Nat /\ g[i + 1].max \in Nat
    BY <2>1, <2>2 DEF CopyInStrState
  <2>. QED  BY <1>3, <2>2, <2>3, <2>4
<1>. HIDE DEF R
<1>4. max \in R
  BY <1>2, <1>3, Induction
<1>5. PICK st : st = g[max]
  OBVIOUS
<1>6. /\ st \in CopyInStrState(B) /\ CopiedInStr(m, va, max, st)
      /\ st.ok /\ ~ st.nul => st.max = 0
  <2>1. /\ st \in CopyInStrState(B) /\ CopiedInStr(m, va, max, st)
        /\ st.ok /\ ~ st.nul => st.max = 0 \/ st.max <= max - max
    BY <1>4, <1>5 DEF R
  <2>2. st.max \in Nat
    BY <2>1 DEF CopyInStrState
  <2>. QED  BY <2>1, <2>2
<1>7. PICK c : c = CopyInStr(m, va, max)
  OBVIOUS
<1>8. c.ok = st.nul /\ c.got = st.got
  BY <1>1, <1>5, <1>7
<1>9. CopyInStr(m, va, max).got \in Seq(B)
  BY <1>6, <1>7, <1>8 DEF CopyInStrState
<1>10. CASE st.nul
  <2>1. PICK n \in 0 .. max - 1 : IsString(m, va, n) /\ st.got = Bytes(m, va, n)
    BY <1>6, <1>10 DEF CopiedInStr
  <2>2. Len(st.got) = n
    <3>1. n \in Nat /\ (n > 0 => va + n <= MAXVA)
      <4>1. Readable(m, va + n)
        BY <2>1 DEF IsString
      <4>. QED  BY <4>1, Sizes DEF Readable, VA
    <3>. QED  BY <2>1, <3>1, BytesAreSeq
  <2>. QED  BY <1>7, <1>8, <1>10, <1>9, <2>1, <2>2 DEF CopyInStrAgrees
<1>11. CASE ~ st.nul
  <2>1. PICK k \in 0 .. max : k = max - st.max
    BY <1>6 DEF CopiedInStr
  <2>2. /\ \A a \in va .. va + k - 1 : m.byte[a] # Nul
        /\ k = max \/ ~ Readable(m, va + k)
    BY <1>6, <1>11, <2>1 DEF CopiedInStr, CopyInStrState
  <2>3. ASSUME NEW n \in 0 .. max - 1, IsString(m, va, n)
        PROVE  FALSE
    <3>1. CASE n < k
      <4>1. va + n \in va .. va + k - 1
        BY <3>1
      <4>. QED  BY <2>2, <2>3, <4>1 DEF IsString
    <3>2. CASE ~ (n < k)
      <4>1. va + k \in va .. va + n /\ k # max
        BY <3>2
      <4>. QED  BY <2>2, <2>3, <4>1 DEF IsString
    <3>. QED  BY <3>1, <3>2
  <2>. QED  BY <1>7, <1>8, <1>11, <1>9, <2>3 DEF CopyInStrAgrees
<1>. QED  BY <1>6, <1>10, <1>11

\* What the calls of CopyCalls give the three functions.
LEMMA CallsAreTyped ==
  ASSUME NEW c \in CopyCalls
  PROVE  /\ c.va \in Nat /\ c.len \in Nat /\ c.pte \in PTEs
         /\ CopyMemory(c) \in UserMemory({CopyMemory(c).byte[a] : a \in VA} \cup {Code})
         /\ Source(c.len) \in Seq({CopyMemory(c).byte[a] : a \in VA} \cup {Code})
<1>1. Starts \subseteq Nat
  BY Sizes DEF Starts
<1>2. Lengths \subseteq Nat
  BY Sizes DEF Lengths
<1>3. c.va \in Starts /\ c.len \in Lengths /\ c.pte \in PTEs
  BY DEF CopyCalls
<1>. PICK m, B : /\ m = CopyMemory(c)
                 /\ B = {CopyMemory(c).byte[a] : a \in VA} \cup {Code}
  OBVIOUS
<1>4. m \in UserMemory(B)
  <2>. PICK bytes : bytes = m.byte
    OBVIOUS
  <2>1. \A a \in VA : bytes[a] \in B
    OBVIOUS
  <2>2. m = [pte |-> c.pte, byte |-> bytes] /\ bytes = [a \in VA |-> bytes[a]]
    BY DEF CopyMemory
  <2>3. bytes \in [VA -> B]
    BY <2>1, <2>2
  <2>. QED  BY <1>3, <2>2, <2>3 DEF UserMemory
<1>5. Source(c.len) \in Seq(B)
  <2>1. Source(c.len) \in [1 .. c.len -> B]
    BY DEF Source
  <2>2. c.len \in Nat
    BY <1>2, <1>3
  <2>. QED  BY <2>1, <2>2, FunctionIsSeq
<1>. QED  BY <1>1, <1>2, <1>3, <1>4, <1>5

\* Every call of the copy functions moves exactly the bytes that were asked
\* for, whatever the sizes of a page, of memory and of an address
\* (copyin, copyout and copyinstr in kernel/mm/vm.c).
THEOREM CopiesAreExact == MCSpec => []CopiesAgree
<1>. DEFINE Asked == asked \in {Nothing} \cup CopyCalls \cup ExecCalls
<1>1. MCInit => Asked
  BY DEF MCInit
<1>2. Asked /\ [MCNext]_<<vars, asked>> => Asked'
  BY DEF MCNext
<1>3. Asked => CopiesAgree
  <2>. SUFFICES ASSUME Asked
                PROVE  CopiesAgree
    OBVIOUS
  <2>1. CASE asked = Nothing
    BY <2>1 DEF Nothing, CopiesAgree
  <2>2. CASE asked \in ExecCalls
    BY <2>2 DEF ExecCalls, CopiesAgree
  <2>3. CASE asked \in CopyCalls
    <3>. PICK B : B = {CopyMemory(asked).byte[a] : a \in VA} \cup {Code}
      OBVIOUS
    <3>1. /\ asked.va \in Nat /\ asked.len \in Nat
          /\ CopyMemory(asked) \in UserMemory(B)
          /\ Source(asked.len) \in Seq(B)
      BY <2>3, CallsAreTyped
    <3>2. CopyInAgrees(CopyMemory(asked), asked.va, asked.len)
      BY <3>1, CopyInIsExact
    <3>3. CopyOutAgrees(CopyMemory(asked), asked.va, Source(asked.len))
      BY <3>1, CopyOutIsExact
    <3>4. CopyInStrAgrees(CopyMemory(asked), asked.va, asked.len)
      BY <3>1, CopyInStrIsExact
    <3>. QED  BY <3>2, <3>3, <3>4 DEF CopiesAgree
  <2>. QED  BY <2>1, <2>2, <2>3
<1>. HIDE DEF Asked
<1>. QED  BY <1>1, <1>2, <1>3, PTL DEF MCSpec

-------------------------------------------------------------------------
(* Pointers as they lie in memory.                                       *)

LEMMA Powers ==
  ASSUME NEW n \in Nat
  PROVE  /\ Power(ByteMod, n) \in Nat \ {0} /\ Power(ByteMod, 0) = 1
         /\ Power(ByteMod, n + 1) = ByteMod * Power(ByteMod, n)
<1>1. ByteMod \in Nat /\ ByteMod >= 2
  <2>1. ByteMod \in Nat /\ ByteMod > 0 /\ VAMod >= 2
    BY Sizes
  <2>2. ByteMod # 1
    <3>1. ASSUME ByteMod = 1
          PROVE  FALSE
      <4>. DEFINE R == {i \in Nat : Power(1, i) = 1}
      <4>1. 0 \in R /\ \A i \in Nat : i \in R => i + 1 \in R
        <5>1. Power(1, 0) = 1 /\ \A i \in Nat : Power(1, i + 1) = 1 * Power(1, i)
          BY PowerIsNat
        <5>. QED  BY <5>1
      <4>. HIDE DEF R
      <4>2. PTRSIZE \in R
        BY <4>1, Induction, Sizes
      <4>3. VAMod = 1
        BY <3>1, <4>2 DEF R, VAMod
      <4>. QED  BY <2>1, <4>3
    <3>. QED  BY <3>1
  <2>. QED  BY <2>1, <2>2
<1>2. Power(ByteMod, n) >= n + 1 /\ Power(ByteMod, n) \in Nat
  BY <1>1, PowerGrows, PowerIsNat
<1>. QED  BY <1>1, <1>2, PowerIsNat

\* What is left after dropping i bytes.
LEMMA DropByte ==
  ASSUME NEW v \in Nat, NEW i \in Nat
  PROVE  /\ v \div Power(ByteMod, i) \in Nat
         /\ (v \div Power(ByteMod, i)) \div ByteMod = v \div Power(ByteMod, i + 1)
<1>. PICK b \in Nat \ {0} : b = ByteMod
  BY Sizes
<1>. PICK p \in Nat \ {0} : p = Power(b, i) /\ Power(b, i + 1) = b * p
  BY Powers
<1>1. v \div p \in Nat
  BY QuotientIsNat
<1>2. (v \div p) \div b = v \div (p * b)
  BY DivDiv
<1>3. p * b = b * p
  OBVIOUS
<1>. QED  BY <1>1, <1>2, <1>3

LEMMA StoredIs ==
  ASSUME NEW v \in Nat
  PROVE  /\ Stored(v) = [i \in 1 .. PTRSIZE |-> (v \div Power(ByteMod, i - 1)) % ByteMod]
         /\ Stored(v) \in Seq(Nat) /\ Len(Stored(v)) = PTRSIZE
<1>. DEFINE h == CHOOSE h : h = [i \in Nat |-> IF i = 0 THEN v ELSE h[i - 1] \div ByteMod]
            g == [i \in Nat |-> v \div Power(ByteMod, i)]
<1>1. Stored(v) = [i \in 1 .. PTRSIZE |-> h[i - 1] % ByteMod]
  BY DEF Stored, Rounds
<1>2. g = [i \in Nat |-> IF i = 0 THEN v ELSE g[i - 1] \div ByteMod]
  <2>1. ASSUME NEW i \in Nat
        PROVE  v \div Power(ByteMod, i) = IF i = 0 THEN v ELSE g[i - 1] \div ByteMod
    <3>1. CASE i = 0
      BY <3>1, Powers, DivideByOne
    <3>2. CASE i # 0
      <4>1. i - 1 \in Nat /\ (i - 1) + 1 = i
        BY <3>2
      <4>2. (v \div Power(ByteMod, i - 1)) \div ByteMod = v \div Power(ByteMod, i)
        BY <4>1, DropByte
      <4>. QED  BY <3>2, <4>1, <4>2
    <3>. QED  BY <3>1, <3>2
  <2>. QED  BY <2>1
<1>. HIDE DEF g
<1>3. h = [i \in Nat |-> IF i = 0 THEN v ELSE h[i - 1] \div ByteMod]
  BY <1>2, Zenon
<1>. HIDE DEF h
<1>. DEFINE R == {i \in Nat : h[i] = v \div Power(ByteMod, i)}
<1>4. 0 \in R
  BY <1>3, Powers, DivideByOne
<1>5. ASSUME NEW i \in Nat, i \in R
      PROVE  i + 1 \in R
  <2>1. h[i + 1] = h[i] \div ByteMod
    <3>1. i + 1 \in Nat /\ i + 1 # 0 /\ (i + 1) - 1 = i
      OBVIOUS
    <3>. QED  BY <1>3, <3>1
  <2>. QED  BY <1>5, <2>1, DropByte
<1>. HIDE DEF R
<1>6. Nat \subseteq R
  BY <1>4, <1>5, Induction
<1>7. Stored(v) = [i \in 1 .. PTRSIZE |-> (v \div Power(ByteMod, i - 1)) % ByteMod]
  <2>1. ASSUME NEW i \in 1 .. PTRSIZE
        PROVE  h[i - 1] = v \div Power(ByteMod, i - 1)
    <3>1. i - 1 \in Nat
      BY Sizes
    <3>. QED  BY <1>6, <3>1 DEF R
  <2>. QED  BY <1>1, <2>1
<1>8. Stored(v) \in [1 .. PTRSIZE -> Nat]
  <2>1. ASSUME NEW i \in 1 .. PTRSIZE
        PROVE  (v \div Power(ByteMod, i - 1)) % ByteMod \in Nat
    <3>1. i - 1 \in Nat
      BY Sizes
    <3>2. PICK x \in Nat : x = v \div Power(ByteMod, i - 1)
      BY <3>1, DropByte
    <3>3. x % ByteMod \in 0 .. ByteMod - 1
      BY Sizes, ModFacts
    <3>. QED  BY <3>2, <3>3
  <2>. QED  BY <1>7, <2>1
<1>. QED  BY <1>7, <1>8, Sizes, FunctionIsSeq

\* A pointer is read as it was stored.
LEMMA LoadedStored ==
  ASSUME NEW v \in Nat, v < VAMod
  PROVE  Loaded(Stored(v)) = v
<1>. PICK n \in Nat \ {0} : n = PTRSIZE
  BY Sizes
<1>. PICK s : s = Stored(v)
  OBVIOUS
<1>0. Len(s) = n
  BY StoredIs
<1>. DEFINE top == CHOOSE top : top = [i \in 0 .. n |->
                     IF i = 0 THEN 0 ELSE s[n + 1 - i] + ByteMod * top[i - 1]]
            g   == [i \in 0 .. n |-> v \div Power(ByteMod, n - i)]
<1>1. Loaded(s) = top[n]
  BY <1>0 DEF Loaded
<1>2. ASSUME NEW i \in 1 .. n
      PROVE  v \div Power(ByteMod, n - i) =
               s[n + 1 - i] + ByteMod * (v \div Power(ByteMod, n - (i - 1)))
  <2>1. n - i \in Nat /\ (n - i) + 1 = n - (i - 1) /\ n + 1 - i \in 1 .. n
        /\ (n + 1 - i) - 1 = n - i
    OBVIOUS
  <2>2. PICK x \in Nat : /\ x = v \div Power(ByteMod, n - i)
                         /\ x \div ByteMod = v \div Power(ByteMod, n - (i - 1))
    <3>1. /\ v \div Power(ByteMod, n - i) \in Nat
          /\ (v \div Power(ByteMod, n - i)) \div ByteMod =
               v \div Power(ByteMod, (n - i) + 1)
      BY <2>1, DropByte
    <3>. QED  BY <2>1, <3>1
  <2>3. s[n + 1 - i] = x % ByteMod
    <3>1. s[n + 1 - i] = (v \div Power(ByteMod, (n + 1 - i) - 1)) % ByteMod
      BY <2>1, StoredIs
    <3>. QED  BY <2>1, <2>2, <3>1
  <2>4. x = ByteMod * (x \div ByteMod) + (x % ByteMod) /\ x % ByteMod \in Int
        /\ ByteMod * (x \div ByteMod) \in Int
    BY Sizes, DivMod
  <2>. QED  BY <2>2, <2>3, <2>4
<1>3. v \div Power(ByteMod, n) = 0
  <2>1. PICK p \in Nat \ {0} : p = Power(ByteMod, n) /\ v < p
    BY Powers DEF VAMod
  <2>2. v \div p = 0
    BY <2>1
  <2>. QED  BY <2>1, <2>2
<1>4. g = [i \in 0 .. n |-> IF i = 0 THEN 0 ELSE s[n + 1 - i] + ByteMod * g[i - 1]]
  <2>1. ASSUME NEW i \in 0 .. n
        PROVE  v \div Power(ByteMod, n - i) =
                 IF i = 0 THEN 0 ELSE s[n + 1 - i] + ByteMod * g[i - 1]
    <3>1. CASE i = 0
      <4>1. n - i = n
        BY <3>1
      <4>. QED  BY <1>3, <3>1, <4>1
    <3>2. CASE i # 0
      <4>1. i \in 1 .. n /\ i - 1 \in 0 .. n
        BY <3>2
      <4>. QED  BY <1>2, <3>2, <4>1
    <3>. QED  BY <3>1, <3>2
  <2>. QED  BY <2>1
<1>. HIDE DEF g
<1>5. top = [i \in 0 .. n |-> IF i = 0 THEN 0 ELSE s[n + 1 - i] + ByteMod * top[i - 1]]
  BY <1>4, Zenon
<1>. HIDE DEF top
<1>. DEFINE R == {i \in Nat : i <= n => top[i] = v \div Power(ByteMod, n - i)}
<1>6. 0 \in R
  <2>1. n - 0 = n /\ 0 \in 0 .. n
    OBVIOUS
  <2>. QED  BY <1>3, <1>5, <2>1
<1>7. ASSUME NEW i \in Nat, i \in R
      PROVE  i + 1 \in R
  <2>. SUFFICES ASSUME i + 1 <= n
                PROVE  top[i + 1] = v \div Power(ByteMod, n - (i + 1))
    OBVIOUS
  <2>1. PICK j \in 1 .. n : j = i + 1 /\ j - 1 = i /\ j # 0
    OBVIOUS
  <2>2. top[j] = s[n + 1 - j] + ByteMod * top[j - 1]
    BY <1>5, <2>1
  <2>3. top[j - 1] = v \div Power(ByteMod, n - (j - 1))
    BY <1>7, <2>1
  <2>4. top[j] = v \div Power(ByteMod, n - j)
    BY <1>2, <2>2, <2>3
  <2>. QED  BY <2>1, <2>4
<1>. HIDE DEF R
<1>8. top[n] = v \div Power(ByteMod, n - n)
  <2>1. n \in R
    BY <1>6, <1>7, Induction
  <2>. QED  BY <2>1 DEF R
<1>9. v \div Power(ByteMod, n - n) = v
  <2>1. n - n = 0
    OBVIOUS
  <2>. QED  BY <2>1, Powers, DivideByOne
<1>. QED  BY <1>1, <1>8, <1>9

-------------------------------------------------------------------------
(* Arrays of pointers.                                                   *)

LEMMA Products ==
  ASSUME NEW i \in Nat, NEW n \in Nat
  PROVE  /\ i * PTRSIZE \in Nat /\ n * PTRSIZE \in Nat
         /\ 0 * PTRSIZE = 0
         /\ (i + 1) * PTRSIZE = i * PTRSIZE + PTRSIZE
         /\ i < n => i * PTRSIZE + PTRSIZE <= n * PTRSIZE
<1>. PICK p \in Nat \ {0} : p = PTRSIZE
  BY Sizes
<1>1. i * p \in Nat /\ n * p \in Nat /\ 0 * p = 0 /\ (i + 1) * p = i * p + p
  OBVIOUS
<1>2. ASSUME i < n
      PROVE  i * p + p <= n * p
  <2>1. PICK d \in Nat : n = (i + 1) + d
    <3>1. n - (i + 1) \in Nat /\ n = (i + 1) + (n - (i + 1))
      BY <1>2
    <3>. QED  BY <3>1
  <2>2. ((i + 1) + d) * p = i * p + p + d * p /\ d * p \in Nat
    OBVIOUS
  <2>. QED  BY <1>1, <2>1, <2>2
<1>. QED  BY <1>1, <1>2

\* The byte j of the pointer i.
LEMMA ArrayCell ==
  ASSUME NEW n \in Nat, NEW i \in Nat, i < n, NEW j \in 1 .. PTRSIZE,
         NEW x, x = i * PTRSIZE + j
  PROVE  /\ x \in 1 .. n * PTRSIZE
         /\ (x - 1) \div PTRSIZE = i /\ (x - 1) % PTRSIZE = j - 1
<1>. PICK p \in Nat \ {0} : p = PTRSIZE
  BY Sizes
<1>. PICK k, l : k = i * p /\ l = n * p
  OBVIOUS
<1>1. k \in Nat /\ l \in Nat /\ k + p <= l /\ x = k + j /\ j \in 1 .. p
  BY Products
<1>2. j - 1 \in 0 .. p - 1 /\ p * i = k /\ x - 1 = p * i + (j - 1)
  BY <1>1
<1>3. (x - 1) \div p = i
  BY <1>2, DivUnique
<1>4. x - 1 \in Int
  BY <1>1
<1>5. x - 1 = p * ((x - 1) \div p) + ((x - 1) % p) /\ (x - 1) % p \in 0 .. p - 1
  BY <1>4, DivMod
<1>6. (x - 1) % p = j - 1
  BY <1>1, <1>2, <1>3, <1>5
<1>7. x \in 1 .. l
  BY <1>1
<1>. QED  BY <1>3, <1>6, <1>7

\* Each byte of an array is one of one of its pointers.
LEMMA ArrayCells ==
  ASSUME NEW n \in Nat, NEW x \in 1 .. n * PTRSIZE
  PROVE  /\ (x - 1) \div PTRSIZE \in 0 .. n - 1
         /\ (x - 1) % PTRSIZE \in 0 .. PTRSIZE - 1
<1>. PICK p \in Nat \ {0} : p = PTRSIZE
  BY Sizes
<1>. PICK l \in Nat : l = n * p
  BY Products
<1>1. x \in Nat /\ x >= 1 /\ x <= l /\ x - 1 \in Int
  OBVIOUS
<1>2. PICK q \in Int : /\ q = (x - 1) \div p /\ (x - 1) - p * q \in 0 .. p - 1
                       /\ p * q \in Int
  BY <1>1, DivMod
<1>3. (x - 1) % p \in 0 .. p - 1
  BY <1>1, ModFacts
<1>4. q >= 0
  BY <1>1, <1>2, Multiples
<1>5. q < n
  <2>1. ASSUME q >= n
        PROVE  FALSE
    <3>1. PICK d \in Nat : q = n + d
      <4>1. q - n \in Nat /\ q = n + (q - n)
        BY <1>2, <2>1
      <4>. QED  BY <4>1
    <3>2. p * (n + d) = n * p + p * d /\ p * d \in Nat
      OBVIOUS
    <3>3. p * q >= l
      BY <3>1, <3>2
    <3>. QED  BY <1>1, <1>2, <3>3
  <2>. QED  BY <1>2, <2>1
<1>. QED  BY <1>2, <1>3, <1>4, <1>5

LEMMA StoredAllIs ==
  ASSUME NEW n \in Nat, NEW s \in [1 .. n -> Nat]
  PROVE  /\ s \in Seq(Nat) /\ Len(s) = n
         /\ StoredAll(s) \in Seq(Nat) /\ Len(StoredAll(s)) = n * PTRSIZE
         /\ \A i \in 0 .. n - 1 : \A j \in 1 .. PTRSIZE :
              StoredAll(s)[i * PTRSIZE + j] = Stored(s[i + 1])[j]
<1>1. s \in Seq(Nat) /\ Len(s) = n
  BY FunctionIsSeq
<1>. PICK l \in Nat : l = n * PTRSIZE
  BY Products
<1>2. StoredAll(s) = [i \in 1 .. l |->
        Stored(s[((i - 1) \div PTRSIZE) + 1])[((i - 1) % PTRSIZE) + 1]]
  BY <1>1 DEF StoredAll
<1>3. ASSUME NEW x \in 1 .. l
      PROVE  Stored(s[((x - 1) \div PTRSIZE) + 1])[((x - 1) % PTRSIZE) + 1] \in Nat
  <2>1. PICK i \in 0 .. n - 1 : i = (x - 1) \div PTRSIZE
    BY ArrayCells
  <2>2. PICK j \in 0 .. PTRSIZE - 1 : j = (x - 1) % PTRSIZE
    BY ArrayCells
  <2>3. s[i + 1] \in Nat
    <3>1. i + 1 \in 1 .. n
      BY <2>1
    <3>. QED  BY <3>1
  <2>4. j + 1 \in 1 .. PTRSIZE
    BY <2>2, Sizes
  <2>5. Stored(s[i + 1])[j + 1] \in Nat
    BY <2>3, <2>4, StoredIs, ElementOfSeq
  <2>. QED  BY <2>1, <2>2, <2>5
<1>4. StoredAll(s) \in [1 .. l -> Nat]
  BY <1>2, <1>3
<1>5. StoredAll(s) \in Seq(Nat) /\ Len(StoredAll(s)) = l
  BY <1>4, FunctionIsSeq
<1>6. ASSUME NEW i \in 0 .. n - 1, NEW j \in 1 .. PTRSIZE
      PROVE  StoredAll(s)[i * PTRSIZE + j] = Stored(s[i + 1])[j]
  <2>1. PICK x : x = i * PTRSIZE + j
    OBVIOUS
  <2>2. i \in Nat /\ i < n
    OBVIOUS
  <2>3. x \in 1 .. l /\ (x - 1) \div PTRSIZE = i /\ (x - 1) % PTRSIZE = j - 1
    BY <2>1, <2>2, ArrayCell
  <2>4. (j - 1) + 1 = j
    BY Sizes
  <2>5. StoredAll(s)[x] = Stored(s[i + 1])[j]
    BY <1>2, <2>3, <2>4
  <2>. QED  BY <2>1, <2>5
<1>. QED  BY <1>1, <1>5, <1>6

-------------------------------------------------------------------------
(* The memory of a caller of exec.                                       *)

LEMMA ArgArrayIs ==
  /\ ArgArray \in Nat /\ ArgArray < MAXVA + PGSIZE /\ ArgArray < VAMod
<1>. PICK p \in Nat \ {0} : p = PTRSIZE
  BY Sizes
<1>. PICK g \in Nat \ {0} : g = PGSIZE
  BY Sizes
<1>. PICK x \in Nat : x = MAXVA
  BY Sizes
<1>1. g >= 2 * p
  <2>0. PGSIZE % (2 * PTRSIZE) = 0
    BY SizeAssumption, Zenon
  <2>1. g % (2 * p) = 0 /\ 2 * p \in Nat \ {0}
    BY <2>0
  <2>2. g < 2 * p => g % (2 * p) = g
    BY <2>1, ModFacts
  <2>. QED  BY <2>1, <2>2
<1>2. x >= g
  <2>1. x % g = 0 /\ x > 0
    BY Sizes
  <2>2. x < g => x % g = x
    BY ModFacts
  <2>. QED  BY <2>1, <2>2
<1>3. ArgArray = 2 * g - 2 * p - 1
  BY DEF ArgArray
<1>4. x + g <= VAMod /\ VAMod \in Nat
  BY Sizes
<1>. QED  BY <1>1, <1>2, <1>3, <1>4

LEMMA ExecCallsAreTyped ==
  ASSUME NEW c \in ExecCalls
  PROVE  /\ c.argv \in [1 .. MAXARG -> Nat]
         /\ \A i \in 1 .. MAXARG : c.argv[i] \in Nat /\ c.argv[i] < VAMod
         /\ c.size \in Nat \ {0}
         /\ MAXARG \in Nat /\ MAXPATH \in Nat
         /\ ExecMemory(c) \in UserMemory(Nat)
<1>0. MAXARG \in Nat /\ MAXPATH \in Nat
  BY ArgAssumption
<1>1. {0, ShortString, LongString, LongString - 1, Endless} \subseteq 0 .. VAMod - 1
  <2>. PICK g \in Nat : g = PGSIZE /\ g >= 4
    BY Sizes, StringAssumption
  <2>. PICK x \in Nat \ {0} : x = MAXVA
    BY Sizes
  <2>. PICK v \in Nat : v = VAMod /\ x + g <= v
    BY Sizes
  <2>2. x >= g
    <3>1. x % g = 0
      BY Sizes
    <3>2. x < g => x % g = x
      BY ModFacts
    <3>. QED  BY <3>1, <3>2
  <2>3. ShortString = 3 /\ LongString = g - 3 /\ Endless = x - 4
    BY DEF ShortString, LongString, Endless
  <2>4. ShortString \in 0 .. v - 1 /\ LongString \in 0 .. v - 1
        /\ LongString - 1 \in 0 .. v - 1 /\ Endless \in 0 .. v - 1 /\ 0 \in 0 .. v - 1
    BY <2>2, <2>3
  <2>. QED  BY <2>4
<1>2. c.argv \in [1 .. MAXARG -> {0, ShortString, LongString, LongString - 1, Endless}]
      /\ c.size \in {1, 2 * PTRSIZE, 3 * PTRSIZE}
      /\ c.pte \in [0 .. MAXVA \div PGSIZE - 1 -> {"kernel", "write"}]
  BY DEF ExecCalls
<1>3. \A i \in 1 .. MAXARG : c.argv[i] \in 0 .. VAMod - 1
  BY <1>1, <1>2
<1>4. \A i \in 1 .. MAXARG : c.argv[i] \in Nat /\ c.argv[i] < VAMod
  BY <1>3, Sizes
<1>5. c.argv \in [1 .. MAXARG -> Nat]
  BY <1>2, <1>4
<1>6. c.size \in Nat \ {0}
  BY <1>2, Sizes
<1>7. ASSUME NEW a \in VA
      PROVE  ExecMemory(c).byte[a] \in Nat
  <2>0. a \in Nat
    BY DEF VA
  <2>1. CASE a - ArgArray \in 0 .. MAXARG * PTRSIZE - 1
    <3>. PICK i : i = a - ArgArray
      OBVIOUS
    <3>. PICK l \in Nat : l = MAXARG * PTRSIZE
      BY <1>0, Products
    <3>1. i \in 0 .. l - 1 /\ i + 1 \in 1 .. l
      BY <2>1
    <3>2. StoredAll(c.argv) \in Seq(Nat) /\ Len(StoredAll(c.argv)) = l
      BY <1>0, <1>5, StoredAllIs
    <3>3. StoredAll(c.argv)[i + 1] \in Nat
      BY <3>1, <3>2, ElementOfSeq
    <3>4. ExecMemory(c).byte[a] = StoredAll(c.argv)[i + 1]
      BY <2>1 DEF ExecMemory
    <3>. QED  BY <3>3, <3>4
  <2>2. CASE a - ArgArray \notin 0 .. MAXARG * PTRSIZE - 1
    <3>1. ExecMemory(c).byte[a] \in {Nul, (a % 7) + 1}
      BY <2>2 DEF ExecMemory
    <3>2. Nul \in Nat /\ (a % 7) + 1 \in Nat
      BY <2>0 DEF Nul
    <3>. QED  BY <3>1, <3>2
  <2>. QED  BY <2>1, <2>2
<1>8. ExecMemory(c) \in UserMemory(Nat)
  <2>1. DOMAIN ExecMemory(c).byte = VA
        /\ ExecMemory(c).byte = [a \in VA |-> ExecMemory(c).byte[a]]
    BY DEF ExecMemory
  <2>2. ExecMemory(c).byte \in [VA -> Nat]
    BY <1>7, <2>1
  <2>3. ExecMemory(c) = [pte |-> c.pte, byte |-> ExecMemory(c).byte]
    BY DEF ExecMemory
  <2>4. c.pte \in PTEs
    BY <1>2 DEF PTEs
  <2>. QED  BY <2>2, <2>3, <2>4 DEF UserMemory
<1>. QED  BY <1>0, <1>4, <1>5, <1>6, <1>8

\* The pointer i of the caller's array.
LEMMA ArgPointer ==
  ASSUME NEW c \in ExecCalls, NEW i \in Nat, i < MAXARG,
         ArgArray + i * PTRSIZE + PTRSIZE <= MAXVA
  PROVE  /\ Bytes(ExecMemory(c), ArgArray + i * PTRSIZE, PTRSIZE) = Stored(c.argv[i + 1])
         /\ Loaded(Bytes(ExecMemory(c), ArgArray + i * PTRSIZE, PTRSIZE)) = c.argv[i + 1]
<1>0. MAXARG \in Nat /\ c.argv \in [1 .. MAXARG -> Nat]
  BY ExecCallsAreTyped
<1>1. i + 1 \in 1 .. MAXARG
  BY <1>0
<1>2. c.argv[i + 1] \in Nat /\ c.argv[i + 1] < VAMod
  BY <1>1, ExecCallsAreTyped
<1>3. /\ Stored(c.argv[i + 1]) = [j \in 1 .. PTRSIZE |-> Stored(c.argv[i + 1])[j]]
  BY <1>2, StoredIs
<1>4. ASSUME NEW j \in 1 .. PTRSIZE
      PROVE  ExecMemory(c).byte[ArgArray + i * PTRSIZE + j - 1] = Stored(c.argv[i + 1])[j]
  <2>. PICK k \in Nat : k = i * PTRSIZE
    BY Products
  <2>. PICK l \in Nat : l = MAXARG * PTRSIZE /\ k + PTRSIZE <= l
    BY <1>0, Products
  <2>. PICK a : a = ArgArray + k + j - 1
    OBVIOUS
  <2>1. a \in VA /\ a - ArgArray \in 0 .. l - 1 /\ (a - ArgArray) + 1 = k + j
    BY ArgArrayIs, Sizes DEF VA
  <2>2. ExecMemory(c).byte[a] = StoredAll(c.argv)[(a - ArgArray) + 1]
    BY <2>1 DEF ExecMemory
  <2>3. StoredAll(c.argv)[i * PTRSIZE + j] = Stored(c.argv[i + 1])[j]
    <3>1. i \in 0 .. MAXARG - 1
      BY <1>0
    <3>. QED  BY <1>0, <3>1, StoredAllIs
  <2>. QED  BY <2>1, <2>2, <2>3
<1>5. Bytes(ExecMemory(c), ArgArray + i * PTRSIZE, PTRSIZE) = Stored(c.argv[i + 1])
  BY <1>3, <1>4 DEF Bytes
<1>. QED  BY <1>2, <1>5, LoadedStored

-------------------------------------------------------------------------
(* sys_exec's loop.                                                      *)

\* The first n pointers of the caller's array can be read.
ArrayReadable(c, n) ==
  \A a \in c.uargv .. c.uargv + n * PTRSIZE - 1 : Readable(c.mem, a)

\* Any memory, any place for the array, and the pointers that can be read
\* there.
IsCaller(c) ==
  /\ c.mem \in UserMemory(Nat)
  /\ c.uargv \in Nat /\ c.uargv < VAMod
  /\ \A i \in Nat : i < MAXARG /\ ArrayReadable(c, i + 1) =>
       c.argv[i + 1] \in Nat /\ Pointer(c.mem, c.uargv, i) = c.argv[i + 1]

\* s is what the pointer i points to.
IsArg(c, i, s) ==
  /\ c.argv[i] \in Nat /\ c.argv[i] # 0
  /\ Len(s) \in 0 .. MAXPATH - 1
  /\ IsString(c.mem, c.argv[i], Len(s))
  /\ s = Bytes(c.mem, c.argv[i], Len(s))

HasArgs(c, n, got) ==
  /\ n <= MAXARG /\ ArrayReadable(c, n)
  /\ \A i \in 1 .. n : IsArg(c, i, got[i])

NonePassed(c) == \A k \in 0 .. MAXARG : ~ PassedArgs(c, k)

\* What can be read is in memory.
LEMMA ArrayEnds ==
  ASSUME NEW c, c.uargv \in Nat, NEW n \in Nat \ {0}, ArrayReadable(c, n)
  PROVE  c.uargv + n * PTRSIZE <= MAXVA
<1>. PICK k \in Nat : k = n * PTRSIZE
  BY Products
<1>. PICK r \in Nat : r = c.uargv
  OBVIOUS
<1>1. k > 0
  <2>1. 0 * PTRSIZE + PTRSIZE <= k /\ 0 * PTRSIZE = 0
    BY Products
  <2>. QED  BY <2>1, Sizes
<1>2. r + k - 1 \in r .. r + k - 1
  BY <1>1
<1>3. r + k - 1 \in VA
  BY <1>2 DEF ArrayReadable, Readable
<1>. QED  BY <1>3, Sizes DEF VA

LEMMA ArrayInMemory ==
  ASSUME NEW c, IsCaller(c), NEW n \in Nat, ArrayReadable(c, n)
  PROVE  /\ Add(c.uargv, n * PTRSIZE) = c.uargv + n * PTRSIZE
         /\ n > 0 => c.uargv + n * PTRSIZE <= MAXVA
<1>. PICK k \in Nat : k = n * PTRSIZE
  BY Products
<1>. PICK r \in Nat : r = c.uargv /\ r < VAMod
  BY DEF IsCaller
<1>1. n > 0 => r + k <= MAXVA
  BY ArrayEnds
<1>2. n = 0 => k = 0
  BY Products
<1>3. r + k < VAMod
  BY <1>1, <1>2, Sizes
<1>4. (r + k) % VAMod = r + k
  <2>1. r + k \in Int /\ 0 <= r + k /\ VAMod \in Nat \ {0}
    BY Sizes
  <2>. QED  BY <1>3, <2>1, ModFacts
<1>. QED  BY <1>1, <1>4 DEF Add

LEMMA NextPointer ==
  ASSUME NEW c, IsCaller(c), NEW n \in Nat, n < MAXARG, ArrayReadable(c, n),
         NEW u, u = CopyIn(c.mem, Add(c.uargv, n * PTRSIZE), PTRSIZE)
  PROVE  /\ u.ok <=> ArrayReadable(c, n + 1)
         /\ u.ok => Loaded(u.got) = c.argv[n + 1]
<1>. PICK k \in Nat : k = n * PTRSIZE /\ (n + 1) * PTRSIZE = k + PTRSIZE
  BY Products
<1>. PICK r \in Nat : r = c.uargv
  BY DEF IsCaller
<1>1. u = CopyIn(c.mem, r + k, PTRSIZE)
  BY ArrayInMemory
<1>2. /\ u.ok <=> \A a \in r + k .. r + k + PTRSIZE - 1 : Readable(c.mem, a)
      /\ u.ok => u.got = Bytes(c.mem, r + k, PTRSIZE)
  <2>1. c.mem \in UserMemory(Nat) /\ r + k \in Nat /\ PTRSIZE \in Nat
    BY Sizes DEF IsCaller
  <2>2. CopyInAgrees(c.mem, r + k, PTRSIZE)
    BY <2>1, CopyInIsExact
  <2>. QED  BY <1>1, <2>2 DEF CopyInAgrees
<1>3. u.ok <=> ArrayReadable(c, n + 1)
  <2>1. \A a \in r .. r + k - 1 : Readable(c.mem, a)
    BY DEF ArrayReadable
  <2>2. \A a \in r .. r + (k + PTRSIZE) - 1 :
          a \in r .. r + k - 1 \/ a \in r + k .. r + k + PTRSIZE - 1
    BY Sizes
  <2>3. \A a \in r + k .. r + k + PTRSIZE - 1 : a \in r .. r + (k + PTRSIZE) - 1
    BY Sizes
  <2>4. ArrayReadable(c, n + 1) <=>
          \A a \in r .. r + (k + PTRSIZE) - 1 : Readable(c.mem, a)
    BY DEF ArrayReadable
  <2>. QED  BY <1>2, <2>1, <2>2, <2>3, <2>4
<1>4. ASSUME u.ok
      PROVE  Loaded(u.got) = c.argv[n + 1]
  <2>1. Pointer(c.mem, c.uargv, n) = c.argv[n + 1]
    BY <1>3, <1>4 DEF IsCaller
  <2>2. u.got = Bytes(c.mem, c.uargv + n * PTRSIZE, PTRSIZE)
    BY <1>2, <1>4
  <2>. QED  BY <2>1, <2>2 DEF Pointer
<1>. QED  BY <1>3, <1>4

\* An argument that was collected is not the end.
LEMMA NotFewer ==
  ASSUME NEW c, NEW n \in Nat, NEW got, HasArgs(c, n, got),
         NEW k \in Nat, PassedArgs(c, k)
  PROVE  k >= n
<1>1. ASSUME k < n
      PROVE  FALSE
  <2>1. k + 1 \in 1 .. n /\ c.argv[k + 1] = 0
    BY <1>1 DEF PassedArgs
  <2>. QED  BY <2>1 DEF HasArgs, IsArg
<1>. QED  BY <1>1

LEMMA TooMany ==
  ASSUME NEW c, NEW n \in Nat, NEW got, HasArgs(c, n, got), n >= MAXARG
  PROVE  NonePassed(c)
<1>1. ASSUME NEW k \in 0 .. MAXARG, PassedArgs(c, k)
      PROVE  FALSE
  <2>0. MAXARG \in Nat /\ k \in Nat
    BY ArgAssumption
  <2>1. k < MAXARG
    BY <1>1 DEF PassedArgs
  <2>2. k >= n
    BY <1>1, <2>0, NotFewer
  <2>. QED  BY <2>0, <2>1, <2>2
<1>. QED  BY <1>1 DEF NonePassed

LEMMA EndUnreadable ==
  ASSUME NEW c, IsCaller(c), NEW n \in Nat, NEW got, HasArgs(c, n, got),
         ~ ArrayReadable(c, n + 1)
  PROVE  NonePassed(c)
<1>1. ASSUME NEW k \in 0 .. MAXARG, PassedArgs(c, k)
      PROVE  FALSE
  <2>0. k \in Nat
    OBVIOUS
  <2>2. k >= n
    BY <1>1, <2>0, NotFewer
  <2>. PICK x \in Nat : x = (n + 1) * PTRSIZE
    BY Products
  <2>. PICK y \in Nat : y = (k + 1) * PTRSIZE
    BY Products
  <2>3. x <= y
    <3>1. CASE k = n
      BY <3>1
    <3>2. CASE k > n
      <4>1. n + 1 \in Nat /\ k + 1 \in Nat /\ n + 1 < k + 1
        BY <3>2
      <4>2. (n + 1) * PTRSIZE + PTRSIZE <= (k + 1) * PTRSIZE
        BY <4>1, Products
      <4>. QED  BY <4>2, Sizes
    <3>. QED  BY <2>2, <3>1, <3>2
  <2>4. \A a \in c.uargv .. c.uargv + y - 1 : Readable(c.mem, a)
    BY <1>1 DEF PassedArgs
  <2>5. \A a \in c.uargv .. c.uargv + x - 1 : a \in c.uargv .. c.uargv + y - 1
    <3>. PICK r \in Nat : r = c.uargv
      BY DEF IsCaller
    <3>. QED  BY <2>3
  <2>. QED  BY <2>4, <2>5 DEF ArrayReadable
<1>. QED  BY <1>1 DEF NonePassed

LEMMA StringUnreadable ==
  ASSUME NEW c, NEW n \in Nat, NEW got, HasArgs(c, n, got),
         c.argv[n + 1] # 0,
         ~ \E l \in 0 .. MAXPATH - 1 : IsString(c.mem, c.argv[n + 1], l)
  PROVE  NonePassed(c)
<1>1. ASSUME NEW k \in 0 .. MAXARG, PassedArgs(c, k)
      PROVE  FALSE
  <2>0. k \in Nat
    OBVIOUS
  <2>2. k >= n
    BY <1>1, <2>0, NotFewer
  <2>3. k # n
    BY <1>1 DEF PassedArgs
  <2>4. n + 1 \in 1 .. k
    BY <2>0, <2>2, <2>3
  <2>. QED  BY <1>1, <2>4 DEF PassedArgs
<1>. QED  BY <1>1 DEF NonePassed

LEMMA AllCollected ==
  ASSUME NEW c, NEW n \in Nat, NEW got, HasArgs(c, n, got), n < MAXARG,
         ArrayReadable(c, n + 1), c.argv[n + 1] = 0
  PROVE  PassedArgs(c, n)
<1>1. \A i \in 1 .. n : /\ c.argv[i] # 0
                        /\ \E k \in 0 .. MAXPATH - 1 :
                             IsString(c.mem, c.argv[i], k)
  <2>1. \A i \in 1 .. n : /\ c.argv[i] # 0 /\ Len(got[i]) \in 0 .. MAXPATH - 1
                          /\ IsString(c.mem, c.argv[i], Len(got[i]))
    BY DEF HasArgs, IsArg
  <2>. QED  BY <2>1
<1>. QED  BY <1>1 DEF PassedArgs, ArrayReadable

\* A string ends at its first Nul.
LEMMA OneString ==
  ASSUME NEW m, NEW va \in Nat, NEW k \in Nat, NEW l \in Nat,
         IsString(m, va, k), IsString(m, va, l)
  PROVE  k = l
<1>1. k < l => va + k \in va .. va + l - 1
  OBVIOUS
<1>2. l < k => va + l \in va .. va + k - 1
  OBVIOUS
<1>3. ~ (k < l) /\ ~ (l < k)
  BY <1>1, <1>2 DEF IsString
<1>. QED  BY <1>3

\* Lists of strings.
ArgLists == Seq(Seq(Nat))

LEMMA ArgListIs ==
  ASSUME NEW args \in ArgLists
  PROVE  Len(args) \in Nat /\ \A i \in 1 .. Len(args) : args[i] \in Seq(Nat)
BY LenProperties, ElementOfSeq DEF ArgLists

LEMMA ArgListGrows ==
  ASSUME NEW args \in ArgLists, NEW s \in Seq(Nat)
  PROVE  /\ Append(args, s) \in ArgLists /\ Len(Append(args, s)) = Len(args) + 1
         /\ \A i \in 1 .. Len(args) : Append(args, s)[i] = args[i]
         /\ Append(args, s)[Len(args) + 1] = s
BY AppendProperties DEF ArgLists

LEMMA NoArgs == <<>> \in ArgLists /\ Len(<<>>) = 0
BY EmptySeq DEF ArgLists

LEMMA OneMoreArg ==
  ASSUME NEW c, NEW n \in Nat, NEW got \in ArgLists, Len(got) = n,
         HasArgs(c, n, got), n < MAXARG, ArrayReadable(c, n + 1),
         NEW s \in Seq(Nat), IsArg(c, n + 1, s)
  PROVE  /\ Append(got, s) \in ArgLists /\ Len(Append(got, s)) = n + 1
         /\ HasArgs(c, n + 1, Append(got, s))
<1>1. /\ Append(got, s) \in ArgLists /\ Len(Append(got, s)) = n + 1
      /\ \A i \in 1 .. n : Append(got, s)[i] = got[i]
      /\ Append(got, s)[n + 1] = s
  BY ArgListGrows
<1>2. n + 1 <= MAXARG
  BY ArgAssumption
<1>. PICK new : new = Append(got, s)
  OBVIOUS
<1>3. ASSUME NEW i \in 1 .. n + 1
      PROVE  IsArg(c, i, new[i])
  <2>1. CASE i \in 1 .. n
    <3>1. new[i] = got[i] /\ IsArg(c, i, got[i])
      BY <1>1, <2>1 DEF HasArgs
    <3>. QED  BY <3>1
  <2>2. CASE i = n + 1
    <3>1. new[i] = s
      BY <1>1, <2>2
    <3>. QED  BY <2>2, <3>1
  <2>. QED  BY <2>1, <2>2
<1>. QED  BY <1>1, <1>2, <1>3 DEF HasArgs

CollectState == [ok : BOOLEAN, end : BOOLEAN, got : ArgLists]

\* What the loop knows of the caller's arguments.
Collected(c, st) ==
  /\ st.ok => HasArgs(c, Len(st.got), st.got)
  /\ st.ok /\ st.end => PassedArgs(c, Len(st.got))
  /\ ~ st.ok => NonePassed(c)

\* A round ends the loop or gets an argument.
LEMMA CollectRoundKeeps ==
  ASSUME NEW c, IsCaller(c), NEW st \in CollectState, Collected(c, st),
         NEW new, new = CollectRound(c.mem, c.uargv, st)
  PROVE  /\ new \in CollectState /\ Collected(c, new)
         /\ ~ st.ok \/ st.end => new = st
         /\ new.ok /\ ~ new.end => Len(new.got) = Len(st.got) + 1
<1>. PICK n : n = Len(st.got) /\ n \in Nat
  BY ArgListIs DEF CollectState
<1>. PICK m : m = c.mem
  OBVIOUS
<1>. PICK u : u = CopyIn(m, Add(c.uargv, n * PTRSIZE), PTRSIZE)
  OBVIOUS
<1>. PICK s : s = CopyInStr(m, Loaded(u.got), MAXPATH)
  OBVIOUS
<1>0. st.ok \in BOOLEAN /\ st.end \in BOOLEAN /\ st.got \in ArgLists
  BY DEF CollectState
<1>1. CASE ~ st.ok \/ st.end
  <2>1. new = st
    BY <1>1 DEF CollectRound
  <2>. QED  BY <1>0, <1>1, <2>1
<1>2. CASE st.ok /\ ~ st.end
  <2>1. HasArgs(c, n, st.got) /\ n <= MAXARG /\ ArrayReadable(c, n)
    BY <1>2 DEF Collected, HasArgs
  <2>2. ASSUME new = [st EXCEPT !.ok = FALSE], NonePassed(c)
        PROVE  new \in CollectState /\ Collected(c, new) /\ ~ new.ok
    <3>1. new = [ok |-> FALSE, end |-> st.end, got |-> st.got]
      BY <2>2 DEF CollectState
    <3>. QED  BY <1>0, <2>2, <3>1 DEF CollectState, Collected
  <2>3. CASE n >= MAXARG
    <3>1. new = [st EXCEPT !.ok = FALSE]
      BY <1>2, <2>3 DEF CollectRound
    <3>2. NonePassed(c)
      BY <2>1, <2>3, TooMany
    <3>. QED  BY <1>2, <2>2, <3>1, <3>2
  <2>4. CASE n < MAXARG
    <3>0. ~ (n >= MAXARG)
      BY <2>4, ArgAssumption
    <3>1. /\ u.ok <=> ArrayReadable(c, n + 1)
          /\ u.ok => Loaded(u.got) = c.argv[n + 1]
      BY <2>1, <2>4, NextPointer
    <3>2. CASE ~ u.ok
      <4>1. new = [st EXCEPT !.ok = FALSE]
        BY <1>2, <3>2 DEF CollectRound
      <4>2. NonePassed(c)
        BY <2>1, <3>1, <3>2, EndUnreadable
      <4>. QED  BY <1>2, <2>2, <4>1, <4>2
    <3>3. CASE u.ok /\ c.argv[n + 1] = 0
      <4>1. new = [st EXCEPT !.end = TRUE]
        BY <1>2, <3>0, <3>1, <3>3 DEF CollectRound
      <4>2. new = [ok |-> st.ok, end |-> TRUE, got |-> st.got]
        BY <4>1 DEF CollectState
      <4>3. PassedArgs(c, n)
        BY <2>1, <2>4, <3>1, <3>3, AllCollected
      <4>. QED  BY <1>0, <1>2, <2>1, <4>2, <4>3 DEF CollectState, Collected
    <3>4. CASE u.ok /\ c.argv[n + 1] # 0
      <4>. PICK va \in Nat : va = c.argv[n + 1]
        BY <2>4, <3>1, <3>4 DEF IsCaller
      <4>1. s = CopyInStr(m, va, MAXPATH) /\ Loaded(u.got) # 0
        BY <3>1, <3>4
      <4>2. /\ s.ok <=> \E k \in 0 .. MAXPATH - 1 : IsString(m, va, k)
            /\ s.ok => IsString(m, va, Len(s.got)) /\ s.got = Bytes(m, va, Len(s.got))
        <5>1. m \in UserMemory(Nat) /\ MAXPATH \in Nat
          BY ArgAssumption DEF IsCaller
        <5>2. CopyInStrAgrees(m, va, MAXPATH)
          BY <5>1, CopyInStrIsExact
        <5>. QED  BY <4>1, <5>2 DEF CopyInStrAgrees
      <4>3. CASE ~ s.ok
        <5>1. new = [st EXCEPT !.ok = FALSE]
          BY <1>2, <3>0, <3>4, <4>1, <4>3 DEF CollectRound
        <5>2. NonePassed(c)
          BY <2>1, <3>4, <4>2, <4>3, StringUnreadable
        <5>. QED  BY <1>2, <2>2, <5>1, <5>2
      <4>4. CASE s.ok
        <5>1. new = [st EXCEPT !.got = Append(@, s.got)]
          BY <1>2, <3>0, <3>4, <4>1, <4>4 DEF CollectRound
        <5>2. new = [ok |-> TRUE, end |-> FALSE, got |-> Append(st.got, s.got)]
          BY <1>0, <1>2, <5>1 DEF CollectState
        <5>3. s.got \in Seq(Nat) /\ IsArg(c, n + 1, s.got)
          <6>1. s.got \in Seq(Nat)
            <7>1. m \in UserMemory(Nat) /\ MAXPATH \in Nat
              BY ArgAssumption DEF IsCaller
            <7>. QED  BY <4>1, <7>1, CopyInStrIsExact
          <6>2. PICK k \in 0 .. MAXPATH - 1 : IsString(m, va, k)
            BY <4>2, <4>4
          <6>3. PICK l \in Nat : l = Len(s.got)
            BY <6>1, LenProperties
          <6>4. l = k
            <7>. k \in Nat
              OBVIOUS
            <7>. QED  BY <4>2, <4>4, <6>2, <6>3, OneString
          <6>. QED  BY <3>4, <4>2, <4>4, <6>1, <6>2, <6>3, <6>4 DEF IsArg
        <5>4. /\ Append(st.got, s.got) \in ArgLists
              /\ Len(Append(st.got, s.got)) = n + 1
              /\ HasArgs(c, n + 1, Append(st.got, s.got))
          BY <1>0, <2>1, <2>4, <3>1, <3>4, <5>3, OneMoreArg
        <5>. QED  BY <1>2, <5>2, <5>4 DEF CollectState, Collected
      <4>. QED  BY <4>3, <4>4
    <3>. QED  BY <3>2, <3>3, <3>4
  <2>. QED  BY <2>1, <2>3, <2>4, ArgAssumption
<1>. QED  BY <1>0, <1>1, <1>2

\* The states that the loop can be in.
CollectStates(c) == {st \in CollectState : Collected(c, st)}

LEMMA CollectRecursion ==
  ASSUME NEW c, IsCaller(c), NEW x \in CollectStates(c)
  PROVE  \E g : g = [i \in Nat |->
                       IF i = 0 THEN x
                       ELSE CollectRound(c.mem, c.uargv, g[i - 1])]
<1>. DEFINE S    == CollectStates(c)
            step == [st \in S |-> CollectRound(c.mem, c.uargv, st)]
<1>1. step \in [S -> S]
  BY CollectRoundKeeps DEF CollectStates
<1>2. PICK g \in [Nat -> S] : g[0] = x /\ \A i \in Nat : g[i + 1] = step[g[i]]
  <2>1. x \in S
    OBVIOUS
  <2>. HIDE DEF S, step
  <2>2. HasRun(S, x, step)
    BY <1>1, <2>1, Recursion
  <2>. QED  BY <2>2 DEF HasRun
<1>3. ASSUME NEW i \in Nat, i # 0
      PROVE  g[i] = CollectRound(c.mem, c.uargv, g[i - 1])
  <2>1. i - 1 \in Nat /\ (i - 1) + 1 = i
    BY <1>3
  <2>2. g[i - 1] \in S
    BY <2>1
  <2>. QED  BY <1>2, <2>1, <2>2
<1>. QED  BY <1>2, <1>3

LEMMA CollectRuns ==
  ASSUME NEW c, IsCaller(c)
  PROVE  \E g : /\ CollectArgs(c.mem, c.uargv) = g[MAXARG + 1]
                /\ g[0] = [ok |-> TRUE, end |-> FALSE, got |-> <<>>]
                /\ g[0] \in CollectStates(c)
                /\ \A i \in Nat :
                     g[i + 1] = CollectRound(c.mem, c.uargv, g[i])
<1>. DEFINE x == [ok |-> TRUE, end |-> FALSE, got |-> <<>>]
            h == CHOOSE h : h = [i \in Nat |->
                   IF i = 0 THEN x
                   ELSE CollectRound(c.mem, c.uargv, h[i - 1])]
<1>1. x \in CollectStates(c)
  <2>1. <<>> \in ArgLists /\ Len(<<>>) = 0
    BY NoArgs
  <2>2. HasArgs(c, 0, <<>>)
    <3>1. 0 * PTRSIZE = 0 /\ MAXARG \in Nat
      BY Products, ArgAssumption
    <3>2. c.uargv .. c.uargv + 0 * PTRSIZE - 1 = {}
      BY <3>1 DEF IsCaller
    <3>. QED  BY <3>1, <3>2 DEF HasArgs, ArrayReadable
  <2>. QED  BY <2>1, <2>2 DEF CollectStates, CollectState, Collected
<1>2. CollectArgs(c.mem, c.uargv) = h[MAXARG + 1]
  BY DEF CollectArgs, Rounds
<1>. HIDE DEF x
<1>3. \E g : g = [i \in Nat |->
                    IF i = 0 THEN x
                    ELSE CollectRound(c.mem, c.uargv, g[i - 1])]
  BY <1>1, CollectRecursion
<1>4. h = [i \in Nat |-> IF i = 0 THEN x
                         ELSE CollectRound(c.mem, c.uargv, h[i - 1])]
  BY <1>3, Zenon
<1>. HIDE DEF h
<1>5. h[0] = x /\ \A i \in Nat : h[i + 1] = CollectRound(c.mem, c.uargv, h[i])
  BY <1>4
<1>. QED  BY <1>1, <1>2, <1>5 DEF x

\* The loop gets the arguments of the caller, or there are none to get.
LEMMA CollectIsExact ==
  ASSUME NEW c, IsCaller(c), NEW a, a = CollectArgs(c.mem, c.uargv)
  PROVE  /\ a.ok \in BOOLEAN /\ a.got \in ArgLists
         /\ a.ok => HasArgs(c, Len(a.got), a.got) /\ PassedArgs(c, Len(a.got))
         /\ ~ a.ok => NonePassed(c)
<1>. PICK n \in Nat : n = MAXARG + 1
  BY ArgAssumption
<1>1. PICK g : /\ a = g[n]
               /\ g[0] = [ok |-> TRUE, end |-> FALSE, got |-> <<>>]
               /\ g[0] \in CollectStates(c)
               /\ \A i \in Nat :
                    g[i + 1] = CollectRound(c.mem, c.uargv, g[i])
  BY CollectRuns
<1>. DEFINE R == {i \in Nat : /\ g[i] \in CollectState /\ Collected(c, g[i])
                              /\ g[i].ok /\ ~ g[i].end => Len(g[i].got) = i}
<1>2. 0 \in R
  <2>1. Len(g[0].got) = 0
    BY <1>1, NoArgs
  <2>. QED  BY <1>1, <2>1 DEF CollectStates
<1>3. ASSUME NEW i \in Nat, i \in R
      PROVE  i + 1 \in R
  <2>. PICK st : st = g[i]
    OBVIOUS
  <2>. PICK new : new = g[i + 1]
    OBVIOUS
  <2>1. st \in CollectState /\ Collected(c, st)
        /\ (st.ok /\ ~ st.end => Len(st.got) = i)
    BY <1>3
  <2>2. new = CollectRound(c.mem, c.uargv, st)
    BY <1>1
  <2>3. /\ new \in CollectState /\ Collected(c, new)
        /\ ~ st.ok \/ st.end => new = st
        /\ new.ok /\ ~ new.end => Len(new.got) = Len(st.got) + 1
    BY <2>1, <2>2, CollectRoundKeeps
  <2>4. ASSUME new.ok, ~ new.end
        PROVE  Len(new.got) = i + 1
    <3>1. st.ok /\ ~ st.end
      BY <2>3, <2>4
    <3>. QED  BY <2>1, <2>3, <2>4, <3>1
  <2>. QED  BY <2>3, <2>4
<1>. HIDE DEF R
<1>4. n \in R
  BY <1>2, <1>3, Induction
<1>5. a \in CollectState /\ Collected(c, a) /\ (a.ok /\ ~ a.end => Len(a.got) = n)
  BY <1>1, <1>4 DEF R
<1>6. a.ok => Len(a.got) <= MAXARG
  BY <1>5 DEF Collected, HasArgs
<1>7. a.ok => a.end
  <2>1. ~ (n <= MAXARG)
    BY ArgAssumption
  <2>. QED  BY <1>5, <1>6, <2>1
<1>. QED  BY <1>5, <1>7 DEF CollectState, Collected

-------------------------------------------------------------------------
(* Where the strings go.                                                 *)

LEMMA AlignDownIs ==
  ASSUME NEW p \in Nat \ {0}, NEW x \in Int
  PROVE  /\ AlignDown(x, p) \in Int /\ AlignDown(x, p) <= x
         /\ AlignDown(x, p) % p = 0
<1>1. /\ x = p * (x \div p) + (x % p) /\ x % p \in 0 .. p - 1
      /\ x \div p \in Int /\ p * (x \div p) \in Int
  BY DivMod, Multiples
<1>2. AlignDown(x, p) = p * (x \div p)
  BY <1>1 DEF AlignDown
<1>3. (p * (x \div p)) % p = 0
  BY <1>1, MultipleOf
<1>. QED  BY <1>1, <1>2, <1>3

\* What is above a multiple stays above it.
LEMMA AlignDownAbove ==
  ASSUME NEW p \in Nat \ {0}, NEW x \in Int, NEW b \in Int, b % p = 0, b <= x
  PROVE  AlignDown(x, p) >= b
<1>. PICK a \in Nat : a = x - b
  OBVIOUS
<1>0. a \in Int /\ a + b = x
  OBVIOUS
<1>1. (a + b) % p = a % p
  BY <1>0, AddMultiple
<1>2. a % p <= a /\ a % p \in Nat
  <2>1. a % p \in 0 .. p - 1
    BY <1>0, ModFacts
  <2>. QED  BY <2>1, RemainderIsLess
<1>3. x % p = a % p
  BY <1>0, <1>1
<1>. QED  BY <1>0, <1>2, <1>3 DEF AlignDown

LEMMA PageIsAligned ==
  /\ PTRSIZE \in Nat \ {0} /\ 2 * PTRSIZE \in Nat \ {0}
  /\ PGSIZE % PTRSIZE = 0 /\ PGSIZE % (2 * PTRSIZE) = 0
  /\ PGSIZE <= MAXVA
<1>1. PGSIZE % (2 * PTRSIZE) = 0
  BY SizeAssumption, Zenon
<1>. PICK p \in Nat \ {0} : p = PTRSIZE
  BY Sizes
<1>. PICK g \in Nat \ {0} : g = PGSIZE
  BY Sizes
<1>. PICK d \in Nat \ {0} : d = 2 * p
  OBVIOUS
<1>2. g % d = 0 /\ g \in Int
  BY <1>1
<1>3. g = d * (g \div d) + (g % d) /\ g \div d \in Int
  BY <1>2, DivMod
<1>4. PICK q \in Int : g = (2 * p) * q
  <2>1. PICK q \in Int : q = g \div d
    BY <1>3
  <2>2. d * q \in Int
    OBVIOUS
  <2>3. g = d * q
    BY <1>2, <1>3, <2>1, <2>2
  <2>. QED  BY <2>3
<1>5. (2 * p) * q = p * (2 * q) /\ 2 * q \in Int
  OBVIOUS
<1>6. g % p = 0
  BY <1>4, <1>5, MultipleOf
<1>7. g <= MAXVA
  <2>. PICK x \in Nat \ {0} : x = MAXVA /\ x % g = 0
    BY Sizes
  <2>1. x < g => x % g = x
    BY ModFacts
  <2>. QED  BY <2>1
<1>. QED  BY <1>1, <1>6, <1>7

\* The same without remainders.
LEMMA PageInMemory ==
  PGSIZE \in Nat \ {0} /\ MAXVA \in Nat \ {0} /\ PGSIZE <= MAXVA
BY Sizes, PageIsAligned

LEMMA InMemory ==
  ASSUME NEW a \in Int, a >= 0, a < PGSIZE
  PROVE  a \in VA
BY PageInMemory DEF VA

\* Subtracting n bytes from sp and aligning: the address itself, or one above
\* the page of the stack when the subtraction wraps.
IsRoom(sp, n, p, new) ==
  /\ new \in Nat
  /\ sp >= n => new = AlignDown(sp - n, p) /\ new + n <= sp
  /\ sp < n => new >= PGSIZE /\ AlignDown(sp - n, p) < 0

LEMMA RoomIs ==
  ASSUME NEW sp \in Nat, sp <= PGSIZE, NEW n \in Nat, n <= MAXVA,
         NEW p \in Nat \ {0}, PGSIZE % p = 0,
         NEW new, new = AlignDown(Sub(sp, n), p)
  PROVE  IsRoom(sp, n, p, new)
<1>. PICK w \in Nat \ {0} : w = VAMod
  BY Sizes
<1>. PICK g \in Nat \ {0} : g = PGSIZE
  BY Sizes
<1>. PICK x \in Int : x = sp - n
  OBVIOUS
<1>0. g < w /\ MAXVA + g <= w /\ MAXVA \in Nat /\ g % p = 0
  BY Sizes
<1>1. CASE sp >= n
  <2>0. x \in Nat /\ 0 <= x /\ x < w
    BY <1>0, <1>1
  <2>1. x % w = x
    BY <2>0, ModFacts
  <2>2. new = AlignDown(x, p)
    BY <2>1 DEF Sub
  <2>3. AlignDown(x, p) \in Int /\ AlignDown(x, p) <= x
    BY AlignDownIs
  <2>4. AlignDown(x, p) >= 0
    <3>1. 0 % p = 0
      BY ModFacts
    <3>. QED  BY <2>0, <3>1, AlignDownAbove
  <2>. QED  BY <1>1, <2>0, <2>2, <2>3, <2>4 DEF IsRoom
<1>2. CASE sp < n
  <2>1. -w <= x /\ x < 0
    BY <1>0, <1>2
  <2>2. x % w = x + w
    BY <2>1, ModFacts
  <2>. PICK y \in Int : y = x + w
    OBVIOUS
  <2>3. new = AlignDown(y, p) /\ y >= g
    BY <1>0, <2>2 DEF Sub
  <2>4. AlignDown(y, p) \in Int /\ AlignDown(y, p) >= g
    <3>1. g \in Int /\ g <= y /\ g % p = 0
      BY <1>0, <2>3
    <3>2. AlignDown(y, p) >= g
      BY <3>1, AlignDownAbove
    <3>. QED  BY <3>2, AlignDownIs
  <2>5. AlignDown(x, p) \in Int /\ AlignDown(x, p) <= x
    BY AlignDownIs
  <2>. QED  BY <1>2, <2>1, <2>3, <2>4, <2>5 DEF IsRoom
<1>. QED  BY <1>1, <1>2

\* An argument: it fits in memory, and where it ends.
LEMMA ArgIs ==
  ASSUME NEW c, IsCaller(c), NEW i \in 1 .. MAXARG, NEW s \in Seq(Nat), IsArg(c, i, s)
  PROVE  /\ Len(s) \in Nat /\ Len(s) + 1 <= MAXVA
         /\ StringLen(c.mem, c.argv[i]) = Len(s)
         /\ \A j \in 1 .. Len(s) : s[j] # Nul
<1>. PICK l \in Nat : l = Len(s)
  BY LenProperties
<1>. PICK va \in Nat : va = c.argv[i]
  BY DEF IsArg
<1>. PICK m : m = c.mem
  OBVIOUS
<1>1. IsString(m, va, l) /\ s = Bytes(m, va, l)
  BY DEF IsArg
<1>2. l + 1 <= MAXVA
  <2>1. va + l \in va .. va + l
    OBVIOUS
  <2>2. va + l \in VA
    BY <1>1, <2>1 DEF IsString, Readable
  <2>. QED  BY <2>2, Sizes DEF VA
<1>3. \A k \in 0 .. MAXVA : IsString(m, va, k) => k = l
  <2>1. \A k \in 0 .. MAXVA : k \in Nat
    OBVIOUS
  <2>. QED  BY <1>1, <2>1, OneString
<1>4. StringLen(m, va) = l
  <2>1. l \in 0 .. MAXVA
    BY <1>2, Sizes
  <2>. QED  BY <1>1, <1>3, <2>1 DEF StringLen
<1>5. ASSUME NEW j \in 1 .. l
      PROVE  s[j] # Nul
  <2>1. s[j] = m.byte[va + j - 1]
    BY <1>1 DEF Bytes
  <2>2. va + j - 1 \in va .. va + l - 1
    OBVIOUS
  <2>. QED  BY <1>1, <2>1, <2>2 DEF IsString
<1>. QED  BY <1>2, <1>4, <1>5

\* Where each string goes, were addresses whole numbers.
IsTop(args, n, top) ==
  /\ top \in [0 .. n -> Int]
  /\ top[0] = PGSIZE
  /\ \A i \in 1 .. n : top[i] = AlignDown(top[i - 1] - Len(args[i]) - 1, PTRSIZE)

LEMMA TopsExist ==
  ASSUME NEW args \in ArgLists, NEW n \in Nat, n = Len(args)
  PROVE  \E top : IsTop(args, n, top)
<1>. DEFINE L(i) == IF i \in 1 .. n THEN Len(args[i]) ELSE 0
            step == [e \in Nat \X Int |->
                       AlignDown(e[2] - L(e[1] + 1) - 1, PTRSIZE)]
<1>0. \A i \in 1 .. n : args[i] \in Seq(Nat)
  BY ArgListIs
<1>1. \A i \in Nat : L(i) \in Nat
  BY <1>0, LenProperties
<1>. HIDE DEF L
<1>2. step \in [Nat \X Int -> Int]
  <2>1. ASSUME NEW e \in Nat \X Int
        PROVE  AlignDown(e[2] - L(e[1] + 1) - 1, PTRSIZE) \in Int
    <3>1. e[1] + 1 \in Nat /\ e[2] \in Int
      OBVIOUS
    <3>2. e[2] - L(e[1] + 1) - 1 \in Int
      BY <1>1, <3>1
    <3>. QED  BY <3>2, PageIsAligned, AlignDownIs
  <2>. QED  BY <2>1
<1>3. PICK g \in [Nat -> Int] : /\ g[0] = PGSIZE
                                /\ \A i \in Nat : g[i + 1] = step[<<i, g[i]>>]
  <2>1. PGSIZE \in Int
    BY Sizes
  <2>. HIDE DEF step
  <2>2. HasIndexedRun(Int, PGSIZE, step)
    BY <1>2, <2>1, IndexedRecursion
  <2>. QED  BY <2>2 DEF HasIndexedRun
<1>4. ASSUME NEW i \in 1 .. n
      PROVE  g[i] = AlignDown(g[i - 1] - Len(args[i]) - 1, PTRSIZE)
  <2>. PICK j \in Nat : j = i - 1 /\ j + 1 = i
    OBVIOUS
  <2>1. g[j + 1] = step[<<j, g[j]>>] /\ <<j, g[j]>> \in Nat \X Int
    BY <1>3
  <2>2. g[j + 1] = AlignDown(g[j] - L(j + 1) - 1, PTRSIZE)
    BY <2>1
  <2>3. L(i) = Len(args[i])
    BY DEF L
  <2>. QED  BY <2>2, <2>3
<1>. DEFINE top == [i \in 0 .. n |-> g[i]]
<1>5. top \in [0 .. n -> Int] /\ top[0] = PGSIZE
  BY <1>3
<1>6. \A i \in 1 .. n : top[i] = AlignDown(top[i - 1] - Len(args[i]) - 1, PTRSIZE)
  <2>. SUFFICES ASSUME NEW i \in 1 .. n
                PROVE  top[i] = AlignDown(top[i - 1] - Len(args[i]) - 1, PTRSIZE)
    OBVIOUS
  <2>1. i \in 0 .. n /\ i - 1 \in 0 .. n
    OBVIOUS
  <2>2. top[i] = g[i] /\ top[i - 1] = g[i - 1]
    BY <2>1
  <2>. QED  BY <1>4, <2>2
<1>. HIDE DEF top
<1>. QED  BY <1>5, <1>6 DEF IsTop

LEMMA StackTops ==
  ASSUME NEW c, IsCaller(c), NEW n \in Nat, NEW args \in ArgLists,
         Len(args) = n, HasArgs(c, n, args)
  PROVE  \E top : /\ IsTop(args, n, top)
                  /\ StackEnd(c, n) =
                       AlignDown(top[n] - (n + 1) * PTRSIZE, 2 * PTRSIZE)
<1>. DEFINE h == CHOOSE h : h = [i \in 0 .. n |->
                   IF i = 0 THEN PGSIZE
                   ELSE AlignDown(h[i - 1] - StringLen(c.mem, c.argv[i]) - 1,
                                  PTRSIZE)]
<1>1. StackEnd(c, n) = AlignDown(h[n] - (n + 1) * PTRSIZE, 2 * PTRSIZE)
  BY DEF StackEnd
<1>2. \A i \in 1 .. n : StringLen(c.mem, c.argv[i]) = Len(args[i])
  <2>. SUFFICES ASSUME NEW i \in 1 .. n
                PROVE  StringLen(c.mem, c.argv[i]) = Len(args[i])
    OBVIOUS
  <2>1. i \in 1 .. MAXARG
    BY ArgAssumption DEF HasArgs
  <2>2. args[i] \in Seq(Nat) /\ IsArg(c, i, args[i])
    BY ArgListIs DEF HasArgs
  <2>. QED  BY <2>1, <2>2, ArgIs
<1>3. PICK g : IsTop(args, n, g)
  BY TopsExist
<1>4. g = [i \in 0 .. n |->
             IF i = 0 THEN PGSIZE
             ELSE AlignDown(g[i - 1] - StringLen(c.mem, c.argv[i]) - 1,
                            PTRSIZE)]
  <2>1. ASSUME NEW i \in 0 .. n
        PROVE  g[i] = IF i = 0 THEN PGSIZE
                      ELSE AlignDown(g[i - 1] - StringLen(c.mem, c.argv[i]) - 1,
                                     PTRSIZE)
    <3>1. CASE i = 0
      BY <1>3, <3>1 DEF IsTop
    <3>2. CASE i # 0
      <4>1. i \in 1 .. n
        BY <3>2
      <4>2. g[i] = AlignDown(g[i - 1] - Len(args[i]) - 1, PTRSIZE)
        BY <1>3, <4>1 DEF IsTop
      <4>. QED  BY <1>2, <3>2, <4>1, <4>2
    <3>. QED  BY <3>1, <3>2
  <2>2. g \in [0 .. n -> Int]
    BY <1>3 DEF IsTop
  <2>. QED  BY <2>1, <2>2
<1>5. h = [i \in 0 .. n |->
             IF i = 0 THEN PGSIZE
             ELSE AlignDown(h[i - 1] - StringLen(c.mem, c.argv[i]) - 1,
                            PTRSIZE)]
  BY <1>4, Zenon
<1>. HIDE DEF h
<1>6. h[0] = PGSIZE
  <2>1. 0 \in 0 .. n
    OBVIOUS
  <2>. QED  BY <1>5, <2>1
<1>7. ASSUME NEW i \in 1 .. n
      PROVE  h[i] = AlignDown(h[i - 1] - Len(args[i]) - 1, PTRSIZE)
  <2>1. i \in 0 .. n /\ i # 0
    OBVIOUS
  <2>2. h[i] = AlignDown(h[i - 1] - StringLen(c.mem, c.argv[i]) - 1, PTRSIZE)
    BY <1>5, <2>1
  <2>. QED  BY <1>2, <2>2
<1>. DEFINE R == {i \in Nat : i <= n => h[i] = g[i]}
<1>8. 0 \in R
  BY <1>3, <1>6 DEF IsTop
<1>9. ASSUME NEW i \in Nat, i \in R
      PROVE  i + 1 \in R
  <2>. SUFFICES ASSUME i + 1 <= n
                PROVE  h[i + 1] = g[i + 1]
    OBVIOUS
  <2>. PICK j \in 1 .. n : j = i + 1 /\ j - 1 = i
    OBVIOUS
  <2>1. h[j] = AlignDown(h[j - 1] - Len(args[j]) - 1, PTRSIZE)
    BY <1>7
  <2>2. g[j] = AlignDown(g[j - 1] - Len(args[j]) - 1, PTRSIZE)
    BY <1>3 DEF IsTop
  <2>3. h[j - 1] = g[j - 1]
    BY <1>9
  <2>. QED  BY <2>1, <2>2, <2>3
<1>. HIDE DEF R
<1>10. h[n] = g[n]
  <2>1. n \in R
    BY <1>8, <1>9, Induction
  <2>. QED  BY <2>1 DEF R
<1>. QED  BY <1>1, <1>3, <1>10

\* They are ever lower.
LEMMA TopsFall ==
  ASSUME NEW args \in ArgLists, NEW n \in Nat, n = Len(args),
         NEW top, IsTop(args, n, top), NEW i \in 1 .. n
  PROVE  /\ top[i] \in Int /\ top[i - 1] \in Int /\ Len(args[i]) \in Nat
         /\ top[i] + Len(args[i]) + 1 <= top[i - 1]
<1>1. args[i] \in Seq(Nat)
  BY ArgListIs
<1>2. Len(args[i]) \in Nat
  BY <1>1, LenProperties
<1>3. top[i] \in Int /\ top[i - 1] \in Int
  <2>1. i \in 0 .. n /\ i - 1 \in 0 .. n
    OBVIOUS
  <2>. QED  BY <2>1 DEF IsTop
<1>. PICK x \in Int : x = top[i - 1] - Len(args[i]) - 1
  BY <1>2, <1>3
<1>4. top[i] = AlignDown(x, PTRSIZE) /\ AlignDown(x, PTRSIZE) <= x
  BY AlignDownIs, PageIsAligned DEF IsTop
<1>. QED  BY <1>2, <1>3, <1>4

LEMMA TopsDescend ==
  ASSUME NEW args \in ArgLists, NEW n \in Nat, n = Len(args),
         NEW top, IsTop(args, n, top), NEW i \in 0 .. n, NEW j \in i .. n
  PROVE  top[i] \in Int /\ top[j] \in Int /\ top[j] <= top[i]
<1>0. \A k \in 0 .. n : top[k] \in Int
  BY DEF IsTop
<1>. DEFINE R == {k \in Nat : i + k <= n => top[i + k] <= top[i]}
<1>1. 0 \in R
  BY <1>0
<1>2. \A k \in Nat : k \in R => k + 1 \in R
  <2>. SUFFICES ASSUME NEW k \in Nat, i + k <= n => top[i + k] <= top[i],
                       i + (k + 1) <= n
                PROVE  top[i + (k + 1)] <= top[i]
    OBVIOUS
  <2>. PICK x \in 1 .. n : x = i + (k + 1) /\ x - 1 = i + k
    OBVIOUS
  <2>1. /\ top[x] \in Int /\ top[x - 1] \in Int /\ Len(args[x]) \in Nat
        /\ top[x] + Len(args[x]) + 1 <= top[x - 1]
    BY TopsFall
  <2>2. top[x - 1] <= top[i]
    OBVIOUS
  <2>3. top[i] \in Int
    BY <1>0
  <2>. QED  BY <2>1, <2>2, <2>3
<1>. HIDE DEF R
<1>3. j - i \in R
  <2>1. j - i \in Nat
    OBVIOUS
  <2>. QED  BY <1>1, <1>2, <2>1, Induction
<1>4. i + (j - i) = j /\ j \in 0 .. n
  OBVIOUS
<1>. QED  BY <1>0, <1>3, <1>4 DEF R

-------------------------------------------------------------------------
(* The new image: one page, which the program may write.                 *)

LEMMA PageOf ==
  ASSUME NEW a \in VA
  PROVE  /\ a \div PGSIZE \in 0 .. MAXVA \div PGSIZE - 1
         /\ a < PGSIZE => a \div PGSIZE = 0
         /\ a >= PGSIZE => a \div PGSIZE # 0
<1>. PICK g \in Nat \ {0} : g = PGSIZE
  BY Sizes
<1>. PICK x \in Nat : x = MAXVA /\ x % g = 0
  BY Sizes
<1>0. a \in Nat /\ a < x
  BY Sizes DEF VA
<1>1. PICK q \in Int, r \in 0 .. g - 1 : /\ q = a \div g /\ a = g * q + r
                                         /\ g * q \in Int
  <2>1. a \in Int
    BY <1>0
  <2>. QED  BY <2>1, DivMod, Multiples
<1>2. PICK k \in Int : k = x \div g /\ x = g * k /\ g * k \in Int
  <2>1. /\ x \div g \in Int /\ x = g * (x \div g) + (x % g)
        /\ g * (x \div g) \in Int
    BY DivMod, Multiples
  <2>. QED  BY <2>1
<1>3. q >= 0
  <2>1. q <= -1 => g * q <= -g
    BY Multiples
  <2>. QED  BY <1>0, <1>1, <2>1
<1>4. q < k
  <2>1. g * (q - k) = g * q - g * k /\ q - k \in Int
    OBVIOUS
  <2>2. q - k >= 1 => g * (q - k) >= g
    BY <2>1, Multiples
  <2>3. q - k = 0 => g * (q - k) = 0
    BY <2>1, Multiples
  <2>4. g * q - g * k < 0
    BY <1>0, <1>1, <1>2
  <2>. QED  BY <2>1, <2>2, <2>3, <2>4
<1>5. a < g => q = 0
  <2>1. q >= 1 => g * q >= g
    BY Multiples
  <2>. QED  BY <1>1, <1>3, <2>1
<1>6. a >= g => q # 0
  <2>1. q = 0 => g * q = 0
    BY Multiples
  <2>. QED  BY <1>1, <2>1
<1>. QED  BY <1>1, <1>2, <1>3, <1>4, <1>5, <1>6

LEMMA StackIsWritable ==
  ASSUME NEW m, NEW size, m.pte = ProgramOf(size).pte
  PROVE  /\ \A a \in VA : Writable(m, a) <=> a < PGSIZE
         /\ \A a \in VA : a < PGSIZE => Readable(m, a)
         /\ \A a : a \notin VA => ~ Writable(m, a)
<1>1. m.pte = [i \in 0 .. MAXVA \div PGSIZE - 1 |->
                 IF i = 0 THEN "write" ELSE "invalid"]
  BY DEF ProgramOf
<1>2. ASSUME NEW a \in VA
      PROVE  /\ Writable(m, a) <=> a < PGSIZE
             /\ a < PGSIZE => Readable(m, a)
  <2>1. /\ a \div PGSIZE \in 0 .. MAXVA \div PGSIZE - 1
        /\ a < PGSIZE => a \div PGSIZE = 0
        /\ a >= PGSIZE => a \div PGSIZE # 0
    BY PageOf
  <2>2. a < PGSIZE \/ a >= PGSIZE
    BY Sizes DEF VA
  <2>3. m.pte[a \div PGSIZE] = IF a \div PGSIZE = 0 THEN "write" ELSE "invalid"
    BY <1>1, <2>1
  <2>4. ~ (a < PGSIZE /\ a >= PGSIZE)
    BY Sizes DEF VA
  <2>. QED  BY <2>1, <2>2, <2>3, <2>4 DEF Writable, Readable
<1>. QED  BY <1>2 DEF Writable

\* new is m with the l bytes of s at va.
Wrote(m, va, s, l, new) ==
  \A a \in VA : new.byte[a] = IF a \in va .. va + l - 1 THEN s[a - va + 1] ELSE m.byte[a]

\* d is what copyout leaves: copies within the page succeed, those above it
\* fail.
CopiedToStack(m, va, s, l, size, d) ==
  /\ d.ok \in BOOLEAN /\ d.mem \in UserMemory(Nat)
  /\ d.mem.pte = ProgramOf(size).pte
  /\ va + l <= PGSIZE => d.ok /\ Wrote(m, va, s, l, d.mem)
  /\ va >= PGSIZE => ~ d.ok

LEMMA CopyToStack ==
  ASSUME NEW m \in UserMemory(Nat), NEW size, m.pte = ProgramOf(size).pte,
         NEW va \in Nat, NEW s \in Seq(Nat), NEW l \in Nat, l = Len(s), l > 0,
         NEW d, d = CopyOut(m, va, s)
  PROVE  CopiedToStack(m, va, s, l, size, d)
<1>. DEFINE Done == {a \in va .. va + l - 1 : \A b \in va .. a : Writable(m, b)}
<1>1. /\ d.ok <=> Done = va .. va + l - 1
      /\ d.mem.pte = m.pte
      /\ d.mem.byte = [a \in VA |-> IF a \in Done THEN s[a - va + 1] ELSE m.byte[a]]
      /\ d.ok \in BOOLEAN /\ d.mem \in UserMemory(Nat)
  <2>1. CopyOutAgrees(m, va, s) /\ d.ok \in BOOLEAN /\ d.mem \in UserMemory(Nat)
    BY CopyOutIsExact
  <2>. QED  BY <2>1 DEF CopyOutAgrees
<1>2. ASSUME va + l <= PGSIZE
      PROVE  Done = va .. va + l - 1
  <2>1. \A b \in va .. va + l - 1 : b \in VA /\ b < PGSIZE
    <3>1. PGSIZE \in Nat /\ MAXVA \in Nat /\ PGSIZE <= MAXVA
      BY Sizes, PageIsAligned
    <3>. QED  BY <1>2, <3>1 DEF VA
  <2>2. \A b \in va .. va + l - 1 : Writable(m, b)
    BY <2>1, StackIsWritable
  <2>3. \A a \in va .. va + l - 1 : \A b \in va .. a : b \in va .. va + l - 1
    OBVIOUS
  <2>. QED  BY <2>2, <2>3
<1>3. ASSUME va >= PGSIZE
      PROVE  Done # va .. va + l - 1
  <2>1. ~ Writable(m, va)
    <3>1. CASE va \in VA
      <4>1. ~ (va < PGSIZE)
        BY <1>3, Sizes
      <4>. QED  BY <3>1, <4>1, StackIsWritable
    <3>2. CASE va \notin VA
      BY <3>2, StackIsWritable
    <3>. QED  BY <3>1, <3>2
  <2>2. va \in va .. va + l - 1 /\ va \in va .. va
    OBVIOUS
  <2>3. va \notin Done
    BY <2>1, <2>2
  <2>. QED  BY <2>2, <2>3
<1>4. ASSUME va + l <= PGSIZE
      PROVE  Wrote(m, va, s, l, d.mem)
  <2>1. \A a \in VA : d.mem.byte[a] = IF a \in Done THEN s[a - va + 1] ELSE m.byte[a]
    BY <1>1
  <2>. HIDE DEF Done
  <2>. QED  BY <1>2, <1>4, <2>1 DEF Wrote
<1>. HIDE DEF Done
<1>. QED  BY <1>1, <1>2, <1>3, <1>4 DEF CopiedToStack

LEMMA ProgramIs ==
  ASSUME NEW size
  PROVE  /\ ProgramOf(size) \in UserMemory(Nat)
         /\ \A a \in VA : a < size => ProgramOf(size).byte[a] = Code
<1>1. Code \in Nat /\ Nul \in Nat
  BY Sizes DEF Code, Nul
<1>2. ProgramOf(size).byte \in [VA -> Nat]
  BY <1>1 DEF ProgramOf
<1>3. ProgramOf(size).pte \in PTEs
  BY DEF ProgramOf, PTEs
<1>4. ProgramOf(size) = [pte |-> ProgramOf(size).pte, byte |-> ProgramOf(size).byte]
  BY DEF ProgramOf
<1>5. \A a \in VA : a < size => ProgramOf(size).byte[a] = Code
  BY DEF ProgramOf
<1>. QED  BY <1>2, <1>3, <1>4, <1>5 DEF UserMemory

\* The first k strings lie where they belong.
Laid(args, top, k, m) ==
  \A i \in 1 .. k :
    /\ \A j \in 1 .. Len(args[i]) : m.byte[top[i] + j - 1] = args[i][j]
    /\ m.byte[top[i] + Len(args[i])] = Nul

\* A string of length l at t lies in the page, not below b.
FitsInPage(t, l, b) ==
  /\ t \in Nat /\ b \in Nat /\ t >= b /\ t + l < PGSIZE
  /\ \A x \in 0 .. l : t + x \in VA

LEMMA PlaceInPage ==
  ASSUME NEW t \in Int, NEW l \in Nat, NEW u \in Int, NEW b \in Int,
         t + l + 1 <= u, u <= PGSIZE, 0 <= b, b <= t
  PROVE  FitsInPage(t, l, b)
<1>. PICK g \in Nat : g = PGSIZE
  BY PageInMemory
<1>1. t \in Nat /\ b \in Nat /\ t >= b /\ t + l < g
  OBVIOUS
<1>2. ASSUME NEW x \in 0 .. l
      PROVE  t + x \in VA
  <2>1. t + x \in Int /\ t + x >= 0 /\ t + x < g
    BY <1>1
  <2>. QED  BY <2>1, InMemory
<1>. QED  BY <1>1, <1>2 DEF FitsInPage

\* Where string i is, in the page.
LEMMA TopInPage ==
  ASSUME NEW args \in ArgLists, NEW n \in Nat, n = Len(args),
         NEW top, IsTop(args, n, top), NEW k \in 0 .. n, top[k] >= 0,
         NEW i \in 1 .. k
  PROVE  /\ Len(args[i]) \in Nat /\ top[i] \in Nat /\ top[k] \in Nat
         /\ top[i] >= top[k]
         /\ top[i] + Len(args[i]) < PGSIZE
         /\ \A x \in 0 .. Len(args[i]) : top[i] + x \in VA
<1>0. i \in 1 .. n /\ i \in 0 .. n /\ k \in i .. n /\ 0 \in 0 .. n /\ i - 1 \in 0 .. n
      /\ i - 1 \in 0 .. n
  OBVIOUS
<1>1. /\ top[i] \in Int /\ top[i - 1] \in Int /\ Len(args[i]) \in Nat
      /\ top[i] + Len(args[i]) + 1 <= top[i - 1]
  BY <1>0, TopsFall
<1>2. top[k] \in Int /\ top[k] <= top[i]
  BY <1>0, TopsDescend
<1>3. top[i - 1] <= top[0] /\ top[0] = PGSIZE
  BY <1>0, TopsDescend DEF IsTop
<1>4. FitsInPage(top[i], Len(args[i]), top[k])
  <2>1. top[i - 1] <= PGSIZE /\ 0 <= top[k]
    BY <1>3, Zenon
  <2>. QED  BY <1>1, <1>2, <2>1, PlaceInPage, Zenon
<1>. QED  BY <1>1, <1>4, Zenon DEF FitsInPage

SameAbove(b, m, new) == \A a \in VA : a >= b => new.byte[a] = m.byte[a]

LEMMA LaidKeeps ==
  ASSUME NEW args \in ArgLists, NEW n \in Nat, n = Len(args),
         NEW top, IsTop(args, n, top), NEW k \in 0 .. n, top[k] >= 0,
         NEW m, NEW new, Laid(args, top, k, m),
         SameAbove(top[k], m, new)
  PROVE  Laid(args, top, k, new)
<1>. SUFFICES ASSUME NEW i \in 1 .. k
              PROVE  /\ \A j \in 1 .. Len(args[i]) :
                          new.byte[top[i] + j - 1] = args[i][j]
                     /\ new.byte[top[i] + Len(args[i])] = Nul
  BY DEF Laid
<1>1. /\ Len(args[i]) \in Nat /\ top[i] \in Nat /\ top[k] \in Nat
      /\ top[i] >= top[k]
      /\ \A x \in 0 .. Len(args[i]) : top[i] + x \in VA
  BY TopInPage
<1>. PICK t \in Nat : t = top[i]
  BY <1>1
<1>. PICK l \in Nat : l = Len(args[i])
  BY <1>1
<1>2. \A x \in 0 .. l : new.byte[t + x] = m.byte[t + x]
  <2>. SUFFICES ASSUME NEW x \in 0 .. l
                PROVE  new.byte[t + x] = m.byte[t + x]
    OBVIOUS
  <2>1. t + x \in VA
    BY <1>1
  <2>2. t + x >= top[k]
    BY <1>1
  <2>. QED  BY <2>1, <2>2 DEF SameAbove
<1>3. /\ \A j \in 1 .. l : m.byte[t + j - 1] = args[i][j]
      /\ m.byte[t + l] = Nul
  BY DEF Laid
<1>4. \A j \in 1 .. l : new.byte[t + j - 1] = m.byte[t + j - 1]
  <2>. SUFFICES ASSUME NEW j \in 1 .. l
                PROVE  new.byte[t + j - 1] = m.byte[t + j - 1]
    OBVIOUS
  <2>. PICK x \in 0 .. l : x = j - 1 /\ t + x = t + j - 1
    OBVIOUS
  <2>1. new.byte[t + x] = m.byte[t + x]
    BY <1>2
  <2>. QED  BY <2>1
<1>5. l \in 0 .. l
  OBVIOUS
<1>. QED  BY <1>2, <1>3, <1>4, <1>5

PushState ==
  [ok : BOOLEAN, mem : UserMemory(Nat), sp : Nat, ustack : Seq(Nat)]

\* What holds after some rounds of kexec's loop.
Pushed(args, n, top, size, st) ==
  LET k == Len(st.ustack)
  IN IF st.ok
     THEN /\ k <= n
          /\ st.sp = top[k] /\ st.sp <= PGSIZE /\ (k > 0 => st.sp >= size)
          /\ st.mem.pte = ProgramOf(size).pte
          /\ \A a \in VA : a < st.sp => st.mem.byte[a] = ProgramOf(size).byte[a]
          /\ \A i \in 1 .. k : st.ustack[i] = top[i]
          /\ Laid(args, top, k, st.mem)
     ELSE top[n] < size

\* s is the string str, of length l, with its Nul.
IsWithNul(s, str, l) ==
  /\ s \in Seq(Nat) /\ Len(s) = l + 1 /\ s[l + 1] = Nul
  /\ \A j \in 1 .. l : s[j] = str[j]

LEMMA WithNul ==
  ASSUME NEW str \in Seq(Nat), NEW l \in Nat, l = Len(str)
  PROVE  IsWithNul(Append(str, Nul), str, l)
<1>. PICK s : s = Append(str, Nul)
  OBVIOUS
<1>1. Nul \in Nat
  BY DEF Nul
<1>2. /\ s \in Seq(Nat) /\ Len(s) = l + 1 /\ s[l + 1] = Nul
      /\ \A j \in 1 .. l : s[j] = str[j]
  BY <1>1, AppendProperties
<1>. QED  BY <1>2 DEF IsWithNul

\* The string str, of length l, lies at t, and the rest of m is in new.
LaidAt(m, t, str, l, new) ==
  /\ \A a \in VA : a \notin t .. t + l => new.byte[a] = m.byte[a]
  /\ \A j \in 1 .. l : new.byte[t + j - 1] = str[j]
  /\ new.byte[t + l] = Nul

\* What the copy of a string leaves.
LEMMA LayOne ==
  ASSUME NEW m \in UserMemory(Nat), NEW size, m.pte = ProgramOf(size).pte,
         NEW str \in Seq(Nat), NEW l \in Nat, l = Len(str),
         NEW t \in Nat, t + l < PGSIZE,
         NEW d, d = CopyOut(m, t, Append(str, Nul))
  PROVE  /\ d.ok /\ d.mem.pte = ProgramOf(size).pte
         /\ LaidAt(m, t, str, l, d.mem)
<1>. PICK s : s = Append(str, Nul)
  OBVIOUS
<1>. PICK e \in Nat : e = l + 1 /\ e > 0 /\ t + e - 1 = t + l
  OBVIOUS
<1>1. /\ s \in Seq(Nat) /\ Len(s) = e /\ s[e] = Nul
      /\ \A j \in 1 .. l : s[j] = str[j]
  <2>1. IsWithNul(s, str, l)
    BY WithNul
  <2>. QED  BY <2>1 DEF IsWithNul
<1>2. t + e <= PGSIZE /\ PGSIZE <= MAXVA
  BY PageIsAligned, Sizes
<1>3. d.ok /\ d.mem.pte = ProgramOf(size).pte /\ Wrote(m, t, s, e, d.mem)
  <2>1. /\ d = CopyOut(m, t, s) /\ s \in Seq(Nat) /\ e = Len(s)
        /\ e \in Nat /\ e > 0 /\ t + e <= PGSIZE /\ t \in Nat
        /\ m \in UserMemory(Nat) /\ m.pte = ProgramOf(size).pte
    BY <1>1, <1>2
  <2>2. CopiedToStack(m, t, s, e, size, d)
    BY <2>1, CopyToStack
  <2>. QED  BY <2>1, <2>2 DEF CopiedToStack
<1>4. ASSUME NEW x \in 1 .. e
      PROVE  d.mem.byte[t + x - 1] = s[x]
  <2>. PICK a : a = t + x - 1
    OBVIOUS
  <2>1. a \in VA
    BY <1>2, Sizes DEF VA
  <2>2. a \in t .. t + e - 1 /\ a - t + 1 = x
    OBVIOUS
  <2>3. d.mem.byte[a] = s[a - t + 1]
    BY <1>3, <2>1, <2>2 DEF Wrote
  <2>. QED  BY <2>2, <2>3
<1>5. ASSUME NEW j \in 1 .. l
      PROVE  d.mem.byte[t + j - 1] = str[j]
  <2>1. j \in 1 .. e
    OBVIOUS
  <2>. QED  BY <1>1, <1>4, <2>1
<1>6. d.mem.byte[t + l] = Nul
  <2>1. e \in 1 .. e
    OBVIOUS
  <2>2. d.mem.byte[t + e - 1] = s[e]
    BY <1>4, <2>1
  <2>. QED  BY <1>1, <2>2
<1>7. \A a \in VA : a \notin t .. t + l => d.mem.byte[a] = m.byte[a]
  <2>1. \A a \in VA : a \notin t .. t + l => a \notin t .. t + e - 1
    OBVIOUS
  <2>. QED  BY <1>3, <2>1 DEF Wrote
<1>. QED  BY <1>3, <1>5, <1>6, <1>7 DEF LaidAt

\* new has the bytes of m below t.
SameBelow(t, m, new) == \A a \in VA : a < t => new.byte[a] = m.byte[a]

\* String i is next on the stack of memory m.
NextString(args, n, top, k, i, m, size) ==
  /\ args \in ArgLists /\ n \in Nat /\ n = Len(args)
  /\ IsTop(args, n, top)
  /\ k \in 0 .. n - 1 /\ i \in 1 .. n /\ i = k + 1 /\ top[i] >= 0
  /\ m \in UserMemory(Nat) /\ m.pte = ProgramOf(size).pte
  /\ Laid(args, top, k, m)

\* What the copy of the next string leaves.
LEMMA NextLaid ==
  ASSUME NEW args, NEW n, NEW top, NEW k, NEW i, NEW m, NEW size,
         NextString(args, n, top, k, i, m, size),
         NEW d, d = CopyOut(m, top[i], Append(args[i], Nul))
  PROVE  /\ d.ok /\ d.mem.pte = ProgramOf(size).pte
         /\ SameBelow(top[i], m, d.mem)
         /\ Laid(args, top, i, d.mem)
<1>0. /\ args \in ArgLists /\ n \in Nat /\ n = Len(args)
      /\ IsTop(args, n, top)
      /\ k \in 0 .. n - 1 /\ i \in 1 .. n /\ i = k + 1 /\ top[i] >= 0
      /\ m \in UserMemory(Nat) /\ m.pte = ProgramOf(size).pte
      /\ Laid(args, top, k, m)
  BY DEF NextString
<1>. USE <1>0
<1>1. args[i] \in Seq(Nat)
  BY ArgListIs
<1>2. Len(args[i]) \in Nat /\ top[i] \in Nat /\ top[i] + Len(args[i]) < PGSIZE
  <2>1. i \in 0 .. n /\ i \in 1 .. i
    OBVIOUS
  <2>. QED  BY <2>1, TopInPage
<1>. PICK l \in Nat : l = Len(args[i])
  BY <1>2
<1>. PICK t \in Nat : t = top[i]
  BY <1>2
<1>3. d.ok /\ d.mem.pte = ProgramOf(size).pte /\ LaidAt(m, t, args[i], l, d.mem)
  <2>1. t + l < PGSIZE /\ d = CopyOut(m, t, Append(args[i], Nul))
    BY <1>2
  <2>. QED  BY <1>1, <2>1, LayOne
<1>4. SameBelow(top[i], m, d.mem)
  <2>1. \A a \in VA : a < t => a \notin t .. t + l
    BY DEF VA
  <2>. QED  BY <1>3, <2>1 DEF SameBelow, LaidAt
<1>5. Laid(args, top, k, d.mem)
  <2>0. i - 1 = k
    OBVIOUS
  <2>1. top[k] \in Int /\ t + l + 1 <= top[k]
    BY <2>0, TopsFall
  <2>2. \A a \in VA : a >= top[k] => d.mem.byte[a] = m.byte[a]
    <3>1. \A a \in VA : a >= top[k] => a \notin t .. t + l
      BY <2>1 DEF VA
    <3>. QED  BY <1>3, <3>1 DEF LaidAt
  <2>3. top[k] >= 0 /\ k \in 0 .. n
    BY <2>1
  <2>. QED  BY <2>2, <2>3, LaidKeeps DEF SameAbove
<1>6. Laid(args, top, i, d.mem)
  <2>. SUFFICES ASSUME NEW j \in 1 .. i
                PROVE  /\ \A x \in 1 .. Len(args[j]) :
                            d.mem.byte[top[j] + x - 1] = args[j][x]
                       /\ d.mem.byte[top[j] + Len(args[j])] = Nul
    BY DEF Laid
  <2>1. CASE j = i
    BY <1>3, <2>1 DEF LaidAt
  <2>2. CASE j # i
    <3>1. j \in 1 .. k
      BY <2>2
    <3>. QED  BY <1>5, <3>1 DEF Laid
  <2>. QED  BY <2>1, <2>2
<1>. QED  BY <1>3, <1>4, <1>6

\* The strings can be where they are.
Fit(args, n) == \A i \in 1 .. n : Len(args[i]) + 1 <= MAXVA

\* A round that does not fail lays out one string, if any is left.
Advances(n, st, new) ==
  /\ Len(st.ustack) = n => new = st
  /\ Len(st.ustack) # n /\ new.ok => st.ok /\ Len(new.ustack) = Len(st.ustack) + 1

\* The pointers of u are the first k of top.
PointTo(u, top, k) ==
  u \in Seq(Nat) /\ Len(u) = k /\ \A j \in 1 .. k : u[j] = top[j]

LEMMA PointersGrow ==
  ASSUME NEW u, NEW top, NEW k \in Nat, PointTo(u, top, k), NEW sp \in Nat,
         NEW i, i = k + 1, sp = top[i]
  PROVE  PointTo(Append(u, sp), top, i)
<1>1. u \in Seq(Nat) /\ Len(u) = k
  BY DEF PointTo
<1>2. /\ Append(u, sp) \in Seq(Nat) /\ Len(Append(u, sp)) = i
      /\ \A j \in 1 .. k : Append(u, sp)[j] = u[j]
      /\ Append(u, sp)[i] = sp
  BY <1>1, AppendProperties
<1>3. \A j \in 1 .. i : j \in 1 .. k \/ j = i
  OBVIOUS
<1>. QED  BY <1>2, <1>3 DEF PointTo

\* There is no room for a string.
LEMMA PushFails ==
  ASSUME NEW args, NEW n, NEW top, NEW size, NEW st \in PushState,
         Len(st.ustack) # n, top[n] < size,
         NEW new, new = [st EXCEPT !.ok = FALSE]
  PROVE  /\ new \in PushState /\ Pushed(args, n, top, size, new)
         /\ Advances(n, st, new)
<1>1. new = [ok |-> FALSE, mem |-> st.mem, sp |-> st.sp, ustack |-> st.ustack]
  BY DEF PushState
<1>2. new \in PushState /\ new.ok = FALSE
  BY <1>1 DEF PushState
<1>. QED  BY <1>2 DEF Pushed, Advances

\* One more string is pushed.
LEMMA PushedByOne ==
  ASSUME NEW args, NEW n, NEW top, NEW size, NEW new, new.ok,
         NEW i \in Nat, i <= n, PointTo(new.ustack, top, i),
         new.sp = top[i], new.sp >= size, new.sp <= PGSIZE,
         new.mem.pte = ProgramOf(size).pte,
         SameBelow(new.sp, ProgramOf(size), new.mem), Laid(args, top, i, new.mem)
  PROVE  Pushed(args, n, top, size, new)
BY DEF Pushed, SameBelow, PointTo

LEMMA PushArgKeeps ==
  ASSUME NEW args \in ArgLists, NEW n \in Nat, n = Len(args), Fit(args, n),
         NEW top, IsTop(args, n, top), NEW size \in Nat \ {0},
         NEW st \in PushState, Pushed(args, n, top, size, st),
         NEW new, new = PushArg(st, args, size)
  PROVE  /\ new \in PushState /\ Pushed(args, n, top, size, new)
         /\ Advances(n, st, new)
<1>. PICK k \in Nat : k = Len(st.ustack)
  BY LenProperties DEF PushState
<1>0. /\ st.ok \in BOOLEAN /\ st.mem \in UserMemory(Nat) /\ st.sp \in Nat
      /\ st.ustack \in Seq(Nat)
  BY DEF PushState
<1>1. CASE ~ st.ok \/ k = n
  <2>1. new = st
    BY <1>1 DEF PushArg
  <2>. QED  BY <1>1, <2>1 DEF Advances
<1>2. CASE st.ok /\ k # n
  <2>1. /\ k <= n /\ st.sp = top[k] /\ st.sp <= PGSIZE
        /\ st.mem.pte = ProgramOf(size).pte
        /\ \A a \in VA : a < st.sp => st.mem.byte[a] = ProgramOf(size).byte[a]
        /\ \A i \in 1 .. k : st.ustack[i] = top[i]
        /\ Laid(args, top, k, st.mem)
    BY <1>2 DEF Pushed
  <2>. PICK i \in 1 .. n : i = k + 1 /\ i - 1 = k /\ k \in 0 .. n - 1 /\ i \in 0 .. n
    BY <1>2, <2>1
  <2>2. args[i] \in Seq(Nat)
    BY ArgListIs
  <2>. PICK l \in Nat : l = Len(args[i]) /\ l + 1 <= MAXVA
    BY <2>2, LenProperties DEF Fit
  <2>. PICK s : s = Append(args[i], Nul)
    OBVIOUS
  <2>3. s \in Seq(Nat) /\ Len(s) = l + 1
    BY <2>2, WithNul DEF IsWithNul
  <2>. PICK sp : sp = RoomFor(st.sp, s)
    OBVIOUS
  <2>4. top[i] \in Int /\ top[i] = AlignDown(st.sp - (l + 1), PTRSIZE)
    <3>1. top[i] = AlignDown(st.sp - l - 1, PTRSIZE) /\ top[i] \in Int
      BY <2>1 DEF IsTop
    <3>2. st.sp - l - 1 = st.sp - (l + 1)
      BY <1>0
    <3>. QED  BY <3>1, <3>2
  <2>5. /\ sp \in Nat
        /\ st.sp >= l + 1 => sp = top[i]
        /\ st.sp < l + 1 => sp >= PGSIZE /\ top[i] < 0
    <3>1. sp = AlignDown(Sub(st.sp, l + 1), PTRSIZE)
      BY <2>3 DEF RoomFor
    <3>. PICK x \in Nat : x = st.sp /\ x <= PGSIZE
      BY <1>0, <2>1
    <3>. PICK n1 \in Nat : n1 = l + 1 /\ n1 <= MAXVA
      OBVIOUS
    <3>2. IsRoom(x, n1, PTRSIZE, sp)
      BY <3>1, PageIsAligned, RoomIs
    <3>. QED  BY <2>4, <3>2 DEF IsRoom
  <2>. PICK d : d = CopyOut(st.mem, sp, s)
    OBVIOUS
  <2>6. d.ok \in BOOLEAN /\ d.mem \in UserMemory(Nat) /\ (sp >= PGSIZE => ~ d.ok)
    <3>. PICK e \in Nat : e = l + 1 /\ e > 0
      OBVIOUS
    <3>1. CopiedToStack(st.mem, sp, s, e, size, d)
      BY <1>0, <2>1, <2>3, <2>5, CopyToStack
    <3>. QED  BY <3>1 DEF CopiedToStack
  <2>7. top[n] \in Int /\ top[n] <= top[i]
    <3>1. n \in i .. n
      OBVIOUS
    <3>. QED  BY <3>1, TopsDescend
  <2>9. CASE sp < size
    <3>1. new = [st EXCEPT !.ok = FALSE]
      BY <1>2, <2>9 DEF PushArg
    <3>2. top[n] < size
      <4>. PICK t \in Int : t = top[i]
        BY <2>4
      <4>. PICK v \in Int : v = top[n] /\ v <= t
        BY <2>7
      <4>1. t < size
        <5>1. st.sp >= l + 1 \/ st.sp < l + 1
          BY <1>0
        <5>2. t = sp \/ t < 0
          BY <2>5, <5>1, Zenon
        <5>. QED  BY <2>9, <5>2
      <4>. QED  BY <4>1
    <3>3. Len(st.ustack) # n
      BY <1>2
    <3>. QED  BY <3>1, <3>2, <3>3, PushFails
  <2>10. CASE ~ (sp < size)
    <3>1. new = [ok |-> d.ok, mem |-> d.mem, sp |-> sp, ustack |-> Append(st.ustack, sp)]
      BY <1>2, <2>10 DEF PushArg
    <3>2. new \in PushState
      <4>1. Append(st.ustack, sp) \in Seq(Nat)
        BY <1>0, <2>5, AppendProperties
      <4>. QED  BY <2>5, <2>6, <3>1, <4>1 DEF PushState
    <3>3. CASE st.sp < l + 1
      <4>1. ~ new.ok /\ top[n] < size
        BY <2>4, <2>5, <2>6, <2>7, <3>1, <3>3
      <4>. QED  BY <1>2, <3>2, <4>1 DEF Pushed, Advances
    <3>4. CASE st.sp >= l + 1
      <4>1. sp = top[i] /\ sp >= size /\ sp >= 0
        BY <2>5, <2>10, <3>4
      <4>2. /\ d.ok /\ d.mem.pte = ProgramOf(size).pte
            /\ \A a \in VA : a < sp => d.mem.byte[a] = st.mem.byte[a]
            /\ Laid(args, top, k + 1, d.mem)
        <5>1. d = CopyOut(st.mem, top[i], Append(args[i], Nul)) /\ top[i] >= 0
          BY <4>1
        <5>. PICK m \in UserMemory(Nat) : m = st.mem
          BY <1>0
        <5>2. /\ NextString(args, n, top, k, i, m, size)
              /\ d = CopyOut(m, top[i], Append(args[i], Nul))
          BY <2>1, <5>1 DEF NextString
        <5>3. Laid(args, top, i, d.mem)
          BY <5>2, NextLaid
        <5>4. SameBelow(top[i], m, d.mem)
          BY <5>2, NextLaid
        <5>5. d.ok /\ d.mem.pte = ProgramOf(size).pte
          BY <5>2, NextLaid
        <5>. QED  BY <4>1, <5>3, <5>4, <5>5 DEF SameBelow
      <4>3. sp + (l + 1) <= st.sp
        <5>1. top[i] + l + 1 <= top[k]
          BY TopsFall
        <5>. PICK x \in Nat : x = st.sp
          BY <1>0
        <5>. PICK y \in Nat : y = sp
          BY <2>5
        <5>2. y + l + 1 <= x
          BY <2>1, <4>1, <5>1
        <5>. QED  BY <5>2
      <4>4. \A a \in VA : a < sp => d.mem.byte[a] = ProgramOf(size).byte[a]
        <5>. SUFFICES ASSUME NEW a \in VA, a < sp
                      PROVE  d.mem.byte[a] = ProgramOf(size).byte[a]
          OBVIOUS
        <5>1. a < st.sp
          BY <1>0, <2>5, <4>3 DEF VA
        <5>2. st.mem.byte[a] = ProgramOf(size).byte[a]
          BY <2>1, <5>1
        <5>3. d.mem.byte[a] = st.mem.byte[a]
          BY <4>2
        <5>. QED  BY <5>2, <5>3
      <4>5. PointTo(Append(st.ustack, sp), top, i)
        <5>1. PointTo(st.ustack, top, k)
          BY <1>0, <2>1 DEF PointTo
        <5>2. sp \in Nat
          BY <2>5
        <5>. QED  BY <4>1, <5>1, <5>2, PointersGrow
      <4>6. k + 1 <= n /\ sp <= PGSIZE
        <5>. PICK g \in Nat : g = PGSIZE
          BY PageInMemory
        <5>. PICK x \in Nat : x = st.sp /\ x <= g
          BY <1>0, <2>1
        <5>1. sp + (l + 1) <= x /\ sp \in Nat
          BY <2>5, <4>3
        <5>. QED  BY <5>1
      <4>7. Pushed(args, n, top, size, new)
        <5>1. sp \in Nat /\ i \in Nat /\ i <= n
          BY <2>5, <4>6
        <5>2. SameBelow(sp, ProgramOf(size), d.mem) /\ Laid(args, top, i, d.mem)
          BY <4>2, <4>4 DEF SameBelow
        <5>3. d.ok /\ d.mem.pte = ProgramOf(size).pte
          BY <4>2
        <5>4. sp = top[i] /\ sp >= size /\ sp <= PGSIZE
          BY <4>1, <4>6
        <5>5. /\ PointTo(new.ustack, top, i)
              /\ new.ok = d.ok /\ new.mem = d.mem /\ new.sp = sp
          BY <3>1, <4>5
        <5>. QED  BY <5>1, <5>2, <5>3, <5>4, <5>5, PushedByOne
      <4>8. Len(new.ustack) = Len(st.ustack) + 1
        BY <3>1, <4>5 DEF PointTo
      <4>. QED  BY <1>2, <3>2, <4>7, <4>8 DEF Advances
    <3>. QED  BY <1>0, <3>3, <3>4
  <2>. QED  BY <1>0, <2>5, <2>9, <2>10
<1>. QED  BY <1>0, <1>1, <1>2

\* What kexec's loop works on, and the states it can be in.
CanPush(args, n, top, size) ==
  /\ args \in ArgLists /\ n \in Nat /\ n = Len(args) /\ Fit(args, n)
  /\ IsTop(args, n, top) /\ size \in Nat \ {0}

PushStates(args, n, top, size) ==
  {st \in PushState : Pushed(args, n, top, size, st)}

LEMMA PushRound ==
  ASSUME NEW args, NEW n, NEW top, NEW size, CanPush(args, n, top, size),
         NEW st \in PushStates(args, n, top, size)
  PROVE  PushArg(st, args, size) \in PushStates(args, n, top, size)
BY PushArgKeeps DEF CanPush, PushStates

LEMMA PushRecursion ==
  ASSUME NEW args, NEW n, NEW top, NEW size, CanPush(args, n, top, size),
         NEW x \in PushStates(args, n, top, size)
  PROVE  \E g : g = [i \in Nat |-> IF i = 0 THEN x ELSE PushArg(g[i - 1], args, size)]
<1>. DEFINE S    == PushStates(args, n, top, size)
            step == [st \in S |-> PushArg(st, args, size)]
<1>1. step \in [S -> S]
  BY PushRound
<1>2. PICK g \in [Nat -> S] : g[0] = x /\ \A i \in Nat : g[i + 1] = step[g[i]]
  <2>. HIDE DEF S, step
  <2>1. HasRun(S, x, step)
    <3>1. x \in S
      BY DEF S
    <3>. QED  BY <1>1, <3>1, Recursion
  <2>. QED  BY <2>1 DEF HasRun
<1>3. ASSUME NEW i \in Nat, i # 0
      PROVE  g[i] = PushArg(g[i - 1], args, size)
  <2>1. i - 1 \in Nat /\ (i - 1) + 1 = i
    BY <1>3
  <2>2. g[i - 1] \in S
    BY <2>1
  <2>. QED  BY <1>2, <2>1, <2>2
<1>. QED  BY <1>2, <1>3

LEMMA PushRuns ==
  ASSUME NEW args, NEW n, NEW top, NEW size, CanPush(args, n, top, size)
  PROVE  \E g : /\ PushArgs(args, size) = g[n]
                /\ g[0] \in PushStates(args, n, top, size) /\ Len(g[0].ustack) = 0
                /\ \A i \in Nat : g[i + 1] = PushArg(g[i], args, size)
<1>. DEFINE x == [ok |-> TRUE, mem |-> ProgramOf(size), sp |-> PGSIZE, ustack |-> <<>>]
            h == CHOOSE h : h = [i \in Nat |-> IF i = 0 THEN x
                                               ELSE PushArg(h[i - 1], args, size)]
<1>0. n \in Nat /\ n = Len(args) /\ top[0] = PGSIZE
  BY DEF CanPush, IsTop
<1>1. x \in PushStates(args, n, top, size) /\ Len(x.ustack) = 0
  <2>1. <<>> \in Seq(Nat) /\ Len(<<>>) = 0
    BY EmptySeq
  <2>2. x \in PushState
    BY <2>1, ProgramIs, Sizes DEF PushState
  <2>3. Laid(args, top, 0, ProgramOf(size))
    BY DEF Laid
  <2>4. Pushed(args, n, top, size, x)
    BY <1>0, <2>1, <2>3, Sizes DEF Pushed
  <2>. QED  BY <2>1, <2>2, <2>4 DEF PushStates
<1>2. PushArgs(args, size) = h[n]
  BY <1>0 DEF PushArgs, Rounds
<1>. HIDE DEF x
<1>3. \E g : g = [i \in Nat |-> IF i = 0 THEN x ELSE PushArg(g[i - 1], args, size)]
  BY <1>1, PushRecursion
<1>4. h = [i \in Nat |-> IF i = 0 THEN x ELSE PushArg(h[i - 1], args, size)]
  BY <1>3, Zenon
<1>. HIDE DEF h
<1>5. h[0] = x /\ \A i \in Nat : h[i + 1] = PushArg(h[i], args, size)
  BY <1>4
<1>. QED  BY <1>1, <1>2, <1>5

\* kexec's loop lays out the strings or runs out of stack.
LEMMA PushIsExact ==
  ASSUME NEW args, NEW n, NEW top, NEW size, CanPush(args, n, top, size),
         NEW st, st = PushArgs(args, size)
  PROVE  /\ st \in PushStates(args, n, top, size)
         /\ st.ok => Len(st.ustack) = n
<1>0. n \in Nat
  BY DEF CanPush
<1>1. PICK g : /\ st = g[n]
               /\ g[0] \in PushStates(args, n, top, size) /\ Len(g[0].ustack) = 0
               /\ \A i \in Nat : g[i + 1] = PushArg(g[i], args, size)
  BY PushRuns
<1>. DEFINE R == {i \in Nat : i <= n =>
                    /\ g[i] \in PushStates(args, n, top, size)
                    /\ g[i].ok => Len(g[i].ustack) = i}
<1>2. 0 \in R
  BY <1>1
<1>3. ASSUME NEW i \in Nat, i \in R
      PROVE  i + 1 \in R
  <2>. SUFFICES ASSUME i + 1 <= n
                PROVE  /\ g[i + 1] \in PushStates(args, n, top, size)
                       /\ g[i + 1].ok => Len(g[i + 1].ustack) = i + 1
    OBVIOUS
  <2>. PICK s \in PushState : s = g[i] /\ Pushed(args, n, top, size, s)
    BY <1>0, <1>3 DEF PushStates
  <2>. PICK new : new = g[i + 1]
    OBVIOUS
  <2>1. s.ok => Len(s.ustack) = i
    BY <1>0, <1>3
  <2>2. new = PushArg(s, args, size)
    BY <1>1
  <2>3. new \in PushStates(args, n, top, size)
    BY <2>2, PushRound DEF PushStates
  <2>4. /\ Len(s.ustack) = n => new = s
        /\ Len(s.ustack) # n /\ new.ok => s.ok /\ Len(new.ustack) = Len(s.ustack) + 1
    <3>1. /\ args \in ArgLists /\ n \in Nat /\ n = Len(args) /\ Fit(args, n)
          /\ IsTop(args, n, top) /\ size \in Nat \ {0}
      BY DEF CanPush
    <3>2. Advances(n, s, new)
      BY <2>2, <3>1, PushArgKeeps
    <3>. QED  BY <3>2 DEF Advances
  <2>5. ASSUME new.ok
        PROVE  Len(new.ustack) = i + 1
    <3>1. i # n
      BY <1>0
    <3>2. Len(s.ustack) = n => FALSE
      BY <2>1, <2>4, <2>5, <3>1
    <3>. QED  BY <2>1, <2>4, <2>5, <3>2
  <2>. QED  BY <2>3, <2>5
<1>. HIDE DEF R
<1>4. n \in R
  BY <1>0, <1>2, <1>3, Induction
<1>. QED  BY <1>0, <1>1, <1>4 DEF R

-------------------------------------------------------------------------
(* The array of pointers, and exec as a whole.                           *)

\* s is the array of the e pointers p.
IsArray(s, e, p) ==
  /\ s \in Seq(Nat) /\ Len(s) = e * PTRSIZE
  /\ \A i \in 0 .. e - 1 : \A j \in 1 .. PTRSIZE :
       s[i * PTRSIZE + j] = Stored(p[i + 1])[j]

\* It is where the strings are, and a null.
StackPointers(p, n, ustack) ==
  /\ p \in [1 .. n + 1 -> Nat]
  /\ IsArray(StoredAll(p), n + 1, p)
  /\ p[n + 1] = 0
  /\ \A i \in 1 .. n : p[i] = ustack[i]

LEMMA PointersAre ==
  ASSUME NEW ustack \in Seq(Nat), NEW n \in Nat, n = Len(ustack),
         NEW p, p = Append(ustack, 0)
  PROVE  StackPointers(p, n, ustack)
<1>1. /\ p \in Seq(Nat) /\ Len(p) = n + 1 /\ p[n + 1] = 0
      /\ \A i \in 1 .. n : p[i] = ustack[i]
  BY AppendProperties
<1>. PICK e \in Nat : e = n + 1
  OBVIOUS
<1>2. p \in [1 .. e -> Nat]
  BY <1>1, LenProperties
<1>3. IsArray(StoredAll(p), e, p)
  BY <1>2, StoredAllIs DEF IsArray
<1>. QED  BY <1>1, <1>2, <1>3 DEF StackPointers

\* Pointer i of the array at va.
PointerAt(m, va, i, v) == Bytes(m, va + i * PTRSIZE, PTRSIZE) = Stored(v)

\* Byte x of the l bytes at va is at a.
IsCell(va, l, x, a) == a \in VA /\ a \in va .. va + l - 1 /\ a - va + 1 = x

LEMMA CellInPage ==
  ASSUME NEW va \in Nat, NEW k \in Nat, NEW p \in Nat, NEW l \in Nat,
         k + p <= l, va + l <= PGSIZE, NEW j \in 1 .. p,
         NEW a, a = va + k + j - 1
  PROVE  IsCell(va, l, k + j, a)
<1>. PICK g \in Nat : g = PGSIZE
  BY PageInMemory
<1>1. /\ a \in Int /\ a >= 0 /\ a < g
      /\ a \in va .. va + l - 1 /\ a - va + 1 = k + j
  OBVIOUS
<1>. QED  BY <1>1, InMemory DEF IsCell

LEMMA PointerWritten ==
  ASSUME NEW m, NEW new, NEW va \in Nat, NEW s, NEW e \in Nat,
         NEW p \in [1 .. e -> Nat], IsArray(s, e, p),
         NEW l, l = e * PTRSIZE, va + l <= PGSIZE, Wrote(m, va, s, l, new),
         NEW i \in 0 .. e - 1
  PROVE  PointerAt(new, va, i, p[i + 1])
<1>. PICK v \in Nat : v = p[i + 1]
  <2>1. i + 1 \in 1 .. e
    OBVIOUS
  <2>. QED  BY <2>1
<1>. PICK k \in Nat : k = i * PTRSIZE /\ k + PTRSIZE <= l /\ l \in Nat
  <2>1. i < e /\ e \in Nat /\ i \in Nat
    OBVIOUS
  <2>. QED  BY <2>1, Products
<1>1. ASSUME NEW j \in 1 .. PTRSIZE
      PROVE  new.byte[va + k + j - 1] = Stored(v)[j]
  <2>. PICK a : a = va + k + j - 1
    OBVIOUS
  <2>0. PTRSIZE \in Nat
    BY Sizes
  <2>1. IsCell(va, l, k + j, a)
    BY <2>0, CellInPage, Zenon
  <2>2. new.byte[a] = s[a - va + 1]
    BY <2>1, Zenon DEF Wrote, IsCell
  <2>3. s[k + j] = Stored(v)[j]
    BY Zenon DEF IsArray
  <2>. QED  BY <2>1, <2>2, <2>3, Zenon DEF IsCell
<1>2. Stored(v) = [j \in 1 .. PTRSIZE |-> Stored(v)[j]]
  BY StoredIs
<1>. QED  BY <1>1, <1>2 DEF Bytes, PointerAt

\* What the new program starts with.
Landed(args, n, top, size, end, new) ==
  /\ new.a0 = n /\ new.sp = end /\ new.a1 = end
  /\ new.mem.pte = ProgramOf(size).pte
  /\ Laid(args, top, n, new.mem)
  /\ \A i \in 0 .. n - 1 : PointerAt(new.mem, end, i, top[i + 1])
  /\ PointerAt(new.mem, end, n, 0)
  /\ \A a \in 0 .. size - 1 : new.mem.byte[a] = Code

LEMMA PushPointersLand ==
  ASSUME NEW args, NEW n, NEW top, NEW size, CanPush(args, n, top, size),
         NEW st \in PushStates(args, n, top, size), st.ok, Len(st.ustack) = n,
         NEW end \in Nat, end >= size, end + (n + 1) * PTRSIZE <= st.sp,
         NEW s, s = StoredAll(Append(st.ustack, 0)),
         NEW d, d = CopyOut(st.mem, end, s),
         NEW new, new = [ok |-> d.ok, mem |-> d.mem, sp |-> end, a0 |-> n, a1 |-> end]
  PROVE  new.ok /\ Landed(args, n, top, size, end, new)
<1>0. /\ args \in ArgLists /\ n \in Nat /\ n = Len(args)
      /\ IsTop(args, n, top) /\ size \in Nat \ {0}
  BY DEF CanPush
<1>1. /\ st.mem \in UserMemory(Nat) /\ st.sp \in Nat /\ st.ustack \in Seq(Nat)
      /\ st.sp = top[n] /\ st.sp <= PGSIZE
      /\ st.mem.pte = ProgramOf(size).pte
      /\ \A a \in VA : a < st.sp => st.mem.byte[a] = ProgramOf(size).byte[a]
      /\ \A i \in 1 .. n : st.ustack[i] = top[i]
      /\ Laid(args, top, n, st.mem)
  BY DEF PushStates, PushState, Pushed
<1>. PICK l \in Nat : l = (n + 1) * PTRSIZE /\ l > 0
  <2>1. n + 1 \in Nat /\ 0 < n + 1
    BY <1>0
  <2>2. 0 * PTRSIZE + PTRSIZE <= (n + 1) * PTRSIZE /\ 0 * PTRSIZE = 0
        /\ (n + 1) * PTRSIZE \in Nat
    BY <2>1, Products
  <2>. QED  BY <2>2, Sizes
<1>. PICK p : p = Append(st.ustack, 0)
  OBVIOUS
<1>. PICK e \in Nat : e = n + 1 /\ l = e * PTRSIZE
  BY <1>0
<1>2. /\ p \in [1 .. e -> Nat] /\ IsArray(s, e, p) /\ p[n + 1] = 0
      /\ \A i \in 1 .. n : p[i] = st.ustack[i]
  <2>1. StackPointers(p, n, st.ustack)
    BY <1>0, <1>1, PointersAre
  <2>. QED  BY <2>1 DEF StackPointers
<1>12. s \in Seq(Nat) /\ Len(s) = l
  BY <1>2 DEF IsArray
<1>3. end + l <= st.sp /\ end + l <= PGSIZE
  <2>. PICK g \in Nat : g = PGSIZE
    BY PageInMemory
  <2>. PICK x \in Nat : x = st.sp /\ x <= g
    BY <1>1
  <2>1. end + l <= x
    OBVIOUS
  <2>. QED  BY <2>1
<1>4. d.ok /\ d.mem.pte = ProgramOf(size).pte /\ Wrote(st.mem, end, s, l, d.mem)
  <2>. PICK m \in UserMemory(Nat) : m = st.mem
    BY <1>1
  <2>1. /\ m.pte = ProgramOf(size).pte /\ s \in Seq(Nat) /\ l = Len(s)
        /\ end + l <= PGSIZE /\ d = CopyOut(m, end, s)
    BY <1>1, <1>12, <1>3
  <2>2. CopiedToStack(m, end, s, l, size, d)
    BY <2>1, CopyToStack
  <2>. QED  BY <2>1, <2>2 DEF CopiedToStack
<1>5. Laid(args, top, n, d.mem)
  <2>1. \A a \in VA : a >= top[n] => a \notin end .. end + l - 1
    BY <1>1, <1>3 DEF VA
  <2>2. \A a \in VA : a >= top[n] => d.mem.byte[a] = st.mem.byte[a]
    BY <1>4, <2>1 DEF Wrote
  <2>3. n \in 0 .. n /\ top[n] >= 0
    BY <1>0, <1>1
  <2>4. SameAbove(top[n], st.mem, d.mem)
    BY <2>2 DEF SameAbove
  <2>. QED  BY <1>0, <1>1, <2>3, <2>4, LaidKeeps
<1>6. \A i \in 0 .. n : PointerAt(d.mem, end, i, p[i + 1])
  <2>. SUFFICES ASSUME NEW i \in 0 .. n
                PROVE  PointerAt(d.mem, end, i, p[i + 1])
    OBVIOUS
  <2>1. i \in 0 .. e - 1
    BY <1>0
  <2>. QED  BY <1>2, <1>3, <1>4, <2>1, PointerWritten
<1>13. \A i \in 0 .. n - 1 : PointerAt(d.mem, end, i, top[i + 1])
  <2>. SUFFICES ASSUME NEW i \in 0 .. n - 1
                PROVE  PointerAt(d.mem, end, i, top[i + 1])
    OBVIOUS
  <2>1. i \in 0 .. n /\ i + 1 \in 1 .. n
    BY <1>0
  <2>. QED  BY <1>1, <1>2, <1>6, <2>1
<1>14. PointerAt(d.mem, end, n, 0)
  <2>1. n \in 0 .. n
    BY <1>0
  <2>. QED  BY <1>2, <1>6, <2>1
<1>7. ASSUME NEW a \in 0 .. size - 1
      PROVE  d.mem.byte[a] = Code
  <2>1. a < end /\ a < st.sp /\ a < size /\ a \in Nat
    BY <1>0, <1>1, <1>3
  <2>2. a \in VA
    <3>1. a < PGSIZE /\ PGSIZE <= MAXVA /\ PGSIZE \in Nat /\ MAXVA \in Nat
      BY <1>1, <2>1, PageIsAligned, Sizes
    <3>. QED  BY <2>1, <3>1 DEF VA
  <2>3. a \notin end .. end + l - 1
    BY <2>1
  <2>4. d.mem.byte[a] = st.mem.byte[a]
    BY <1>4, <2>2, <2>3 DEF Wrote
  <2>. QED  BY <1>1, <2>1, <2>2, <2>4, ProgramIs
<1>8. /\ new.ok = d.ok /\ new.mem = d.mem /\ new.sp = end /\ new.a0 = n
      /\ new.a1 = end
  OBVIOUS
<1>. QED  BY <1>4, <1>5, <1>13, <1>14, <1>7, <1>8 DEF Landed

LEMMA PushPointersIs ==
  ASSUME NEW args, NEW n, NEW top, NEW size, CanPush(args, n, top, size),
         NEW st \in PushStates(args, n, top, size), st.ok => Len(st.ustack) = n,
         (n + 1) * PTRSIZE <= MAXVA,
         NEW end, end = AlignDown(top[n] - (n + 1) * PTRSIZE, 2 * PTRSIZE),
         NEW new, new = PushPointers(st, size)
  PROVE  /\ new.ok <=> end >= size
         /\ new.ok => Landed(args, n, top, size, end, new)
<1>0. /\ args \in ArgLists /\ n \in Nat /\ n = Len(args)
      /\ IsTop(args, n, top) /\ size \in Nat \ {0}
  BY DEF CanPush
<1>. PICK l \in Nat : l = (n + 1) * PTRSIZE /\ l <= MAXVA
  BY <1>0, Products
<1>1. top[n] \in Int
  BY <1>0 DEF IsTop
<1>2. end \in Int /\ end <= top[n]
  <2>1. top[n] - l \in Int /\ end = AlignDown(top[n] - l, 2 * PTRSIZE)
    BY <1>1
  <2>2. end \in Int /\ end <= top[n] - l
    BY <2>1, PageIsAligned, AlignDownIs
  <2>. QED  BY <1>1, <2>2
<1>3. CASE ~ st.ok
  <2>1. ~ new.ok
    BY <1>3 DEF PushPointers
  <2>2. top[n] < size
    BY <1>3 DEF PushStates, Pushed
  <2>. QED  BY <1>0, <1>1, <1>2, <2>1, <2>2
<1>4. CASE st.ok
  <2>1. /\ st.mem \in UserMemory(Nat) /\ st.sp \in Nat /\ st.ustack \in Seq(Nat)
        /\ st.sp = top[n] /\ st.sp <= PGSIZE /\ Len(st.ustack) = n
        /\ st.mem.pte = ProgramOf(size).pte
    BY <1>4 DEF PushStates, PushState, Pushed
  <2>. PICK sp : sp = AlignDown(Sub(st.sp, l), 2 * PTRSIZE)
    OBVIOUS
  <2>2. /\ sp \in Nat
        /\ st.sp >= l => sp = end /\ sp + l <= st.sp
        /\ st.sp < l => sp >= PGSIZE /\ end < 0
    <3>1. IsRoom(st.sp, l, 2 * PTRSIZE, sp)
      BY <2>1, PageIsAligned, RoomIs
    <3>. QED  BY <2>1, <3>1 DEF IsRoom
  <2>. PICK s : s = StoredAll(Append(st.ustack, 0))
    OBVIOUS
  <2>. PICK d : d = CopyOut(st.mem, sp, s)
    OBVIOUS
  <2>3. CASE sp < size
    <3>1. ~ new.ok
      BY <1>4, <2>1, <2>3 DEF PushPointers
    <3>2. end < size
      BY <1>0, <1>2, <2>1, <2>2, <2>3
    <3>. QED  BY <1>0, <1>2, <3>1, <3>2
  <2>4. CASE ~ (sp < size)
    <3>1. new = [ok |-> d.ok, mem |-> d.mem, sp |-> sp, a0 |-> n, a1 |-> sp]
      BY <1>4, <2>1, <2>4 DEF PushPointers
    <3>2. CASE st.sp >= l
      <4>1. end \in Nat /\ end >= size /\ end + (n + 1) * PTRSIZE <= st.sp /\ sp = end
        BY <1>0, <2>2, <2>4, <3>2
      <4>2. new.ok /\ Landed(args, n, top, size, end, new)
        BY <1>4, <2>1, <3>1, <4>1, PushPointersLand
      <4>. QED  BY <4>1, <4>2
    <3>3. CASE st.sp < l
      <4>1. sp >= PGSIZE /\ end < 0
        BY <2>2, <3>3
      <4>2. s \in Seq(Nat) /\ Len(s) = l
        <5>. PICK p : p = Append(st.ustack, 0) /\ s = StoredAll(p)
          OBVIOUS
        <5>1. StackPointers(p, n, st.ustack)
          BY <1>0, <2>1, PointersAre
        <5>. QED  BY <5>1 DEF StackPointers, IsArray
      <4>3. ~ d.ok
        <5>. PICK m \in UserMemory(Nat) : m = st.mem
          BY <2>1
        <5>1. /\ m.pte = ProgramOf(size).pte /\ l = Len(s) /\ l > 0
              /\ d = CopyOut(m, sp, s) /\ sp \in Nat
          BY <2>1, <2>2, <3>3, <4>2
        <5>2. CopiedToStack(m, sp, s, l, size, d)
          BY <4>2, <5>1, CopyToStack
        <5>. QED  BY <4>1, <5>2 DEF CopiedToStack
      <4>4. ~ new.ok
        BY <3>1, <4>3
      <4>. QED  BY <1>0, <1>2, <4>1, <4>4
    <3>. QED  BY <2>1, <3>2, <3>3
  <2>. QED  BY <2>3, <2>4
<1>. QED  BY <1>3, <1>4

\* String i of the caller, of length l, lies at va.
StringAt(c, i, m, va, l) ==
  /\ IsString(m, va, l)
  /\ Bytes(m, va, l) = Bytes(c.mem, c.argv[i], l)

LEMMA StringLanded ==
  ASSUME NEW c, IsCaller(c), NEW n \in Nat, NEW args \in ArgLists,
         n = Len(args), HasArgs(c, n, args),
         NEW top, IsTop(args, n, top), top[n] >= 0,
         NEW m, NEW size, m.pte = ProgramOf(size).pte, Laid(args, top, n, m),
         NEW i \in 1 .. n,
         NEW l, l = StringLen(c.mem, c.argv[i])
  PROVE  StringAt(c, i, m, top[i], l)
<1>1. i \in 1 .. MAXARG /\ args[i] \in Seq(Nat) /\ IsArg(c, i, args[i])
  BY ArgAssumption, ArgListIs DEF HasArgs
<1>. PICK s \in Seq(Nat) : s = args[i]
  BY <1>1
<1>2. /\ l = Len(s) /\ l \in Nat
      /\ \A j \in 1 .. l : s[j] # Nul
  BY <1>1, ArgIs
<1>3. s = Bytes(c.mem, c.argv[i], l)
  BY <1>1, <1>2 DEF IsArg
<1>4. /\ top[i] \in Nat /\ top[i] + l < PGSIZE
      /\ \A x \in 0 .. l : top[i] + x \in VA
  <2>1. n \in 0 .. n
    OBVIOUS
  <2>. QED  BY <1>2, <2>1, TopInPage
<1>. PICK t \in Nat : t = top[i]
  BY <1>4
<1>5. /\ \A j \in 1 .. l : m.byte[t + j - 1] = s[j]
      /\ m.byte[t + l] = Nul
  BY <1>2 DEF Laid
<1>6. \A a \in t .. t + l : Readable(m, a)
  <2>. SUFFICES ASSUME NEW a \in t .. t + l
                PROVE  Readable(m, a)
    OBVIOUS
  <2>1. a \in VA /\ a < PGSIZE
    <3>1. a - t \in 0 .. l /\ t + (a - t) = a
      BY <1>2
    <3>2. a \in VA
      BY <1>4, <3>1
    <3>. QED  BY <1>2, <1>4, <3>2, Sizes
  <2>. QED  BY <2>1, StackIsWritable
<1>7. \A a \in t .. t + l - 1 : m.byte[a] # Nul
  <2>. SUFFICES ASSUME NEW a \in t .. t + l - 1
                PROVE  m.byte[a] # Nul
    OBVIOUS
  <2>. PICK j : j = a - t + 1
    OBVIOUS
  <2>0. j \in 1 .. l /\ t + j - 1 = a
    BY <1>2, OffsetInRange
  <2>1. m.byte[t + j - 1] = s[j] /\ s[j] # Nul
    BY <1>2, <1>5, <2>0
  <2>. QED  BY <2>0, <2>1
<1>8. Bytes(m, t, l) = s
  <2>1. Bytes(m, t, l) = [j \in 1 .. l |-> s[j]]
    BY <1>5 DEF Bytes
  <2>2. s = [j \in 1 .. l |-> s[j]]
    BY <1>2, LenProperties
  <2>. QED  BY <2>1, <2>2
<1>. QED  BY <1>3, <1>5, <1>6, <1>7, <1>8 DEF IsString, StringAt

\* Reading a pointer of the new stack.
LEMMA PointerRead ==
  ASSUME NEW m, NEW va, NEW i, NEW v \in Nat, v <= PGSIZE, PointerAt(m, va, i, v)
  PROVE  Pointer(m, va, i) = v
<1>1. v < VAMod
  BY Sizes
<1>. QED  BY <1>1, LoadedStored DEF PointerAt, Pointer

LEMMA ArrivedIs ==
  ASSUME NEW c, IsCaller(c), NEW n \in Nat, NEW args \in ArgLists,
         n = Len(args), HasArgs(c, n, args),
         NEW top, IsTop(args, n, top), top[n] >= 0,
         NEW end \in Int, end % (2 * PTRSIZE) = 0,
         NEW size, NEW new, Landed(args, n, top, size, end, new)
  PROVE  Arrived(c, n, size, new)
<1>. PICK m : m = new.mem
  OBVIOUS
<1>1. /\ new.a0 = n /\ new.sp = end /\ new.a1 = end
      /\ m.pte = ProgramOf(size).pte
      /\ Laid(args, top, n, m)
      /\ \A i \in 0 .. n - 1 : PointerAt(m, end, i, top[i + 1])
      /\ PointerAt(m, end, n, 0)
      /\ \A a \in 0 .. size - 1 : m.byte[a] = Code
  BY DEF Landed
<1>2. Pointer(m, new.a1, n) = 0
  <2>1. 0 \in Nat /\ 0 <= PGSIZE
    BY Sizes
  <2>2. Pointer(m, end, n) = 0
    BY <1>1, <2>1, PointerRead
  <2>. QED  BY <1>1, <2>2
<1>3. ASSUME NEW i \in 0 .. n - 1
      PROVE  LET p == Pointer(m, new.a1, i)
                 k == StringLen(c.mem, c.argv[i + 1])
             IN  /\ IsString(m, p, k)
                 /\ Bytes(m, p, k) = Bytes(c.mem, c.argv[i + 1], k)
  <2>. PICK j \in 1 .. n : j = i + 1
    OBVIOUS
  <2>1. top[j] \in Nat /\ top[j] <= PGSIZE
    <3>1. n \in 0 .. n
      OBVIOUS
    <3>2. top[j] \in Nat /\ Len(args[j]) \in Nat /\ top[j] + Len(args[j]) < PGSIZE
      BY <3>1, TopInPage
    <3>. QED  BY <3>2, Sizes
  <2>. PICK v \in Nat : v = top[j]
    BY <2>1
  <2>2. PointerAt(m, end, i, v)
    BY <1>1
  <2>3. Pointer(m, end, i) = v
    BY <2>1, <2>2, PointerRead
  <2>. PICK k : k = StringLen(c.mem, c.argv[j])
    OBVIOUS
  <2>4. StringAt(c, j, m, top[j], k)
    BY <1>1, StringLanded
  <2>. QED  BY <1>1, <2>3, <2>4 DEF StringAt
<1>. QED  BY <1>1, <1>2, <1>3 DEF Arrived

\* The caller's array ends at its first null.
LEMMA OneCount ==
  ASSUME NEW c, NEW n \in Nat, NEW k \in Nat, PassedArgs(c, n), PassedArgs(c, k)
  PROVE  n = k
<1>1. ASSUME NEW x \in Nat, NEW y \in Nat, x < y, PassedArgs(c, x), PassedArgs(c, y)
      PROVE  FALSE
  <2>1. x + 1 \in 1 .. y
    BY <1>1
  <2>. QED  BY <1>1, <2>1 DEF PassedArgs
<1>. QED  BY <1>1

LEMMA ExecIsExact ==
  ASSUME NEW c, IsCaller(c), NEW size \in Nat \ {0}
  PROVE  ExecAgrees(c, size)
<1>. PICK a : a = CollectArgs(c.mem, c.uargv)
  OBVIOUS
<1>. PICK new : new = SysExec(c.mem, c.uargv, size)
  OBVIOUS
<1>1. /\ a.ok \in BOOLEAN /\ a.got \in ArgLists
      /\ a.ok => HasArgs(c, Len(a.got), a.got) /\ PassedArgs(c, Len(a.got))
      /\ ~ a.ok => NonePassed(c)
  BY CollectIsExact
<1>2. CASE ~ a.ok
  <2>1. ~ new.ok
    BY <1>2 DEF SysExec
  <2>2. NonePassed(c)
    BY <1>1, <1>2
  <2>. QED  BY <2>1, <2>2 DEF NonePassed, ExecAgrees
<1>3. CASE a.ok
  <2>. PICK args \in ArgLists : args = a.got
    BY <1>1
  <2>. PICK n \in Nat : n = Len(args)
    BY ArgListIs
  <2>1. HasArgs(c, n, args) /\ PassedArgs(c, n) /\ n \in 0 .. MAXARG
    <3>1. HasArgs(c, n, args) /\ PassedArgs(c, n)
      BY <1>1, <1>3
    <3>. QED  BY <3>1, ArgAssumption DEF HasArgs
  <2>2. PICK top : /\ IsTop(args, n, top)
                   /\ StackEnd(c, n) =
                        AlignDown(top[n] - (n + 1) * PTRSIZE, 2 * PTRSIZE)
    BY <2>1, StackTops
  <2>3. Fit(args, n)
    <3>. SUFFICES ASSUME NEW i \in 1 .. n
                  PROVE  Len(args[i]) + 1 <= MAXVA
      BY DEF Fit
    <3>1. i \in 1 .. MAXARG
      <4>1. n <= MAXARG /\ MAXARG \in Nat
        BY <2>1, ArgAssumption DEF HasArgs
      <4>. QED  BY <4>1
    <3>2. args[i] \in Seq(Nat) /\ IsArg(c, i, args[i])
      BY <2>1, ArgListIs DEF HasArgs
    <3>. QED  BY <3>1, <3>2, ArgIs
  <2>4. CanPush(args, n, top, size)
    BY <2>2, <2>3 DEF CanPush
  <2>5. (n + 1) * PTRSIZE <= MAXVA /\ (n + 1) * PTRSIZE \in Nat
    <3>1. n + 1 \in Nat /\ n + 1 > 0 /\ (n + 1) * PTRSIZE \in Nat
      <4>. PICK e \in Nat : e = n + 1 /\ e > 0
        OBVIOUS
      <4>1. e * PTRSIZE \in Nat
        BY Products
      <4>. QED  BY <4>1
    <3>2. ArrayReadable(c, n + 1)
      BY <2>1 DEF PassedArgs, ArrayReadable
    <3>3. c.uargv + (n + 1) * PTRSIZE <= MAXVA
      BY <3>1, <3>2, ArrayInMemory
    <3>4. c.uargv \in Nat
      BY DEF IsCaller
    <3>. QED  BY <3>1, <3>3, <3>4, Sizes
  <2>. PICK st : st = PushArgs(args, size)
    OBVIOUS
  <2>6. st \in PushStates(args, n, top, size) /\ (st.ok => Len(st.ustack) = n)
    BY <2>4, PushIsExact
  <2>. PICK end : end = StackEnd(c, n)
    OBVIOUS
  <2>7. new = PushPointers(st, size)
    BY <1>3 DEF SysExec, Kexec
  <2>8. /\ new.ok <=> end >= size
        /\ new.ok => Landed(args, n, top, size, end, new)
    BY <2>2, <2>4, <2>5, <2>6, <2>7, PushPointersIs
  <2>12. top[n] \in Int
    <3>1. n \in 0 .. n /\ top \in [0 .. n -> Int]
      BY <2>2 DEF IsTop
    <3>. QED  BY <3>1
  <2>9. end \in Int /\ end <= top[n] /\ end % (2 * PTRSIZE) = 0
    <3>. PICK l \in Nat : l = (n + 1) * PTRSIZE
      BY <2>5
    <3>. PICK t \in Int : t = top[n] - l
      BY <2>12
    <3>1. end \in Int /\ end <= t /\ end % (2 * PTRSIZE) = 0
      BY <2>2, PageIsAligned, AlignDownIs
    <3>. QED  BY <2>12, <3>1
  <2>10. new.ok => Arrived(c, n, size, new)
    <3>. SUFFICES ASSUME new.ok
                  PROVE  Arrived(c, n, size, new)
      OBVIOUS
    <3>1. top[n] >= 0
      BY <2>8, <2>9, <2>12
    <3>2. Landed(args, n, top, size, end, new)
      BY <2>8
    <3>. QED  BY <2>1, <2>2, <2>9, <3>1, <3>2, ArrivedIs
  <2>11. ASSUME NEW k \in 0 .. MAXARG, PassedArgs(c, k)
         PROVE  k = n
    <3>1. k \in Nat
      OBVIOUS
    <3>. QED  BY <2>1, <2>11, <3>1, OneCount
  <2>. QED  BY <2>1, <2>8, <2>10, <2>11 DEF ExecAgrees
<1>. QED  BY <1>1, <1>2, <1>3

-------------------------------------------------------------------------
\* n bytes; the provers do better without the type of s.
AreBytes(s, n) == Len(s) = n /\ \A i \in 1 .. n : s[i] \in Nat

\* The bytes of a pointer make an address.
LEMMA LoadedIs ==
  ASSUME NEW n \in Nat, NEW s, AreBytes(s, n)
  PROVE  Loaded(s) \in Nat
<1>. DEFINE top    == CHOOSE top : top = [i \in 0 .. n |->
                        IF i = 0 THEN 0 ELSE s[n + 1 - i] + ByteMod * top[i - 1]]
            b(j)   == IF j \in 1 .. n THEN s[j] ELSE 0
            step   == [e \in Nat \X Nat |-> b(n - e[1]) + ByteMod * e[2]]
<1>1. Loaded(s) = top[n]
  BY DEF Loaded, AreBytes
<1>2. \A j \in Int : b(j) \in Nat
  BY DEF AreBytes
<1>3. \A j \in 1 .. n : b(j) = s[j]
  OBVIOUS
<1>. HIDE DEF b
<1>4. step \in [Nat \X Nat -> Nat]
  <2>1. ASSUME NEW e \in Nat \X Nat
        PROVE  b(n - e[1]) + ByteMod * e[2] \in Nat
    <3>1. n - e[1] \in Int /\ e[2] \in Nat
      OBVIOUS
    <3>. PICK x \in Nat : x = e[2]
      BY <3>1
    <3>. PICK m \in Nat : m = ByteMod
      BY Sizes
    <3>. PICK y \in Nat : y = b(n - e[1])
      BY <1>2, <3>1
    <3>2. m * x \in Nat
      OBVIOUS
    <3>. QED  BY <3>2
  <2>. QED  BY <2>1
<1>5. PICK g \in [Nat -> Nat] : /\ g[0] = 0
                                /\ \A i \in Nat : g[i + 1] = step[<<i, g[i]>>]
  <2>. HIDE DEF step
  <2>1. HasIndexedRun(Nat, 0, step)
    BY <1>4, IndexedRecursion
  <2>. QED  BY <2>1 DEF HasIndexedRun
<1>6. ASSUME NEW i \in 1 .. n
      PROVE  g[i] = s[n + 1 - i] + ByteMod * g[i - 1]
  <2>. PICK j \in Nat : j = i - 1 /\ j + 1 = i /\ n - j \in 1 .. n /\ n - j = n + 1 - i
    OBVIOUS
  <2>1. g[j + 1] = step[<<j, g[j]>>] /\ <<j, g[j]>> \in Nat \X Nat
    BY <1>5
  <2>2. g[j + 1] = b(n - j) + ByteMod * g[j]
    BY <2>1
  <2>. QED  BY <1>3, <2>2
<1>. HIDE DEF step
<1>. DEFINE f == [i \in 0 .. n |-> g[i]]
<1>7. f = [i \in 0 .. n |-> IF i = 0 THEN 0 ELSE s[n + 1 - i] + ByteMod * f[i - 1]]
  <2>1. ASSUME NEW i \in 0 .. n
        PROVE  g[i] = IF i = 0 THEN 0 ELSE s[n + 1 - i] + ByteMod * f[i - 1]
    <3>1. CASE i = 0
      BY <1>5, <3>1
    <3>2. CASE i # 0
      <4>1. i \in 1 .. n /\ i - 1 \in 0 .. n
        BY <3>2
      <4>2. f[i - 1] = g[i - 1]
        BY <4>1
      <4>. QED  BY <1>6, <3>2, <4>1, <4>2
    <3>. QED  BY <3>1, <3>2
  <2>. QED  BY <2>1
<1>. HIDE DEF f
<1>8. top = [i \in 0 .. n |-> IF i = 0 THEN 0 ELSE s[n + 1 - i] + ByteMod * top[i - 1]]
  BY <1>7, Zenon
<1>. HIDE DEF top
<1>9. ASSUME NEW j \in 1 .. n, NEW x \in Nat, x = top[j - 1]
      PROVE  top[j] \in Nat
  <2>1. top[j] = s[n + 1 - j] + ByteMod * x
    <3>1. j \in 0 .. n /\ j # 0
      OBVIOUS
    <3>. QED  BY <1>8, <1>9, <3>1
  <2>2. s[n + 1 - j] \in Nat
    <3>. PICK k \in 1 .. n : k = n + 1 - j
      OBVIOUS
    <3>. QED  BY DEF AreBytes
  <2>3. ByteMod * x \in Nat
    <3>. PICK m \in Nat : m = ByteMod
      BY Sizes
    <3>. QED  OBVIOUS
  <2>. QED  BY <2>1, <2>2, <2>3
<1>. DEFINE R == {i \in Nat : i <= n => top[i] \in Nat}
<1>10. 0 \in R
  BY <1>8
<1>11. ASSUME NEW i \in Nat, i \in R
       PROVE  i + 1 \in R
  <2>1. ASSUME i + 1 <= n
        PROVE  top[i + 1] \in Nat
    <3>. PICK j \in 1 .. n : j = i + 1 /\ j - 1 = i
      BY <2>1
    <3>. PICK x \in Nat : x = top[j - 1]
      BY <1>11
    <3>1. top[j] \in Nat
      BY <1>9
    <3>. QED  BY <3>1
  <2>. QED  BY <2>1
<1>. HIDE DEF R
<1>12. n \in R
  BY <1>10, <1>11, Induction
<1>. QED  BY <1>1, <1>12 DEF R

\* The pointers that the array at va holds.
Pointers(m, va) == [i \in 1 .. MAXARG |-> Pointer(m, va, i - 1)]

\* The caller with that memory and that array.
CallerWith(m, va) == [mem |-> m, uargv |-> va, argv |-> Pointers(m, va)]

\* Any memory and any address make one.
LEMMA AnyCaller ==
  ASSUME NEW m \in UserMemory(Nat), NEW va \in Nat, va < VAMod
  PROVE  IsCaller(CallerWith(m, va))
<1>. PICK c : c = CallerWith(m, va)
  OBVIOUS
<1>1. c.mem = m /\ c.uargv = va /\ c.argv = Pointers(m, va)
  BY DEF CallerWith
<1>2. ASSUME NEW i \in Nat, i < MAXARG, ArrayReadable(c, i + 1)
      PROVE  c.argv[i + 1] \in Nat /\ Pointer(m, va, i) = c.argv[i + 1]
  <2>. PICK p \in Nat \ {0} : p = PTRSIZE
    BY Sizes
  <2>. PICK k \in Nat : k = i * PTRSIZE /\ (i + 1) * PTRSIZE = k + p
    BY Products
  <2>1. ASSUME NEW j \in 1 .. p
        PROVE  m.byte[va + k + j - 1] \in Nat
    <3>. PICK a : a = va + k + j - 1
      OBVIOUS
    <3>1. a \in va .. va + (k + p) - 1
      OBVIOUS
    <3>2. a \in VA
      BY <1>1, <1>2, <3>1 DEF ArrayReadable, Readable
    <3>3. m.byte \in [VA -> Nat]
      BY DEF UserMemory
    <3>. QED  BY <3>2, <3>3
  <2>2. Bytes(m, va + i * PTRSIZE, PTRSIZE) \in [1 .. p -> Nat]
    BY <2>1 DEF Bytes
  <2>3. AreBytes(Bytes(m, va + i * PTRSIZE, PTRSIZE), p)
    <3>. PICK s \in [1 .. p -> Nat] : s = Bytes(m, va + i * PTRSIZE, PTRSIZE)
      BY <2>2
    <3>1. s \in Seq(Nat) /\ Len(s) = p
      BY FunctionIsSeq
    <3>2. \A j \in 1 .. p : s[j] \in Nat
      OBVIOUS
    <3>. QED  BY <3>1, <3>2 DEF AreBytes
  <2>4. Pointer(m, va, i) \in Nat
    BY <2>3, LoadedIs DEF Pointer
  <2>5. c.argv[i + 1] = Pointer(m, va, i)
    <3>. PICK j \in 1 .. MAXARG : j = i + 1 /\ j - 1 = i
      BY <1>2, ArgAssumption
    <3>1. c.argv[j] = Pointer(m, va, j - 1)
      BY <1>1 DEF Pointers
    <3>. QED  BY <3>1
  <2>. QED  BY <2>4, <2>5
<1>. QED  BY <1>1, <1>2 DEF IsCaller

\* exec passes on exactly the strings of its caller, or fails when they cannot
\* be read or do not fit above the new program: for every memory of the
\* caller, every place in it for the array of pointers, every number and
\* length of strings and every size of pages, of pointers and of the program
\* (sys_exec in kernel/proc/proc.c, kexec).
THEOREM ExecOfAnyCaller ==
  ASSUME NEW m \in UserMemory(Nat), NEW va \in 0 .. VAMod - 1,
         NEW size \in Nat \ {0}
  PROVE  ExecAgrees(CallerWith(m, va), size)
<1>1. va \in Nat /\ va < VAMod
  BY Sizes
<1>2. IsCaller(CallerWith(m, va))
  BY <1>1, AnyCaller
<1>. QED  BY <1>2, ExecIsExact

\* A call of MCVM has such a caller.
LEMMA CallsHaveCallers ==
  ASSUME NEW call \in ExecCalls
  PROVE  IsCaller(Caller(call))
<1>. PICK c : c = Caller(call)
  OBVIOUS
<1>1. c.mem = ExecMemory(call) /\ c.uargv = ArgArray /\ c.argv = call.argv
  BY DEF Caller
<1>2. c.mem \in UserMemory(Nat) /\ c.uargv \in Nat /\ c.uargv < VAMod
  BY <1>1, ExecCallsAreTyped, ArgArrayIs
<1>3. ASSUME NEW i \in Nat, i < MAXARG, ArrayReadable(c, i + 1)
      PROVE  c.argv[i + 1] \in Nat /\ Pointer(c.mem, c.uargv, i) = c.argv[i + 1]
  <2>1. c.argv[i + 1] \in Nat
    <3>. PICK j \in 1 .. MAXARG : j = i + 1
      BY <1>3, ArgAssumption
    <3>1. call.argv[j] \in Nat
      BY ExecCallsAreTyped
    <3>. QED  BY <1>1, <3>1
  <2>. PICK k \in Nat : k = i * PTRSIZE /\ (i + 1) * PTRSIZE = k + PTRSIZE
    BY Products
  <2>2. c.uargv + (i + 1) * PTRSIZE <= MAXVA
    <3>. PICK n \in Nat \ {0} : n = i + 1
      OBVIOUS
    <3>1. c.uargv + n * PTRSIZE <= MAXVA
      BY <1>2, <1>3, ArrayEnds
    <3>. QED  BY <3>1
  <2>3. ArgArray + i * PTRSIZE + PTRSIZE <= MAXVA
    BY <1>1, <1>2, <2>2, Sizes
  <2>4. Loaded(Bytes(ExecMemory(call), ArgArray + i * PTRSIZE, PTRSIZE)) = call.argv[i + 1]
    BY <1>3, <2>3, ArgPointer
  <2>. QED  BY <1>1, <2>1, <2>4 DEF Pointer
<1>. QED  BY <1>2, <1>3 DEF IsCaller

\* So it does for the calls of MCVM, for every size of pages and of pointers
\* (sys_exec, kexec).
THEOREM ArgsArrive == MCSpec => []ExecArgsArrive
<1>. DEFINE Asked == asked \in {Nothing} \cup CopyCalls \cup ExecCalls
<1>1. MCInit => Asked
  BY DEF MCInit
<1>2. Asked /\ [MCNext]_<<vars, asked>> => Asked'
  BY DEF MCNext
<1>3. Asked => ExecArgsArrive
  <2>. SUFFICES ASSUME Asked
                PROVE  ExecArgsArrive
    OBVIOUS
  <2>1. CASE asked = Nothing
    BY <2>1 DEF Nothing, ExecArgsArrive
  <2>2. CASE asked \in CopyCalls
    BY <2>2 DEF CopyCalls, ExecArgsArrive
  <2>3. CASE asked \in ExecCalls
    <3>1. IsCaller(Caller(asked)) /\ asked.size \in Nat \ {0}
      BY <2>3, CallsHaveCallers, ExecCallsAreTyped
    <3>2. ExecAgrees(Caller(asked), asked.size)
      BY <3>1, ExecIsExact
    <3>. QED  BY <3>2 DEF ExecArgsArrive
  <2>. QED  BY <2>1, <2>2, <2>3
<1>. HIDE DEF Asked
<1>. QED  BY <1>1, <1>2, <1>3, PTL DEF MCSpec

=========================================================================
