--------------------------- MODULE KAllocProofs -------------------------
(***************************************************************************)
(* Theorems about KAlloc, for every number of pages and processes: as long *)
(* as one process at a time is in the allocator, the list is exactly the   *)
(* free pages, no page has two users, and kalloc and kfree are a pool.     *)
(***************************************************************************)
EXTENDS KAlloc, FiniteSetTheorems, SequenceTheorems, TLAPS

\* s, of length n, is the free list and holds the pages that are not taken.
Chain(n, s) ==
  /\ \A i, j \in 1 .. n : s[i] = s[j] => i = j
  /\ head = IF n = 0 THEN Null ELSE s[1]
  /\ \A i \in 1 .. n : word[s[i]] = IF i = n THEN Null ELSE s[i + 1]
  /\ \A g \in Page : Taken(g) <=> \A i \in 1 .. n : s[i] # g

Busy(p) == pc[p] # "idle"

\* What the local variable r is, at each place.
LocalsOK ==
  \A p \in Proc :
    /\ pc[p] = "next" => r[p] = head
    /\ pc[p] = "unlink" => r[p] = head /\ head # Null /\ loaded[p] = word[head]
    /\ pc[p] = "link" => loaded[p] = head
    /\ pc[p] = "push" => word[r[p]] = head
    /\ pc[p] \in {"zero", "head", "link", "push"}
         => r[p] \in Page /\ \A q \in Proc : r[p] \notin held[q]

OneAtATime == \A p, q \in Proc : Busy(p) /\ Busy(q) => p = q

OnePage == \A p, q \in Proc : p # q => held[p] \cap held[q] = {}

\* The inductive invariant.
AllocInv == TypeOK /\ OneAtATime /\ LocalsOK /\ OnePage /\ ListIsFreePages

-------------------------------------------------------------------------
\* Facts about lists.

LEMMA PageFacts == /\ Page \subseteq Nat \ {0}
                   /\ Null \notin Page
                   /\ Data \notin Page
                   /\ Null # Data
                   /\ NPAGE \in Page
BY NPAGEAssumption DEF Page, Null, Data

\* Every function from 1 .. n is a sequence of length n.
LEMMA FunctionIsSeq ==
  ASSUME NEW n \in Nat, NEW s \in [1 .. n -> Page]
  PROVE  Len(s) = n
<1>1. s \in Seq(Page)
  BY SeqDef
<1>2. Len(s) \in Nat /\ DOMAIN s = 1 .. Len(s)
  BY <1>1, LenProperties
<1>3. DOMAIN s = 1 .. n
  OBVIOUS
<1>4. 1 .. Len(s) = 1 .. n
  BY <1>2, <1>3
<1>5. \A k \in Nat : k >= 1 => (k <= Len(s) <=> k <= n)
  BY <1>4, <1>2
<1>6. Len(s) <= n
  <2>1. CASE Len(s) = 0
    BY <2>1
  <2>2. CASE Len(s) >= 1
    BY <2>2, <1>2, <1>5
  <2>. QED  BY <1>2, <2>1, <2>2
<1>7. n <= Len(s)
  <2>1. CASE n = 0
    BY <1>2, <2>1
  <2>2. CASE n >= 1
    BY <2>2, <1>2, <1>5
  <2>. QED  BY <2>1, <2>2
<1>. QED  BY <1>2, <1>6, <1>7

LEMMA FunctionIsList ==
  ASSUME NEW n \in Nat, n <= NPAGE, NEW s \in [1 .. n -> Page]
  PROVE  s \in Lists /\ Len(s) = n /\ (s = <<>> <=> n = 0)
<1>1. Len(s) = n
  BY FunctionIsSeq
<1>2. s \in Seq(Page)
  BY SeqDef
<1>3. s = <<>> <=> Len(s) = 0
  BY <1>2, EmptySeq
<1>. QED  BY <1>1, <1>3, NPAGEAssumption DEF Lists

\* ListIsFreePages without the operators on sequences.
LEMMA ChainIsList ==
  ListIsFreePages
    <=> \E n \in Nat : n <= NPAGE /\ \E s \in [1 .. n -> Page] : Chain(n, s)
<1>1. ASSUME NEW n \in Nat, n <= NPAGE, NEW s \in [1 .. n -> Page]
      PROVE  Chain(n, s)
               <=> /\ IsFreeList(s)
                   /\ \A g \in Page : Taken(g) <=> \A i \in 1 .. Len(s) : s[i] # g
  <2>1. Len(s) = n /\ (s = <<>> <=> n = 0)
    BY <1>1, FunctionIsList
  <2>. QED  BY <2>1 DEF Chain, IsFreeList
<1>2. ASSUME ListIsFreePages
      PROVE  \E n \in Nat : n <= NPAGE /\ \E s \in [1 .. n -> Page] : Chain(n, s)
  <2>1. PICK s \in Lists :
          /\ IsFreeList(s)
          /\ \A g \in Page : Taken(g) <=> \A i \in 1 .. Len(s) : s[i] # g
    BY <1>2 DEF ListIsFreePages
  <2>2. PICK n \in 0 .. NPAGE : s \in [1 .. n -> Page]
    BY DEF Lists
  <2>3. n \in Nat /\ n <= NPAGE
    BY NPAGEAssumption
  <2>. QED  BY <2>1, <2>2, <2>3, <1>1
<1>3. ASSUME NEW n \in Nat, n <= NPAGE, NEW s \in [1 .. n -> Page], Chain(n, s)
      PROVE  ListIsFreePages
  BY <1>1, <1>3, FunctionIsList DEF ListIsFreePages
<1>. QED  BY <1>2, <1>3

LEMMA ChainIsListNext ==
  ASSUME NEW n \in Nat, n <= NPAGE, NEW s \in [1 .. n -> Page], Chain(n, s)'
  PROVE  ListIsFreePages'
<1>1. s \in Lists /\ Len(s) = n /\ (s = <<>> <=> n = 0)
  BY FunctionIsList
<1>. QED  BY <1>1 DEF Chain, IsFreeList, ListIsFreePages

\* A list of distinct pages that misses a page has room for one more.
LEMMA RoomForOne ==
  ASSUME NEW n \in Nat, n <= NPAGE, NEW s \in [1 .. n -> Page], NEW g \in Page,
         \A i, j \in 1 .. n : s[i] = s[j] => i = j,
         \A i \in 1 .. n : s[i] # g
  PROVE  n + 1 <= NPAGE
<1>1. SUFFICES ASSUME n = NPAGE
               PROVE  FALSE
  BY NPAGEAssumption
<1>. DEFINE t == [i \in 1 .. NPAGE + 1 |-> IF i = 1 THEN g ELSE s[i - 1]]
<1>2. t \in [1 .. NPAGE + 1 -> 1 .. NPAGE]
  BY <1>1, NPAGEAssumption DEF Page
<1>3. /\ IsFiniteSet(1 .. NPAGE) /\ IsFiniteSet(1 .. NPAGE + 1)
      /\ Cardinality(1 .. NPAGE) = NPAGE
      /\ Cardinality(1 .. NPAGE + 1) = NPAGE + 1
  <2>1. NPAGE \in Int /\ NPAGE + 1 \in Int /\ 1 \in Int
    BY NPAGEAssumption
  <2>2. /\ IsFiniteSet(1 .. NPAGE)
        /\ Cardinality(1 .. NPAGE) = IF 1 > NPAGE THEN 0 ELSE NPAGE - 1 + 1
    BY <2>1, FS_Interval
  <2>3. /\ IsFiniteSet(1 .. NPAGE + 1)
        /\ Cardinality(1 .. NPAGE + 1)
             = IF 1 > NPAGE + 1 THEN 0 ELSE NPAGE + 1 - 1 + 1
    BY <2>1, FS_Interval
  <2>. QED  BY <2>2, <2>3, NPAGEAssumption
<1>4. Cardinality(1 .. NPAGE) < Cardinality(1 .. NPAGE + 1)
  BY <1>3, NPAGEAssumption
<1>. HIDE DEF t
<1>5. \E i, j \in 1 .. NPAGE + 1 : i # j /\ t[i] = t[j]
  BY <1>2, <1>3, <1>4, FS_PigeonHole
<1>6. \A i, j \in 1 .. NPAGE + 1 : t[i] = t[j] => i = j
  BY <1>1, NPAGEAssumption DEF t
<1>. QED  BY <1>5, <1>6

-------------------------------------------------------------------------
\* The list does not change when its words, its head and the taken pages do
\* not.
LEMMA SameList ==
  ASSUME ListIsFreePages, head' = head,
         \A g \in Page : Taken(g)' <=> Taken(g),
         \A g \in Page : ~ Taken(g) => word'[g] = word[g]
  PROVE  ListIsFreePages'
<1>1. PICK n \in Nat : n <= NPAGE /\ \E s \in [1 .. n -> Page] : Chain(n, s)
  BY ChainIsList
<1>2. PICK s \in [1 .. n -> Page] : Chain(n, s)
  BY <1>1
<1>3. \A i \in 1 .. n : word'[s[i]] = word[s[i]]
  BY <1>2 DEF Chain
<1>4. Chain(n, s)'
  BY <1>2, <1>3 DEF Chain
<1>. QED  BY <1>1, <1>4, ChainIsListNext

LEMMA HeadIsFree ==
  ListIsFreePages /\ head # Null => head \in Page /\ ~ Taken(head)
<1>. SUFFICES ASSUME ListIsFreePages, head # Null
              PROVE  head \in Page /\ ~ Taken(head)
  OBVIOUS
<1>1. PICK n \in Nat : n <= NPAGE /\ \E s \in [1 .. n -> Page] : Chain(n, s)
  BY ChainIsList
<1>2. PICK s \in [1 .. n -> Page] : Chain(n, s)
  BY <1>1
<1>. QED  BY <1>2 DEF Chain

\* Unlinking the head leaves the rest of the list.
LEMMA UnlinkedList ==
  ASSUME ListIsFreePages, head # Null, head' = word[head], word' = word,
         \A g \in Page : Taken(g)' <=> Taken(g) \/ g = head
  PROVE  ListIsFreePages' /\ head \in Page /\ ~ Taken(head)
<1>1. PICK n \in Nat : n <= NPAGE /\ \E s \in [1 .. n -> Page] : Chain(n, s)
  BY ChainIsList
<1>2. PICK s \in [1 .. n -> Page] : Chain(n, s)
  BY <1>1
<1>3. n >= 1 /\ head = s[1]
  BY <1>2 DEF Chain
<1>4. head \in Page /\ ~ Taken(head)
  BY <1>2, <1>3 DEF Chain
<1>. DEFINE m == n - 1
            t == [i \in 1 .. m |-> s[i + 1]]
<1>5. m \in Nat /\ m <= NPAGE /\ t \in [1 .. m -> Page]
  BY <1>1, <1>3, NPAGEAssumption
<1>6. \A i \in 1 .. m : t[i] = s[i + 1] /\ i + 1 \in 1 .. n
  BY <1>3
<1>7. \A i, j \in 1 .. m : t[i] = t[j] => i = j
  BY <1>2, <1>6 DEF Chain
<1>8. head' = IF m = 0 THEN Null ELSE t[1]
  BY <1>2, <1>3, <1>6 DEF Chain
<1>9. \A i \in 1 .. m : word'[t[i]] = IF i = m THEN Null ELSE t[i + 1]
  BY <1>2, <1>3, <1>6 DEF Chain
<1>10. \A g \in Page : Taken(g)' <=> \A i \in 1 .. m : t[i] # g
  <2>. SUFFICES ASSUME NEW g \in Page
                PROVE  Taken(g)' <=> \A i \in 1 .. m : t[i] # g
    OBVIOUS
  <2>1. Taken(g)' <=> (\A i \in 1 .. n : s[i] # g) \/ g = s[1]
    BY <1>2, <1>3 DEF Chain
  <2>2. ASSUME g = s[1]
        PROVE  \A i \in 1 .. m : t[i] # g
    BY <2>2, <1>2, <1>3, <1>6 DEF Chain
  <2>3. ASSUME g # s[1], \A i \in 1 .. m : t[i] # g
        PROVE  \A i \in 1 .. n : s[i] # g
    <3>1. SUFFICES ASSUME NEW i \in 1 .. n, i # 1
                   PROVE  s[i] # g
      BY <2>3
    <3>2. i - 1 \in 1 .. m /\ t[i - 1] = s[i]
      BY <3>1
    <3>. QED  BY <2>3, <3>2
  <2>. QED  BY <2>1, <2>2, <2>3, <1>6
<1>. HIDE DEF t, m
<1>11. Chain(m, t)'
  BY <1>7, <1>8, <1>9, <1>10 DEF Chain
<1>. QED  BY <1>4, <1>5, <1>11, ChainIsListNext

\* Linking a taken page in front of the head makes it the first of the list.
LEMMA PushedList ==
  ASSUME NEW g \in Page, ListIsFreePages, Taken(g), word[g] = head,
         head' = g, word' = word,
         \A h \in Page : Taken(h)' <=> Taken(h) /\ h # g
  PROVE  ListIsFreePages'
<1>1. PICK n \in Nat : n <= NPAGE /\ \E s \in [1 .. n -> Page] : Chain(n, s)
  BY ChainIsList
<1>2. PICK s \in [1 .. n -> Page] : Chain(n, s)
  BY <1>1
<1>3. \A i \in 1 .. n : s[i] # g
  BY <1>2 DEF Chain
<1>. DEFINE m == n + 1
            t == [i \in 1 .. m |-> IF i = 1 THEN g ELSE s[i - 1]]
<1>4. m \in Nat /\ m <= NPAGE
  BY <1>1, <1>2, <1>3, RoomForOne DEF Chain
<1>5. t \in [1 .. m -> Page]
  OBVIOUS
<1>6. t[1] = g /\ \A i \in 1 .. m : i # 1 => t[i] = s[i - 1] /\ i - 1 \in 1 .. n
  OBVIOUS
<1>7. \A i, j \in 1 .. m : t[i] = t[j] => i = j
  BY <1>2, <1>3 DEF Chain
<1>8. \A i \in 1 .. m : word'[t[i]] = IF i = m THEN Null ELSE t[i + 1]
  <2>. SUFFICES ASSUME NEW i \in 1 .. m
                PROVE  word[t[i]] = IF i = m THEN Null ELSE t[i + 1]
    OBVIOUS
  <2>1. CASE i = 1
    BY <2>1, <1>2, <1>6 DEF Chain
  <2>2. CASE i # 1
    <3>1. word[s[i - 1]] = IF i - 1 = n THEN Null ELSE s[i]
      BY <2>2, <1>2, <1>6 DEF Chain
    <3>. QED  BY <2>2, <3>1, <1>6
  <2>. QED  BY <2>1, <2>2
<1>9. \A h \in Page : Taken(h)' <=> \A i \in 1 .. m : t[i] # h
  <2>. SUFFICES ASSUME NEW h \in Page
                PROVE  Taken(h)' <=> \A i \in 1 .. m : t[i] # h
    OBVIOUS
  <2>1. Taken(h)' <=> (\A i \in 1 .. n : s[i] # h) /\ h # g
    BY <1>2 DEF Chain
  <2>2. ASSUME h # g, \A i \in 1 .. n : s[i] # h
        PROVE  \A i \in 1 .. m : t[i] # h
    BY <2>2, <1>6
  <2>3. ASSUME \A i \in 1 .. m : t[i] # h, NEW i \in 1 .. n
        PROVE  s[i] # h
    <3>1. i + 1 \in 1 .. m /\ t[i + 1] = s[i]
      OBVIOUS
    <3>. QED  BY <2>3, <3>1
  <2>4. (\A i \in 1 .. m : t[i] # h) => h # g
    BY <1>6
  <2>. QED  BY <2>1, <2>2, <2>3, <2>4
<1>10. head' = IF m = 0 THEN Null ELSE t[1]
  BY <1>6
<1>. HIDE DEF t, m
<1>11. Chain(m, t)'
  BY <1>7, <1>8, <1>9, <1>10 DEF Chain
<1>. QED  BY <1>4, <1>5, <1>11, ChainIsListNext

-------------------------------------------------------------------------
\* The invariant holds initially.

LEMMA InvInit == Init => AllocInv
<1>. SUFFICES ASSUME Init
              PROVE  AllocInv
  OBVIOUS
<1>1. TypeOK
  BY PageFacts, NPAGEAssumption DEF Init, TypeOK, Page, Null, Nobody
<1>2. OneAtATime /\ LocalsOK /\ OnePage
  BY DEF Init, OneAtATime, Busy, LocalsOK, OnePage
<1>3. ListIsFreePages
  <2>. DEFINE s == [i \in 1 .. NPAGE |-> NPAGE + 1 - i]
  <2>1. s \in [1 .. NPAGE -> Page]
    BY NPAGEAssumption DEF Page
  <2>2. \A g \in Page : ~ Taken(g)
    BY DEF Init, Taken, Uses, Freeing
  <2>3. \A g \in Page : NPAGE + 1 - g \in 1 .. NPAGE /\ s[NPAGE + 1 - g] = g
    BY NPAGEAssumption DEF Page
  <2>4. \A i \in 1 .. NPAGE : word[s[i]] = IF i = NPAGE THEN Null ELSE s[i + 1]
    BY <2>1, NPAGEAssumption DEF Init, Page, Null
  <2>5. \A i, j \in 1 .. NPAGE : s[i] = s[j] => i = j
    BY NPAGEAssumption
  <2>6. head = s[1]
    BY NPAGEAssumption DEF Init
  <2>7. \A g \in Page : \E i \in 1 .. NPAGE : s[i] = g
    BY <2>3
  <2>. HIDE DEF s
  <2>8. Chain(NPAGE, s)
    BY <2>2, <2>4, <2>5, <2>6, <2>7, NPAGEAssumption DEF Chain
  <2>. QED  BY <2>1, <2>8, NPAGEAssumption, ChainIsList
<1>. QED  BY <1>1, <1>2, <1>3 DEF AllocInv

-------------------------------------------------------------------------
\* Every step of the allocator and its callers preserves it.

LEMMA InvStep == ~ Overlap /\ AllocInv /\ [Next]_vars => AllocInv'
<1>. SUFFICES ASSUME ~ Overlap, AllocInv, [Next]_vars
              PROVE  AllocInv'
  OBVIOUS
<1>. USE DEF AllocInv, Freeing
<1>1. ASSUME NEW p \in Proc, KallocCall(p)
      PROVE  AllocInv'
  <2>1. TypeOK'
    BY <1>1, PageFacts DEF TypeOK, KallocCall, Enter, At, Goto
  <2>2. OneAtATime' /\ LocalsOK' /\ OnePage'
    BY <1>1, PageFacts DEF TypeOK, OneAtATime, Busy, LocalsOK, OnePage,
                           KallocCall, Enter, At, Goto
  <2>3. \A g \in Page : Taken(g)' <=> Taken(g)
    BY <1>1, PageFacts DEF TypeOK, OneAtATime, Busy, LocalsOK, Taken, Uses,
                           KallocCall, Enter, At, Goto
  <2>4. ListIsFreePages'
    BY <1>1, <2>3, SameList DEF KallocCall, Enter, At, Goto
  <2>. QED  BY <2>1, <2>2, <2>4
<1>2. ASSUME NEW p \in Proc, KallocRead(p)
      PROVE  AllocInv'
  <2>1. TypeOK'
    BY <1>2, PageFacts DEF TypeOK, KallocRead, At, Goto
  <2>2. OneAtATime' /\ LocalsOK' /\ OnePage'
    BY <1>2, PageFacts DEF TypeOK, OneAtATime, Busy, LocalsOK, OnePage,
                           KallocRead, At, Goto
  <2>3. \A g \in Page : Taken(g)' <=> Taken(g)
    BY <1>2, PageFacts DEF TypeOK, OneAtATime, Busy, LocalsOK, Taken, Uses,
                           KallocRead, At, Goto
  <2>4. ListIsFreePages'
    BY <1>2, <2>3, SameList DEF KallocRead, At, Goto
  <2>. QED  BY <2>1, <2>2, <2>4
<1>3. ASSUME NEW p \in Proc, KallocFails(p)
      PROVE  AllocInv'
  <2>1. TypeOK'
    BY <1>3, PageFacts DEF TypeOK, KallocFails, Leave, At, Goto
  <2>2. OneAtATime' /\ LocalsOK' /\ OnePage'
    BY <1>3, PageFacts DEF TypeOK, OneAtATime, Busy, LocalsOK, OnePage,
                           KallocFails, Leave, At, Goto
  <2>3. \A g \in Page : Taken(g)' <=> Taken(g)
    BY <1>3, PageFacts DEF TypeOK, OneAtATime, Busy, LocalsOK, Taken, Uses,
                           KallocFails, Leave, At, Goto
  <2>4. ListIsFreePages'
    BY <1>3, <2>3, SameList DEF KallocFails, Leave, At, Goto
  <2>. QED  BY <2>1, <2>2, <2>4
<1>4. ASSUME NEW p \in Proc, KallocUnlink(p)
      PROVE  AllocInv'
  <2>1. r[p] = head /\ head # Null /\ head' = word[head] /\ word' = word
    BY <1>4 DEF LocalsOK, KallocUnlink, At
  <2>2. \A g \in Page : Taken(g)' <=> Taken(g) \/ g = head
    BY <1>4, <2>1 DEF TypeOK, OneAtATime, Busy, Taken, Uses, KallocUnlink, At,
                      Goto
  <2>3. ListIsFreePages' /\ head \in Page /\ ~ Taken(head)
    BY <2>1, <2>2, UnlinkedList
  <2>4. TypeOK'
    BY <1>4, <2>1, <2>3, PageFacts DEF TypeOK, KallocUnlink, At, Goto
  <2>5. OneAtATime' /\ LocalsOK' /\ OnePage'
    BY <1>4, <2>1, <2>3 DEF TypeOK, OneAtATime, Busy, LocalsOK, OnePage,
                            Taken, Uses, KallocUnlink, At, Goto
  <2>. QED  BY <2>3, <2>4, <2>5
<1>5. ASSUME NEW p \in Proc, KallocZero(p)
      PROVE  AllocInv'
  <2>1. TypeOK'
    BY <1>5, PageFacts DEF TypeOK, LocalsOK, Null, KallocZero, Leave, At, Goto
  <2>2. OneAtATime' /\ LocalsOK' /\ OnePage'
    BY <1>5, PageFacts DEF TypeOK, OneAtATime, Busy, LocalsOK, OnePage,
                           KallocZero, Leave, At, Goto
  <2>3. \A g \in Page : Taken(g)' <=> Taken(g)
    BY <1>5, PageFacts DEF TypeOK, OneAtATime, Busy, LocalsOK, Taken, Uses,
                           KallocZero, Leave, At, Goto
  <2>4. ListIsFreePages'
    BY <1>5, <2>3, SameList DEF TypeOK, Taken, Uses, LocalsOK, KallocZero,
                                Leave, At, Goto
  <2>. QED  BY <2>1, <2>2, <2>4
<1>6. ASSUME NEW p \in Proc, KfreeCall(p)
      PROVE  AllocInv'
  <2>1. TypeOK'
    BY <1>6, PageFacts DEF TypeOK, KfreeCall, Enter, At, Goto
  <2>2. OneAtATime' /\ LocalsOK' /\ OnePage'
    BY <1>6, PageFacts DEF TypeOK, OneAtATime, Busy, LocalsOK, OnePage,
                           KfreeCall, Enter, At, Goto
  <2>3. \A g \in Page : Taken(g)' <=> Taken(g)
    BY <1>6, PageFacts DEF TypeOK, OneAtATime, Busy, LocalsOK, Taken, Uses,
                           KfreeCall, Enter, At, Goto
  <2>4. ListIsFreePages'
    BY <1>6, <2>3, SameList DEF TypeOK, Taken, Uses, LocalsOK, KfreeCall,
                                Enter, At, Goto
  <2>. QED  BY <2>1, <2>2, <2>4
<1>7. ASSUME NEW p \in Proc, KfreeLink(p)
      PROVE  AllocInv'
  <2>1. TypeOK'
    BY <1>7, PageFacts DEF TypeOK, KfreeLink, At, Goto
  <2>2. OneAtATime' /\ LocalsOK' /\ OnePage'
    BY <1>7, PageFacts DEF TypeOK, OneAtATime, Busy, LocalsOK, OnePage,
                           KfreeLink, At, Goto
  <2>3. \A g \in Page : Taken(g)' <=> Taken(g)
    BY <1>7, PageFacts DEF TypeOK, OneAtATime, Busy, LocalsOK, Taken, Uses,
                           KfreeLink, At, Goto
  <2>4. ListIsFreePages'
    BY <1>7, <2>3, SameList DEF TypeOK, Taken, Uses, LocalsOK, KfreeLink, At,
                                Goto
  <2>. QED  BY <2>1, <2>2, <2>4
<1>8. ASSUME NEW p \in Proc, KfreePush(p)
      PROVE  AllocInv'
  <2>1. TypeOK'
    BY <1>8, PageFacts DEF TypeOK, KfreePush, Leave, At, Goto
  <2>2. OneAtATime' /\ LocalsOK' /\ OnePage'
    BY <1>8, PageFacts DEF TypeOK, OneAtATime, Busy, LocalsOK, OnePage,
                           KfreePush, Leave, At, Goto
  <2>3. \A g \in Page : Taken(g)' <=> Taken(g) /\ g # r[p]
    BY <1>8, PageFacts DEF TypeOK, OneAtATime, Busy, LocalsOK, Taken, Uses,
                           KfreePush, Leave, At, Goto
  <2>4. ListIsFreePages'
    BY <1>8, <2>3, PushedList DEF LocalsOK, Taken, Uses, KfreePush, Leave,
                                  At, Goto
  <2>. QED  BY <2>1, <2>2, <2>4
<1>9. ASSUME NEW p \in Proc, Write(p)
      PROVE  AllocInv'
  <2>1. TypeOK'
    BY <1>9, PageFacts DEF TypeOK, Write, At
  <2>2. OneAtATime' /\ LocalsOK' /\ OnePage'
    <3>1. \A q \in Proc : pc[q] = "unlink" => head \in Page /\ head \notin held[p]
      BY HeadIsFree DEF LocalsOK, Taken, Uses
    <3>. QED
      BY <1>9, <3>1, PageFacts DEF TypeOK, OneAtATime, Busy, LocalsOK, OnePage,
                                   Write, At
  <2>3. \A g \in Page : Taken(g)' <=> Taken(g)
    BY <1>9, PageFacts DEF TypeOK, OneAtATime, Busy, LocalsOK, Taken, Uses,
                           Write, At
  <2>4. ListIsFreePages'
    BY <1>9, <2>3, SameList DEF TypeOK, Taken, Uses, Write, At
  <2>. QED  BY <2>1, <2>2, <2>4
<1>10. ASSUME NEW p \in Proc, NEW q \in Proc, Move(p, q)
      PROVE  AllocInv'
  <2>1. TypeOK'
    BY <1>10, PageFacts DEF TypeOK, Move, At
  <2>2. OneAtATime' /\ LocalsOK' /\ OnePage'
    BY <1>10, PageFacts DEF TypeOK, OneAtATime, Busy, LocalsOK, OnePage,
                            Move, At
  <2>3. \A g \in Page : Taken(g)' <=> Taken(g)
    BY <1>10, PageFacts DEF TypeOK, OneAtATime, Busy, LocalsOK, Taken, Uses,
                            Move, At
  <2>4. ListIsFreePages'
    BY <1>10, <2>3, SameList DEF Move, At
  <2>. QED  BY <2>1, <2>2, <2>4
<1>11. CASE UNCHANGED vars
  <2>1. TypeOK' /\ OneAtATime' /\ LocalsOK' /\ OnePage'
    BY <1>11 DEF vars, TypeOK, OneAtATime, Busy, LocalsOK, OnePage
  <2>2. ListIsFreePages'
    BY <1>11, SameList DEF vars, Taken, Uses
  <2>. QED  BY <2>1, <2>2
<1>12. ASSUME NEW p \in Proc, KallocNext(p)
      PROVE  AllocInv'
  <2>1. TypeOK'
    <3>1. r[p] \in Page
      BY <1>12, HeadIsFree DEF LocalsOK, KallocNext, At
    <3>. QED  BY <1>12, <3>1, PageFacts DEF TypeOK, KallocNext, At, Goto
  <2>2. OneAtATime' /\ LocalsOK' /\ OnePage'
    BY <1>12, PageFacts DEF TypeOK, OneAtATime, Busy, LocalsOK, OnePage,
                           KallocNext, At, Goto
  <2>3. \A g \in Page : Taken(g)' <=> Taken(g)
    BY <1>12, PageFacts DEF TypeOK, OneAtATime, Busy, LocalsOK, Taken, Uses,
                           KallocNext, At, Goto
  <2>4. ListIsFreePages'
    BY <1>12, <2>3, SameList DEF KallocNext, At, Goto
  <2>. QED  BY <2>1, <2>2, <2>4
<1>13. ASSUME NEW p \in Proc, KfreeHead(p)
      PROVE  AllocInv'
  <2>1. TypeOK'
    BY <1>13, PageFacts DEF TypeOK, KfreeHead, At, Goto
  <2>2. OneAtATime' /\ LocalsOK' /\ OnePage'
    BY <1>13, PageFacts DEF TypeOK, OneAtATime, Busy, LocalsOK, OnePage,
                           KfreeHead, At, Goto
  <2>3. \A g \in Page : Taken(g)' <=> Taken(g)
    BY <1>13, PageFacts DEF TypeOK, OneAtATime, Busy, LocalsOK, Taken, Uses,
                           KfreeHead, At, Goto
  <2>4. ListIsFreePages'
    BY <1>13, <2>3, SameList DEF KfreeHead, At, Goto
  <2>. QED  BY <2>1, <2>2, <2>4
<1>. QED  BY <1>1, <1>2, <1>3, <1>4, <1>5, <1>6, <1>7, <1>8, <1>9, <1>10,
             <1>11, <1>12, <1>13 DEF Next

-------------------------------------------------------------------------
\* The theorems.  Their assumption is that of the run KAlloc_serial: no
\* process enters the allocator while another one is inside.

\* The free list is exactly the free pages.
THEOREM AllocInvariant ==
  ASSUME ~ Overlap
  PROVE  Spec => []AllocInv
<1>1. AllocInv /\ [Next]_vars => AllocInv'
  BY InvStep
<1>. QED  BY <1>1, InvInit, PTL DEF Spec

\* The state of the allocator is type-correct.
THEOREM TypeCorrect ==
  ASSUME ~ Overlap
  PROVE  Spec => []TypeOK
<1>1. AllocInv => TypeOK
  BY DEF AllocInv
<1>. QED  BY <1>1, AllocInvariant, PTL

\* free_mem_list heads a list that holds every page nobody uses, once, and
\* no other: no sequence of allocations and frees loses a page.
THEOREM FreeListIsExact ==
  ASSUME ~ Overlap
  PROVE  Spec => []ListIsFreePages
<1>1. AllocInv => ListIsFreePages
  BY DEF AllocInv
<1>. QED  BY <1>1, AllocInvariant, PTL

\* kalloc never returns a page that somebody uses.
THEOREM PagesHaveOneOwner ==
  ASSUME ~ Overlap
  PROVE  Spec => []OneOwner
<1>1. AllocInv => OneOwner
  BY DEF AllocInv, OneAtATime, Busy, LocalsOK, OnePage, OneOwner, Uses, Freeing
<1>. QED  BY <1>1, AllocInvariant, PTL

-------------------------------------------------------------------------
\* The refinement.

\* Every step is a step of the pool or leaves it alone.
LEMMA RefineStep ==
  ~ Overlap /\ AllocInv /\ [Next]_vars => [Abs!AbsNext]_(Abs!AbsVars)
<1>. SUFFICES ASSUME ~ Overlap, AllocInv, [Next]_vars
              PROVE  [Abs!AbsNext]_(Abs!AbsVars)
  OBVIOUS
<1>. USE DEF AllocInv, Freeing, Abs!AbsNext, Abs!AbsVars
<1>. DEFINE owned == [p \in Proc |-> Uses(p)]
<1>1. ASSUME Pool' = Pool, owned' = owned, got' = got
      PROVE  UNCHANGED Abs!AbsVars
  BY <1>1
<1>2. ASSUME NEW p \in Proc,
             \/ KallocCall(p) \/ KallocRead(p) \/ KallocNext(p)
             \/ KallocUnlink(p) \/ KfreeCall(p) \/ KfreeHead(p)
             \/ KfreeLink(p) \/ Write(p)
      PROVE  [Abs!AbsNext]_(Abs!AbsVars)
  <2>1. \A q \in Proc : Uses(q)' = Uses(q)
    BY <1>2 DEF TypeOK, Uses, KallocCall, KallocRead, KallocNext, KallocUnlink,
                KfreeCall, KfreeHead, KfreeLink, Write, Enter, At, Goto
  <2>2. got' = got
    BY <1>2 DEF KallocCall, KallocRead, KallocNext, KallocUnlink, KfreeCall,
                KfreeHead, KfreeLink, Write
  <2>. QED  BY <2>1, <2>2, <1>1 DEF Pool
<1>3. ASSUME NEW p \in Proc, KallocFails(p)
      PROVE  Abs!AllocFails(p)
  <2>1. \A q \in Proc : Uses(q)' = Uses(q)
    BY <1>3 DEF TypeOK, Uses, KallocFails, Leave, At, Goto
  <2>2. head = Null
    BY <1>3 DEF LocalsOK, KallocFails, At
  <2>3. \A g \in Page : Taken(g)
    <3>1. PICK n \in Nat : n <= NPAGE /\ \E s \in [1 .. n -> Page] : Chain(n, s)
      BY ChainIsList
    <3>2. PICK s \in [1 .. n -> Page] : Chain(n, s)
      BY <3>1
    <3>3. n = 0
      BY <2>2, <3>2, PageFacts DEF Chain
    <3>. QED  BY <3>2, <3>3 DEF Chain
  <2>4. Pool = {}
    BY <1>3, <2>3 DEF Pool, Taken, OneAtATime, Busy, KallocFails, At
  <2>. QED  BY <1>3, <2>1, <2>4 DEF Abs!AllocFails, Pool, KallocFails
<1>4. ASSUME NEW p \in Proc, KallocZero(p)
      PROVE  Abs!Alloc(p, r[p])
  <2>1. Uses(p)' = Uses(p) \cup {r[p]}
    BY <1>4 DEF TypeOK, Uses, KallocZero, Leave, At, Goto
  <2>2. \A q \in Proc : q # p => Uses(q)' = Uses(q)
    BY <1>4 DEF TypeOK, Uses, KallocZero, Leave, At, Goto
  <2>3. r[p] \in Page /\ \A q \in Proc : r[p] \notin Uses(q)
    BY <1>4 DEF OneAtATime, Busy, LocalsOK, Uses, KallocZero, At
  <2>4. r[p] \in Pool /\ Pool' = Pool \ {r[p]}
    BY <2>1, <2>2, <2>3 DEF Pool
  <2>5. owned' = [owned EXCEPT ![p] = @ \cup {r[p]}]
    BY <2>1, <2>2
  <2>. QED  BY <1>4, <2>4, <2>5 DEF Abs!Alloc, KallocZero
<1>5. ASSUME NEW p \in Proc, KfreePush(p)
      PROVE  Abs!Free(p, r[p])
  <2>1. r[p] \in Page /\ Uses(p) = held[p] \cup {r[p]} /\ Uses(p)' = held[p]
    BY <1>5 DEF TypeOK, LocalsOK, Uses, KfreePush, Leave, At, Goto
  <2>2. \A q \in Proc : q # p => Uses(q)' = Uses(q)
    BY <1>5 DEF TypeOK, Uses, KfreePush, Leave, At, Goto
  <2>3. \A q \in Proc : r[p] \notin held[q]
    BY <1>5 DEF LocalsOK, KfreePush, At
  <2>4. \A q \in Proc : q # p => r[p] \notin Uses(q)
    BY <1>5, <2>3 DEF OneAtATime, Busy, Uses, KfreePush, At
  <2>5. Uses(p)' = Uses(p) \ {r[p]}
    BY <2>1, <2>3
  <2>6. Pool' = Pool \cup {r[p]}
    BY <2>1, <2>2, <2>4, <2>5 DEF Pool
  <2>7. owned' = [owned EXCEPT ![p] = @ \ {r[p]}]
    BY <2>2, <2>5
  <2>. QED  BY <1>5, <2>1, <2>6, <2>7 DEF Abs!Free, KfreePush
<1>6. ASSUME NEW p \in Proc, NEW q \in Proc, Move(p, q)
      PROVE  \E g \in Page : Abs!Move(p, q, g)
  <2>1. PICK g \in held[p] : held' = [held EXCEPT ![p] = @ \ {g},
                                                  ![q] = @ \cup {g}]
    BY <1>6 DEF Move
  <2>3. p # q /\ Uses(p) = held[p] /\ Uses(q) = held[q]
    BY <1>6 DEF Uses, Move, At
  <2>4. /\ Uses(p)' = Uses(p) \ {g}
        /\ Uses(q)' = Uses(q) \cup {g}
        /\ \A x \in Proc \ {p, q} : Uses(x)' = Uses(x)
    BY <1>6, <2>1, <2>3 DEF TypeOK, Uses, Move, At
  <2>5. g \in Page /\ g \in Uses(p)
    BY <2>3 DEF TypeOK
  <2>6. Pool' = Pool
    BY <2>3, <2>4, <2>5 DEF Pool
  <2>7. owned' = [owned EXCEPT ![p] = @ \ {g}, ![q] = @ \cup {g}]
    BY <2>3, <2>4
  <2>8. got' = got
    BY <1>6 DEF Move
  <2>. QED  BY <2>3, <2>5, <2>6, <2>7, <2>8 DEF Abs!Move
<1>7. CASE UNCHANGED vars
  BY <1>7, <1>1 DEF vars, Pool, Uses
<1>8. \A p \in Proc : KallocZero(p) \/ KfreePush(p) => r[p] \in Page
  BY DEF LocalsOK, KallocZero, KfreePush, At
<1>. QED  BY <1>2, <1>3, <1>4, <1>5, <1>6, <1>7, <1>8 DEF Next

\* kalloc and kfree are a pool of pages: what kalloc returns was free, and it
\* fails only when nothing is.
THEOREM Refinement ==
  ASSUME ~ Overlap
  PROVE  Spec => ImplementsAbsPages
<1>1. Init => Abs!AbsInit
  BY DEF Init, Abs!AbsInit, Pool, Uses, Freeing
<1>2. AllocInv /\ [Next]_vars => [Abs!AbsNext]_(Abs!AbsVars)
  BY RefineStep
<1>3. Spec => []AllocInv
  BY AllocInvariant
<1>. QED  BY <1>1, <1>2, <1>3, PTL
             DEF Spec, ImplementsAbsPages, Abs!AbsSpec

=========================================================================
