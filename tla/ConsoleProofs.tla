-------------------------- MODULE ConsoleProofs -------------------------
(***************************************************************************)
(* Theorems about Console, for every size of the buffer, width of the      *)
(* indices and number of readers, and about printf, for every width of int *)
(* and long.                                                               *)
(***************************************************************************)
EXTENDS MCConsole, DataLemmas

-------------------------------------------------------------------------
(* Arithmetic of the indices.                                              *)

Inc(x) == (x + 1) % WordMod

LEMMA SubValue ==
  ASSUME NEW x \in Word, NEW y \in Word
  PROVE  Sub(x, y) = IF x >= y THEN x - y ELSE x - y + WordMod
<1>1. /\ WordMod \in Nat \ {0} /\ x - y \in Int
      /\ -WordMod <= x - y /\ x - y < WordMod
  BY WordAssumption, BufAssumption DEF Word
<1>2. /\ 0 <= x - y /\ x - y < WordMod => (x - y) % WordMod = x - y
      /\ -WordMod <= x - y /\ x - y < 0
           => (x - y) % WordMod = x - y + WordMod
  BY <1>1, ModFacts
<1>. QED  BY <1>1, <1>2 DEF Sub, Word

LEMMA IncValue ==
  ASSUME NEW x \in Word
  PROVE  Inc(x) = IF x + 1 < WordMod THEN x + 1 ELSE 0
<1>1. WordMod \in Nat \ {0} /\ x + 1 \in Int /\ 0 <= x + 1
      /\ x + 1 <= WordMod
  BY WordAssumption, BufAssumption DEF Word
<1>2. PICK a \in Int : a = x + 1
  BY <1>1
<1>3. a < WordMod => a % WordMod = a
  BY <1>1, <1>2, ModFacts
<1>4. a = WordMod => a % WordMod = 0
  BY <1>1, <1>2, ModFacts
<1>. QED  BY <1>1, <1>2, <1>3, <1>4 DEF Inc

\* The number of characters in the buffer, when either index moves on.
LEMMA IndexMoves ==
  ASSUME NEW x \in Word, NEW y \in Word
  PROVE  /\ Sub(x, y) \in Word /\ Inc(x) \in Word
         /\ Sub(x, y) = 0 <=> x = y
         /\ Sub(x, y) < BufSize => Sub(Inc(x), y) = Sub(x, y) + 1
         /\ x # y => Sub(x, Inc(y)) = Sub(x, y) - 1
<1>1. WordMod \in Nat /\ BufSize \in Nat \ {0} /\ WordMod > BufSize
  BY WordAssumption, BufAssumption
<1>2. Inc(x) \in Word /\ Inc(y) \in Word
  BY <1>1, IncValue DEF Word
<1>3. /\ Sub(x, y) = IF x >= y THEN x - y ELSE x - y + WordMod
      /\ Sub(Inc(x), y) = IF Inc(x) >= y THEN Inc(x) - y
                          ELSE Inc(x) - y + WordMod
      /\ Sub(x, Inc(y)) = IF x >= Inc(y) THEN x - Inc(y)
                          ELSE x - Inc(y) + WordMod
  BY <1>2, SubValue
<1>. QED  BY <1>1, <1>2, <1>3, IncValue DEF Word

\* A position in the buffer, counted from cons.r, does not depend on where
\* the index has wrapped around.
LEMMA WrapKeepsSlot ==
  ASSUME NEW x \in Nat, x < 2 * WordMod
  PROVE  (x % WordMod) % BufSize = x % BufSize
<1>1. /\ WordMod \in Nat \ {0} /\ BufSize \in Nat \ {0}
      /\ WordMod % BufSize = 0
  BY WordAssumption, BufAssumption
<1>. QED  BY <1>1, WrapKeepsCell

-------------------------------------------------------------------------
(* The unread characters as a sequence.                                    *)

\* The cell of the ith unread character when cons.r is b.
Cell(b, i) == ((b + i - 1) % WordMod) % BufSize

LEMMA CellValue ==
  ASSUME NEW b \in Word, NEW i \in 1 .. BufSize + 1
  PROVE  /\ Cell(b, i) = (b + i - 1) % BufSize
         /\ Cell(b, i) \in 0 .. BufSize - 1
<1>1. BufSize \in Nat \ {0} /\ WordMod \in Nat /\ WordMod > BufSize
  BY WordAssumption, BufAssumption
<1>2. PICK x \in Nat : x = b + i - 1
  BY <1>1 DEF Word
<1>3. x < 2 * WordMod
  BY <1>1, <1>2 DEF Word
<1>4. x % BufSize \in 0 .. BufSize - 1
  BY <1>1, ModFacts
<1>. QED  BY <1>2, <1>3, <1>4, WrapKeepsSlot DEF Cell

LEMMA CellsApart ==
  ASSUME NEW b \in Word, NEW i \in 1 .. BufSize, NEW j \in 1 .. BufSize,
         Cell(b, i) = Cell(b, j)
  PROVE  i = j
<1>1. BufSize \in Nat \ {0} /\ b \in Int
  BY WordAssumption, BufAssumption DEF Word
<1>2. i \in 1 .. BufSize + 1 /\ j \in 1 .. BufSize + 1
  BY <1>1
<1>3. PICK x \in Int, y \in Int : x = b + i - 1 /\ y = b + j - 1
  BY <1>1
<1>4. x % BufSize = y % BufSize
  BY <1>2, <1>3, CellValue
<1>5. x = y \/ x - y >= BufSize \/ y - x >= BufSize
  BY <1>1, <1>4, SameRemainder
<1>. QED  BY <1>1, <1>3, <1>5

\* The interrupt stores at the cell after the last unread character.
LEMMA NextCell ==
  ASSUME NEW b \in Word, NEW x \in Word, Sub(x, b) < BufSize
  PROVE  x % BufSize = Cell(b, Sub(x, b) + 1)
<1>1. /\ BufSize \in Nat \ {0} /\ b \in Int /\ x \in Int /\ WordMod \in Int
      /\ WordMod % BufSize = 0 /\ Word \subseteq Nat
  BY WordAssumption, BufAssumption DEF Word
<1>2. PICK n \in Nat : n = Sub(x, b)
  BY <1>1, IndexMoves
<1>3. Cell(b, n + 1) = (b + (n + 1) - 1) % BufSize /\ b + (n + 1) - 1 = b + n
  BY <1>1, <1>2, CellValue
<1>4. CASE x >= b
  <2>1. b + n = x
    BY <1>1, <1>2, <1>4, SubValue
  <2>. QED  BY <1>2, <1>3, <2>1
<1>5. CASE x < b
  <2>1. b + n = x + WordMod
    BY <1>1, <1>2, <1>5, SubValue
  <2>2. (x + WordMod) % BufSize = x % BufSize
    BY <1>1, AddMultiple
  <2>. QED  BY <1>2, <1>3, <2>1, <2>2
<1>. QED  BY <1>1, <1>4, <1>5

\* Advancing cons.r moves every character one place forward.
LEMMA CellShift ==
  ASSUME NEW b \in Word, NEW i \in 1 .. BufSize
  PROVE  Cell(Inc(b), i) = Cell(b, i + 1)
<1>1. /\ BufSize \in Nat \ {0} /\ b \in Int /\ WordMod \in Int
      /\ WordMod % BufSize = 0 /\ Inc(b) \in Word /\ Inc(b) \in Int
  BY WordAssumption, BufAssumption, IndexMoves DEF Word
<1>2. i \in 1 .. BufSize + 1 /\ i + 1 \in 1 .. BufSize + 1
  BY <1>1
<1>3. /\ Cell(Inc(b), i) = (Inc(b) + i - 1) % BufSize
      /\ Cell(b, i + 1) = (b + (i + 1) - 1) % BufSize
  BY <1>1, <1>2, CellValue
<1>4. CASE b + 1 < WordMod
  <2>1. Inc(b) + i - 1 = b + (i + 1) - 1
    BY <1>1, <1>4, IncValue
  <2>. QED  BY <1>3, <2>1
<1>5. CASE b + 1 >= WordMod
  <2>1. PICK y \in Int : y = i - 1
    BY <1>1
  <2>2. Inc(b) + i - 1 = y
    BY <1>1, <1>5, <2>1, IncValue
  <2>3. b + (i + 1) - 1 = y + WordMod
    BY <1>1, <1>5, <2>1 DEF Word
  <2>4. (y + WordMod) % BufSize = y % BufSize
    BY <1>1, AddMultiple
  <2>. QED  BY <1>3, <2>2, <2>3, <2>4
<1>. QED  BY <1>1, <1>4, <1>5

-------------------------------------------------------------------------
(* The invariant holds initially and every step preserves it.              *)

\* Every unread character was stored by the interrupt.
CellsStored == \A i \in 1 .. Sub(w, r) : buf[Cell(r, i)] \in Char

\* The inductive invariant.
RingInv == TypeOK /\ IndicesAgree /\ CellsStored

LEMMA InvInit == Init => RingInv
<1>. SUFFICES ASSUME Init
              PROVE  RingInv
  OBVIOUS
<1>1. 0 \in Word /\ 0 \in 0 .. ReadMax
  BY WordAssumption, BufAssumption, ReadAssumption DEF Word
<1>2. <<>> \in Seq(Char) /\ Len(<<>>) = 0
  BY EmptySeq
<1>3. Sub(e, r) = 0 /\ Sub(w, r) = 0
  BY <1>1, IndexMoves DEF Init
<1>. QED
  BY <1>1, <1>2, <1>3, BufAssumption
     DEF Init, RingInv, TypeOK, IndicesAgree, CellsStored

LEMMA RingTypes ==
  ASSUME RingInv
  PROVE  /\ r \in Word /\ e \in Word /\ w = e /\ Word \subseteq Nat
         /\ Sub(e, r) \in Nat /\ Sub(e, r) <= BufSize
         /\ BufSize \in Nat \ {0} /\ ReadMax \in Nat \ {0}
         /\ \A p \in Proc : Len(line[p]) \in Nat
<1>1. r \in Word /\ e \in Word /\ Word \subseteq Nat
  BY WordAssumption DEF RingInv, TypeOK, Word
<1>2. Sub(e, r) \in Word
  BY <1>1, IndexMoves
<1>. QED
  BY <1>1, <1>2, BufAssumption, ReadAssumption, LenProperties
     DEF RingInv, IndicesAgree, TypeOK

\* What the interrupt does to the buffer.
LEMMA IntrEffect ==
  ASSUME RingInv, NEW c \in Typed, Intr(c)
  PROVE  /\ e' = Inc(e) /\ w' = e' /\ e' \in Word /\ UNCHANGED <<r, want, line>>
         /\ Cooked(c) \in Char
         /\ buf' \in [0 .. BufSize - 1 -> Char \cup {"nul"}]
         /\ Sub(e, r) < BufSize /\ Sub(e', r) = Sub(e, r) + 1
         /\ \A i \in 1 .. Sub(e, r) : buf'[Cell(r, i)] = buf[Cell(r, i)]
         /\ buf'[Cell(r, Sub(e, r) + 1)] = Cooked(c)
<1>. USE RingTypes
<1>1. /\ e' = Inc(e) /\ w' = e' /\ UNCHANGED <<r, want, line>>
      /\ Sub(e, r) < BufSize
      /\ buf' = [buf EXCEPT ![e % BufSize] = Cooked(c)]
  BY DEF Intr, Inc
<1>2. Cooked(c) \in Char
  BY DEF Cooked, Typed, Char
<1>3. Sub(e', r) = Sub(e, r) + 1 /\ e' \in Word
  BY <1>1, IndexMoves
<1>4. PICK n \in Nat : n = Sub(e, r)
  OBVIOUS
<1>5. e % BufSize = Cell(r, n + 1) /\ n + 1 \in 1 .. BufSize
  BY <1>1, <1>4, NextCell
<1>6. \A i \in 1 .. BufSize : Cell(r, i) \in 0 .. BufSize - 1
  BY CellValue
<1>7. buf \in [0 .. BufSize - 1 -> Char \cup {"nul"}]
  BY DEF RingInv, TypeOK
<1>8. buf' \in [0 .. BufSize - 1 -> Char \cup {"nul"}]
  BY <1>1, <1>2, <1>7
<1>9. ASSUME NEW i \in 1 .. n
      PROVE  buf'[Cell(r, i)] = buf[Cell(r, i)]
  <2>1. i \in 1 .. BufSize /\ i # n + 1
    BY <1>5
  <2>2. Cell(r, i) # Cell(r, n + 1)
    BY <1>5, <2>1, CellsApart
  <2>. QED  BY <1>1, <1>5, <1>6, <1>7, <2>1, <2>2
<1>10. buf'[Cell(r, n + 1)] = Cooked(c)
  BY <1>1, <1>5, <1>6, <1>7
<1>. QED  BY <1>1, <1>2, <1>3, <1>4, <1>8, <1>9, <1>10

\* What a reader does to it.
LEMMA ReadEffect ==
  ASSUME RingInv, NEW p \in Proc, ReadChar(p)
  PROVE  /\ r' = Inc(r) /\ r' \in Word /\ UNCHANGED <<w, e, buf, want>>
         /\ Sub(e, r) >= 1 /\ Sub(e, r') = Sub(e, r) - 1
         /\ buf[Cell(r, 1)] \in Char
         /\ line' = [line EXCEPT ![p] = Append(@, buf[Cell(r, 1)])]
         /\ \A i \in 1 .. Sub(e, r) - 1 : Cell(r', i) = Cell(r, i + 1)
<1>. USE RingTypes
<1>1. /\ r' = Inc(r) /\ UNCHANGED <<w, e, buf, want>> /\ r # e
      /\ line' = [line EXCEPT ![p] = Append(@, buf[r % BufSize])]
  BY DEF ReadChar, Inc
<1>2. Sub(e, r') = Sub(e, r) - 1 /\ r' \in Word
  BY <1>1, IndexMoves
<1>3. Sub(e, r) >= 1
  <2>1. (Sub(e, r) = 0) <=> (e = r)
    BY IndexMoves
  <2>. QED  BY <1>1, <2>1
<1>4. Cell(r, 1) = r % BufSize
  <2>1. Cell(r, 1) = (r + 1 - 1) % BufSize /\ r + 1 - 1 = r
    BY CellValue
  <2>. QED  BY <2>1
<1>5. buf[Cell(r, 1)] \in Char
  BY <1>3 DEF RingInv, CellsStored
<1>6. \A i \in 1 .. BufSize : Cell(Inc(r), i) = Cell(r, i + 1)
  BY CellShift
<1>7. \A i \in 1 .. Sub(e, r) - 1 : i \in 1 .. BufSize
  OBVIOUS
<1>8. \A i \in 1 .. Sub(e, r) - 1 : Cell(r', i) = Cell(r, i + 1)
  BY <1>1, <1>6, <1>7
<1>. QED  BY <1>1, <1>2, <1>3, <1>4, <1>5, <1>8

LEMMA InvStep == RingInv /\ [Next]_vars => RingInv'
<1>. SUFFICES ASSUME RingInv, [Next]_vars
              PROVE  RingInv'
  OBVIOUS
<1>. USE RingTypes
<1>1. ASSUME NEW c \in Typed, Intr(c)
      PROVE  RingInv'
  <2>1. TypeOK' /\ IndicesAgree'
    BY <1>1, IntrEffect DEF RingInv, TypeOK, IndicesAgree
  <2>2. CellsStored'
    BY <1>1, IntrEffect DEF RingInv, CellsStored
  <2>. QED  BY <2>1, <2>2 DEF RingInv
<1>2. ASSUME NEW p \in Proc, NEW len \in 0 .. ReadMax + 1, ReadCall(p, len)
      PROVE  RingInv'
  <2>1. want' \in [Proc -> 0 .. ReadMax] /\ \A q \in Proc : want'[q] >= want[q]
    BY <1>2 DEF ReadCall, RingInv, TypeOK
  <2>. QED
    BY <1>2, <2>1 DEF ReadCall, RingInv, TypeOK, IndicesAgree, CellsStored
<1>3. ASSUME NEW p \in Proc, ReadChar(p)
      PROVE  RingInv'
  <2>1. PICK ch \in Char : ch = buf[Cell(r, 1)]
    BY <1>3, ReadEffect
  <2>2. line[p] \in Seq(Char) /\ Len(line[p]) < want[p]
    BY <1>3 DEF ReadChar, Polling, RingInv, TypeOK
  <2>3. PICK t : t = Append(line[p], ch)
    OBVIOUS
  <2>4. t \in Seq(Char) /\ Len(t) = Len(line[p]) + 1
    BY <2>1, <2>2, <2>3, AppendProperties
  <2>5. line' = [line EXCEPT ![p] = t]
    BY <1>3, <2>1, <2>3, ReadEffect DEF RingInv, TypeOK
  <2>6. \A q \in Proc : want[q] \in Int
    BY DEF RingInv, TypeOK
  <2>7. TypeOK'
    <3>1. line' \in [Proc -> Seq(Char)]
      BY <2>4, <2>5 DEF RingInv, TypeOK
    <3>2. \A q \in Proc : Len(line'[q]) <= want[q]
      BY <2>2, <2>4, <2>5, <2>6 DEF RingInv, TypeOK
    <3>. QED  BY <1>3, <3>1, <3>2, ReadEffect DEF RingInv, TypeOK
  <2>8. IndicesAgree'
    BY <1>3, ReadEffect DEF RingInv, IndicesAgree
  <2>9. CellsStored'
    BY <1>3, ReadEffect DEF RingInv, CellsStored
  <2>. QED  BY <2>7, <2>8, <2>9 DEF RingInv
<1>4. ASSUME NEW p \in Proc, ReadReturn(p)
      PROVE  RingInv'
  <2>1. <<>> \in Seq(Char) /\ Len(<<>>) = 0
    BY EmptySeq
  <2>. QED
    BY <1>4, <2>1 DEF ReadReturn, RingInv, TypeOK, IndicesAgree, CellsStored
<1>5. CASE UNCHANGED vars
  BY <1>5 DEF vars, RingInv, TypeOK, IndicesAgree, CellsStored
<1>. QED  BY <1>1, <1>2, <1>3, <1>4, <1>5 DEF Next

\* The state of console input is type-correct: indices stay words, a local
\* buffer never holds more than the read asked for (console_read).
THEOREM TypeCorrect == Spec => []TypeOK
<1>1. RingInv => TypeOK
  BY DEF RingInv
<1>. QED  BY <1>1, InvInit, InvStep, PTL DEF Spec

\* The interrupt never laps the readers, for every size of the buffer, width
\* of the indices and number of readers (console_intr, console_read).
THEOREM IndicesStayTogether == Spec => []IndicesAgree
<1>1. RingInv => IndicesAgree
  BY DEF RingInv
<1>. QED  BY <1>1, InvInit, InvStep, PTL DEF Spec

-------------------------------------------------------------------------
(* The ring buffer implements the queue of AbsConsole.                     *)

QueueHolds ==
  /\ Queue \in Seq(Char) /\ Len(Queue) = Sub(e, r)
  /\ \A i \in 1 .. Sub(e, r) : Queue[i] = buf[Cell(r, i)]

LEMMA QueueValue == RingInv => QueueHolds
<1>. SUFFICES ASSUME RingInv
              PROVE  QueueHolds
  OBVIOUS
<1>1. Queue = [i \in 1 .. Sub(e, r) |-> buf[Cell(r, i)]] /\ Sub(e, r) \in Nat
  BY RingTypes DEF Queue, Cell
<1>2. Queue \in [1 .. Sub(e, r) -> Char]
  BY <1>1, RingTypes DEF RingInv, CellsStored
<1>. QED  BY <1>1, <1>2, FunctionIsSeq DEF QueueHolds

LEMMA NextQueueValue == RingInv' => QueueHolds'
BY QueueValue, PTL

LEMMA IntrAppends ==
  ASSUME RingInv, RingInv', NEW c \in Typed, Intr(c)
  PROVE  Abs!Arrive(Cooked(c)) /\ Cooked(c) \in Char
<1>1. /\ Queue \in Seq(Char) /\ Len(Queue) = Sub(e, r) /\ Len(Queue) \in Nat
      /\ \A i \in 1 .. Sub(e, r) : Queue[i] = buf[Cell(r, i)]
  BY QueueValue, RingTypes DEF QueueHolds
<1>2. /\ Queue' \in Seq(Char) /\ Len(Queue') = Sub(e', r')
      /\ \A i \in 1 .. Sub(e', r') : Queue'[i] = buf'[Cell(r', i)]
  BY NextQueueValue DEF QueueHolds, Sub, Cell
<1>3. Cooked(c) \in Char
  BY IntrEffect
<1>4. PICK t : t = Append(Queue, Cooked(c))
  OBVIOUS
<1>5. /\ t \in Seq(Char) /\ Len(t) = Len(Queue) + 1
      /\ t[Len(Queue) + 1] = Cooked(c)
      /\ \A i \in 1 .. Len(Queue) : t[i] = Queue[i]
  BY <1>1, <1>3, <1>4, AppendProperties
<1>6. Len(Queue') = Len(Queue) + 1
  BY <1>1, <1>2, IntrEffect
<1>7. \A i \in 1 .. Len(Queue') : Queue'[i] = t[i]
  <2>1. ASSUME NEW i \in 1 .. Len(Queue)
        PROVE  Queue'[i] = t[i]
    BY <1>1, <1>2, <1>5, <1>6, <2>1, IntrEffect
  <2>2. Queue'[Len(Queue) + 1] = t[Len(Queue) + 1]
    BY <1>1, <1>2, <1>5, <1>6, IntrEffect
  <2>3. \A i \in 1 .. Len(Queue') : i \in 1 .. Len(Queue) \/ i = Len(Queue) + 1
    BY <1>1, <1>6
  <2>. QED  BY <2>1, <2>2, <2>3
<1>8. Queue' = t
  BY <1>2, <1>5, <1>6, <1>7, SeqEqual
<1>. QED  BY <1>1, <1>3, <1>4, <1>8, IntrEffect DEF Abs!Arrive

LEMMA CharTakesHead ==
  ASSUME RingInv, RingInv', NEW p \in Proc, ReadChar(p)
  PROVE  Abs!Deliver(p)
<1>1. /\ Queue \in Seq(Char) /\ Len(Queue) = Sub(e, r) /\ Len(Queue) \in Nat
      /\ \A i \in 1 .. Sub(e, r) : Queue[i] = buf[Cell(r, i)]
  BY QueueValue, RingTypes DEF QueueHolds
<1>2. /\ Queue' \in Seq(Char) /\ Len(Queue') = Sub(e', r')
      /\ \A i \in 1 .. Sub(e', r') : Queue'[i] = buf'[Cell(r', i)]
  BY NextQueueValue DEF QueueHolds, Sub, Cell
<1>3. Len(Queue) >= 1 /\ Queue # <<>>
  BY <1>1, ReadEffect, EmptySeq
<1>4. Head(Queue) = buf[Cell(r, 1)]
  BY <1>1, <1>3
<1>5. PICK t : t = Tail(Queue)
  OBVIOUS
<1>6. /\ t \in Seq(Char) /\ Len(t) = Len(Queue) - 1
      /\ \A i \in 1 .. Len(t) : t[i] = Queue[i + 1]
  BY <1>1, <1>3, <1>5, HeadTailProperties
<1>7. Len(Queue') = Len(Queue) - 1
  BY <1>1, <1>2, ReadEffect
<1>8. ASSUME NEW i \in 1 .. Len(Queue')
      PROVE  Queue'[i] = t[i]
  <2>1. i \in 1 .. Sub(e, r) - 1 /\ i + 1 \in 1 .. Sub(e, r) /\ i \in 1 .. Len(t)
    BY <1>1, <1>6, <1>7
  <2>2. Queue'[i] = buf[Cell(r', i)]
    BY <1>2, ReadEffect
  <2>3. Cell(r', i) = Cell(r, i + 1)
    BY <2>1, ReadEffect
  <2>. QED  BY <1>1, <1>6, <2>1, <2>2, <2>3
<1>9. Queue' = t
  BY <1>2, <1>6, <1>7, <1>8, SeqEqual
<1>10. want[p] > 0 /\ ~ Abs!Complete(p)
  BY RingTypes DEF ReadChar, Polling, RingInv, TypeOK, Abs!Complete
<1>11. line' = [line EXCEPT ![p] = Append(@, Head(Queue))] /\ UNCHANGED want
  BY <1>4, ReadEffect
<1>. QED  BY <1>3, <1>5, <1>9, <1>10, <1>11 DEF Abs!Deliver

\* The ring buffer is a queue of characters: each goes to one reader, in the
\* order of typing, for every size of the buffer, width of the indices and
\* number of readers.
THEOREM Refinement == Spec => ImplementsAbsConsole
<1>1. Init => Abs!AbsInit
  <2>1. SUFFICES ASSUME Init
                 PROVE  Queue = <<>>
    BY DEF Init, Abs!AbsInit
  <2>2. RingInv
    BY <2>1, InvInit
  <2>3. Sub(e, r) = 0
    BY <2>1, <2>2, RingTypes, IndexMoves DEF Init
  <2>. QED  BY <2>2, <2>3, QueueValue, EmptySeq DEF QueueHolds
<1>2. RingInv /\ RingInv' /\ [Next]_vars => [Abs!AbsNext]_(Abs!AbsVars)
  <2>. SUFFICES ASSUME RingInv, RingInv', [Next]_vars
                PROVE  [Abs!AbsNext]_(Abs!AbsVars)
    OBVIOUS
  <2>1. ASSUME NEW c \in Typed, Intr(c)
        PROVE  Abs!AbsNext
    BY <2>1, IntrAppends DEF Abs!AbsNext
  <2>2. ASSUME NEW p \in Proc, NEW len \in 0 .. ReadMax + 1, ReadCall(p, len)
        PROVE  Abs!AbsNext
    <3>1. PICK n \in 1 .. ReadMax : n = IF len > ReadMax THEN ReadMax ELSE len
      BY <2>2, RingTypes DEF ReadCall
    <3>2. UNCHANGED Queue
      BY <2>2 DEF ReadCall, Queue
    <3>3. Abs!Begin(p, n)
      BY <2>2, <3>1, <3>2 DEF ReadCall, Abs!Begin
    <3>. QED  BY <3>3 DEF Abs!AbsNext
  <2>3. ASSUME NEW p \in Proc, ReadChar(p)
        PROVE  Abs!AbsNext
    BY <2>3, CharTakesHead DEF Abs!AbsNext
  <2>4. ASSUME NEW p \in Proc, ReadReturn(p)
        PROVE  Abs!AbsNext
    <3>1. UNCHANGED Queue
      BY <2>4 DEF ReadReturn, Queue
    <3>2. Abs!Complete(p)
      BY <2>4, RingTypes DEF ReadReturn, Polling, RingInv, TypeOK, Abs!Complete
    <3>. QED  BY <2>4, <3>1, <3>2 DEF ReadReturn, Abs!Return, Abs!AbsNext
  <2>5. CASE UNCHANGED vars
    BY <2>5 DEF vars, Queue, Abs!AbsVars
  <2>. QED  BY <2>1, <2>2, <2>3, <2>4, <2>5 DEF Next
<1>. QED
  BY <1>1, <1>2, InvInit, InvStep, PTL DEF Spec, ImplementsAbsConsole, Abs!AbsSpec

-------------------------------------------------------------------------
(* The digits of a number: how many there are, what LowFirst makes of      *)
(* them, and the numeral that printint prints.                             *)

\* n is the number of digits of x.
HasDigits(x, base, n) ==
  x < Power(base, n) /\ (n > 1 => x >= Power(base, n - 1))

LEMMA DigitsUnique ==
  ASSUME NEW b \in Nat, b >= 2, NEW x \in Nat,
         NEW n \in Nat \ {0}, NEW k \in Nat \ {0},
         HasDigits(x, b, n), HasDigits(x, b, k)
  PROVE  n = k
<1>1. ASSUME NEW i \in Nat \ {0}, NEW j \in Nat \ {0}, i < j,
             HasDigits(x, b, i), HasDigits(x, b, j)
      PROVE  FALSE
  <2>1. j - 1 \in Nat /\ i <= j - 1 /\ j > 1
    BY <1>1
  <2>2. /\ Power(b, i) <= Power(b, j - 1)
        /\ Power(b, i) \in Nat /\ Power(b, j - 1) \in Nat
    BY <2>1, PowerGrows, PowerIsNat
  <2>3. x < Power(b, i) /\ x >= Power(b, j - 1)
    BY <1>1, <2>1 DEF HasDigits
  <2>. QED  BY <2>2, <2>3
<1>. QED  BY <1>1

\* A number has one digit, or one more than what is left of it.
LEMMA DigitsStep ==
  ASSUME NEW b \in Nat, b >= 2, NEW x \in Nat
  PROVE  /\ x \div b \in Nat
         /\ x \div b = 0 => HasDigits(x, b, 1)
         /\ x \div b # 0 => x \div b < x
         /\ \A n \in Nat \ {0} :
              x \div b # 0 /\ HasDigits(x \div b, b, n) => HasDigits(x, b, n + 1)
<1>1. PICK q \in Int, t \in 0 .. b - 1 : q = x \div b /\ x = b * q + t
  BY DivMod
<1>2. b * q \in Int /\ (q >= 1 => b * q >= b) /\ (q <= -1 => b * q <= -b)
  BY Multiples
<1>3. q \in Nat
  BY <1>1, <1>2
<1>4. Power(b, 0) = 1 /\ Power(b, 1) = b
  <2>1. Power(b, 0) = 1 /\ Power(b, 0 + 1) = b * Power(b, 0)
    BY PowerIsNat
  <2>. QED  BY <2>1
<1>5. ASSUME q = 0
      PROVE  HasDigits(x, b, 1)
  BY <1>1, <1>4, <1>5 DEF HasDigits
<1>6. ASSUME q # 0
      PROVE  q < x
  <2>1. PICK c \in Nat : b = c + 2
    <3>1. b - 2 \in Nat /\ b = (b - 2) + 2
      OBVIOUS
    <3>. QED  BY <3>1
  <2>2. (c + 2) * q = c * q + 2 * q /\ c * q \in Nat
    BY <1>3
  <2>3. b * q >= 2 * q
    BY <2>1, <2>2
  <2>. QED  BY <1>1, <1>2, <1>3, <1>6, <2>3
<1>7. ASSUME NEW n \in Nat \ {0}, q # 0, HasDigits(q, b, n)
      PROVE  HasDigits(x, b, n + 1)
  <2>1. PICK p \in Nat : p = Power(b, n) /\ Power(b, n + 1) = b * p
    BY PowerIsNat
  <2>2. q + 1 <= p
    BY <1>3, <1>7, <2>1 DEF HasDigits
  <2>3. b * (p - (q + 1)) = b * p - b * q - b /\ b * p \in Nat
    OBVIOUS
  <2>4. b * (p - (q + 1)) >= 0
    <3>1. p - (q + 1) \in Nat
      BY <1>3, <2>2
    <3>. QED  BY <3>1
  <2>5. x < b * p
    BY <1>1, <1>2, <2>3, <2>4
  <2>6. CASE n = 1
    <3>1. b * q >= b
      BY <1>2, <1>3, <1>7
    <3>2. x >= b
      BY <1>1, <1>2, <3>1
    <3>. QED  BY <1>4, <2>1, <2>5, <2>6, <3>2 DEF HasDigits
  <2>7. CASE n > 1
    <3>1. n - 1 \in Nat /\ (n - 1) + 1 = n
      BY <2>7
    <3>2. PICK o \in Nat : o = Power(b, n - 1) /\ p = b * o
      <4>1. Power(b, n - 1) \in Nat /\ Power(b, (n - 1) + 1) = b * Power(b, n - 1)
        BY <3>1, PowerIsNat
      <4>. QED  BY <2>1, <3>1, <4>1
    <3>3. q >= o
      BY <1>7, <2>7, <3>2 DEF HasDigits
    <3>4. b * (q - o) = b * q - b * o /\ b * (q - o) >= 0
      <4>1. q - o \in Nat
        BY <1>3, <3>3
      <4>2. b * (q - o) >= 0
        BY <4>1
      <4>. QED  BY <4>2
    <3>5. x >= p
      BY <1>1, <1>2, <3>2, <3>4
    <3>. QED  BY <2>1, <2>5, <3>5 DEF HasDigits
  <2>. QED  BY <2>6, <2>7
<1>. QED  BY <1>1, <1>3, <1>5, <1>6, <1>7

LEMMA DigitsExist ==
  ASSUME NEW b \in Nat, b >= 2, NEW x \in Nat
  PROVE  \E n \in Nat \ {0} : HasDigits(x, b, n) /\ n <= x + 1
<1>. DEFINE R == {y \in Nat : \E n \in Nat \ {0} : HasDigits(y, b, n) /\ n <= y + 1}
<1>1. ASSUME NEW y \in Nat, \A i \in 0 .. y - 1 : i \in R
      PROVE  y \in R
  <2>1. CASE y \div b = 0
    BY <2>1, DigitsStep
  <2>2. CASE y \div b # 0
    <3>1. y \div b \in Nat /\ y \div b < y
      BY <2>2, DigitsStep
    <3>2. y \div b \in R
      BY <1>1, <3>1
    <3>3. PICK n \in Nat \ {0} : HasDigits(y \div b, b, n) /\ n <= y \div b + 1
      BY <3>2
    <3>4. HasDigits(y, b, n + 1)
      BY <2>2, <3>3, DigitsStep
    <3>5. n + 1 \in Nat \ {0} /\ n + 1 <= y + 1
      BY <3>1, <3>3
    <3>. QED  BY <3>4, <3>5
  <2>. QED  BY <2>1, <2>2
<1>. HIDE DEF R
<1>2. Nat \subseteq R
  BY <1>1, StrongInduction
<1>. QED  BY <1>2 DEF R

NDigits(x, b) == CHOOSE n \in Nat \ {0} : HasDigits(x, b, n)

LEMMA NDigitsIs ==
  ASSUME NEW b \in Nat, b >= 2, NEW x \in Nat
  PROVE  /\ NDigits(x, b) \in Nat \ {0}
         /\ HasDigits(x, b, NDigits(x, b))
         /\ x \div b = 0 => NDigits(x, b) = 1
         /\ x \div b # 0 => NDigits(x, b) = NDigits(x \div b, b) + 1
<1>1. \A y \in Nat : NDigits(y, b) \in Nat \ {0} /\ HasDigits(y, b, NDigits(y, b))
  BY DigitsExist DEF NDigits
<1>2. CASE x \div b = 0
  <2>1. HasDigits(x, b, 1) /\ 1 \in Nat \ {0}
    BY <1>2, DigitsStep
  <2>. QED  BY <1>1, <1>2, <2>1, DigitsUnique
<1>3. CASE x \div b # 0
  <2>1. PICK n \in Nat \ {0} : n = NDigits(x \div b, b) /\ HasDigits(x \div b, b, n)
    BY <1>1, DigitsStep
  <2>2. HasDigits(x, b, n + 1) /\ n + 1 \in Nat \ {0}
    BY <1>3, <2>1, DigitsStep
  <2>3. NDigits(x, b) = n + 1
    BY <1>1, <2>2, DigitsUnique
  <2>. QED  BY <1>1, <1>3, <2>1, <2>3
<1>. QED  BY <1>2, <1>3

\* The digits of x, the lowest first.
Digit(x, b, i)  == digits[((x \div Power(b, i)) % b) + 1]
LowDigits(x, b) == [i \in 1 .. NDigits(x, b) |-> Digit(x, b, i - 1)]

LEMMA LowDigitsStep ==
  ASSUME NEW b \in Nat, b >= 2, NEW x \in Nat
  PROVE  LowDigits(x, b) = <<digits[(x % b) + 1]>> \o
                             (IF x \div b = 0 THEN <<>> ELSE LowDigits(x \div b, b))
<1>. PICK q \in Nat : q = x \div b
  BY DigitsStep
<1>. DEFINE D == {Digit(y, b, i) : y \in Nat, i \in Nat}
<1>d. \A y \in Nat : \A i \in Nat : Digit(y, b, i) \in D
  OBVIOUS
<1>. HIDE DEF D
<1>0. /\ Power(b, 0) = 1
      /\ \A i \in Nat : Power(b, i) \in Nat \ {0} /\ Power(b, i + 1) = b * Power(b, i)
  <2>1. ASSUME NEW i \in Nat
        PROVE  Power(b, i) \in Nat \ {0} /\ Power(b, i + 1) = b * Power(b, i)
    <3>1. Power(b, i) \in Nat /\ Power(b, i + 1) = b * Power(b, i)
      BY PowerIsNat
    <3>2. Power(b, i) >= i + 1
      BY PowerGrows
    <3>. QED  BY <3>1, <3>2
  <2>. QED  BY <2>1, PowerIsNat
<1>1. \A y \in Nat : /\ LowDigits(y, b) \in Seq(D)
                     /\ Len(LowDigits(y, b)) = NDigits(y, b)
  <2>. TAKE y \in Nat
  <2>1. NDigits(y, b) \in Nat
    BY NDigitsIs
  <2>2. LowDigits(y, b) \in [1 .. NDigits(y, b) -> D]
    BY <1>d, <2>1 DEF LowDigits
  <2>. QED  BY <2>1, <2>2, FunctionIsSeq
<1>2. digits[(x % b) + 1] = Digit(x, b, 0)
  <2>1. x \div 1 = x
    OBVIOUS
  <2>. QED  BY <1>0, <2>1 DEF Digit
<1>. PICK c, u : /\ c = digits[(x % b) + 1]
                 /\ u = IF q = 0 THEN <<>> ELSE LowDigits(q, b)
  OBVIOUS
<1>3. c \in D /\ <<c>> \in Seq(D) /\ Len(<<c>>) = 1 /\ <<c>>[1] = c
  BY <1>2, <1>d
<1>4. u \in Seq(D) /\ Len(u) = NDigits(x, b) - 1
  <2>1. CASE q = 0
    <3>1. u = <<>> /\ NDigits(x, b) = 1
      BY <2>1, NDigitsIs
    <3>2. <<>> \in Seq(D) /\ Len(<<>>) = 0
      BY EmptySeq
    <3>3. u \in Seq(D) /\ Len(u) = 0
      BY <3>1, <3>2
    <3>4. NDigits(x, b) - 1 = 0
      BY <3>1
    <3>. QED  BY <3>3, <3>4
  <2>2. CASE q # 0
    <3>1. u = LowDigits(q, b) /\ NDigits(x, b) = NDigits(q, b) + 1
      BY <2>2, NDigitsIs
    <3>2. NDigits(q, b) \in Nat
      BY NDigitsIs
    <3>3. u \in Seq(D) /\ Len(u) = NDigits(q, b)
      BY <1>1, <3>1
    <3>4. NDigits(x, b) - 1 = NDigits(q, b)
      BY <3>1, <3>2
    <3>. QED  BY <3>3, <3>4
  <2>. QED  BY <2>1, <2>2
<1>5. PICK n \in Nat \ {0} : n = NDigits(x, b)
  BY NDigitsIs
<1>6. /\ <<c>> \o u \in Seq(D) /\ Len(<<c>> \o u) = n
      /\ \A i \in 1 .. n : (<<c>> \o u)[i] = IF i = 1 THEN c ELSE u[i - 1]
  <2>. PICK h : h = <<c>>
    OBVIOUS
  <2>1. h \in Seq(D) /\ Len(h) = 1 /\ h[1] = c
    BY <1>3
  <2>2. /\ h \o u \in Seq(D) /\ Len(h \o u) = 1 + (n - 1)
        /\ \A i \in 1 .. 1 + (n - 1) : (h \o u)[i] = IF i <= 1 THEN h[i] ELSE u[i - 1]
    BY <1>4, <1>5, <2>1, ConcatProperties
  <2>. QED  BY <2>1, <2>2
<1>7. ASSUME NEW i \in 1 .. n
      PROVE  LowDigits(x, b)[i] = (<<c>> \o u)[i]
  <2>1. LowDigits(x, b)[i] = Digit(x, b, i - 1)
    BY <1>5 DEF LowDigits
  <2>2. CASE i = 1
    BY <1>2, <1>6, <2>1, <2>2
  <2>3. CASE i # 1
    <3>1. PICK j \in Nat : j = i - 2 /\ i = j + 2 /\ i - 1 = j + 1
      <4>1. i - 2 \in Nat
        BY <2>3
      <4>. QED  BY <4>1
    <3>2. q # 0
      <4>1. n # 1
        BY <2>3
      <4>. QED  BY <1>5, <4>1, NDigitsIs
    <3>3. (x \div b) \div Power(b, j) = x \div Power(b, j + 1)
      <4>0. b \in Nat \ {0}
        OBVIOUS
      <4>1. Power(b, j) \in Nat \ {0} /\ Power(b, j + 1) = b * Power(b, j)
        BY <1>0, <3>1
      <4>2. (x \div b) \div Power(b, j) = x \div (b * Power(b, j))
        BY <4>0, <4>1, DivDiv
      <4>. QED  BY <4>1, <4>2
    <3>4. u[i - 1] = Digit(q, b, j)
      <4>1. NDigits(q, b) = n - 1
        BY <1>5, <3>2, NDigitsIs
      <4>2. j + 1 \in 1 .. n - 1 /\ (j + 1) - 1 = j
        BY <3>1
      <4>3. LowDigits(q, b)[j + 1] = Digit(q, b, j)
        BY <4>1, <4>2 DEF LowDigits
      <4>. QED  BY <3>1, <3>2, <4>3
    <3>5. Digit(q, b, j) = Digit(x, b, j + 1)
      BY <3>3 DEF Digit
    <3>6. (<<c>> \o u)[i] = u[i - 1]
      BY <1>6, <2>3
    <3>. QED  BY <2>1, <3>1, <3>4, <3>5, <3>6
  <2>. QED  BY <2>2, <2>3
<1>8. LowDigits(x, b) \in Seq(D) /\ Len(LowDigits(x, b)) = n
  BY <1>1, <1>5
<1>9. LowDigits(x, b) = <<c>> \o u
  <2>. PICK s, t : s = LowDigits(x, b) /\ t = <<c>> \o u
    OBVIOUS
  <2>1. s \in Seq(D) /\ t \in Seq(D) /\ Len(s) = Len(t)
    BY <1>6, <1>8
  <2>2. \A i \in 1 .. Len(s) : s[i] = t[i]
    BY <1>7, <1>8
  <2>3. s = t
    BY ONLY <2>1, <2>2, SeqEqual
  <2>. QED  BY <2>3
<1>. QED  BY <1>9

LEMMA LowFirstIs ==
  ASSUME NEW b \in Nat, b >= 2, NEW x \in Nat
  PROVE  LowFirst(x, b) = LowDigits(x, b)
<1>. DEFINE low == CHOOSE low : low = [y \in Nat |->
                     <<digits[(y % b) + 1]>> \o
                       (IF y \div b = 0 THEN <<>> ELSE low[y \div b])]
            g == [y \in Nat |-> LowDigits(y, b)]
<1>1. LowFirst(x, b) = low[x]
  BY DEF LowFirst
<1>2. g = [y \in Nat |-> <<digits[(y % b) + 1]>> \o
                           (IF y \div b = 0 THEN <<>> ELSE g[y \div b])]
  <2>1. ASSUME NEW y \in Nat
        PROVE  LowDigits(y, b) = <<digits[(y % b) + 1]>> \o
                                   (IF y \div b = 0 THEN <<>> ELSE g[y \div b])
    <3>1. g[y \div b] = LowDigits(y \div b, b)
      BY DigitsStep
    <3>. HIDE DEF g
    <3>. QED  BY <3>1, LowDigitsStep
  <2>. QED  BY <2>1
<1>. HIDE DEF g
<1>3. low = [y \in Nat |-> <<digits[(y % b) + 1]>> \o
                             (IF y \div b = 0 THEN <<>> ELSE low[y \div b])]
  BY <1>2, Zenon
<1>. HIDE DEF low
<1>. DEFINE R == {y \in Nat : low[y] = LowDigits(y, b)}
<1>4. ASSUME NEW y \in Nat, \A i \in 0 .. y - 1 : i \in R
      PROVE  y \in R
  <2>1. low[y] = <<digits[(y % b) + 1]>> \o
                   (IF y \div b = 0 THEN <<>> ELSE low[y \div b])
    BY <1>3
  <2>2. y \div b # 0 => low[y \div b] = LowDigits(y \div b, b)
    <3>1. y \div b \in Nat /\ (y \div b # 0 => y \div b < y)
      BY DigitsStep
    <3>2. y \div b # 0 => y \div b \in R
      BY <1>4, <3>1
    <3>. QED  BY <3>2
  <2>3. low[y] = LowDigits(y, b)
    BY <2>1, <2>2, LowDigitsStep
  <2>. QED  BY <2>3
<1>. HIDE DEF R
<1>5. Nat \subseteq R
  BY <1>4, StrongInduction
<1>. QED  BY <1>1, <1>5 DEF R

LEMMA LongFacts ==
  /\ Long \subseteq Nat /\ LongMod \in Nat
  /\ IntMod \in Nat \ {0} /\ IntMod <= LongMod
  /\ 0 .. IntMod - 1 \subseteq Long
<1>. PICK m \in Nat \ {0}, l \in Nat \ {0} : m = IntMod /\ l = LongMod /\ l % m = 0
  BY IntAssumption, LongAssumption
<1>1. PICK q \in Int : l = m * q
  <2>1. l \in Int /\ l = m * (l \div m) + (l % m) /\ l \div m \in Int
    BY DivMod
  <2>2. PICK q \in Int : q = l \div m
    BY <2>1
  <2>3. m * q \in Int
    OBVIOUS
  <2>. QED  BY <2>1, <2>2, <2>3
<1>2. q >= 1 \/ q <= -1 \/ q = 0
  OBVIOUS
<1>3. m * q >= m
  BY <1>1, <1>2, Multiples
<1>. QED  BY <1>1, <1>3 DEF Long

\* The digits of the numeral, the highest first.
LEMMA NumeralDigits ==
  ASSUME NEW b \in Nat, b >= 2, NEW x \in Long
  PROVE  Numeral(x, b) =
           [i \in 1 .. NDigits(x, b) |-> Digit(x, b, NDigits(x, b) - i)]
<1>0. x \in Nat /\ LongMod \in Nat /\ x + 1 <= LongMod
  BY LongFacts DEF Long
<1>. PICK n \in Nat \ {0} : n = NDigits(x, b) /\ HasDigits(x, b, n) /\ n \in 1 .. LongMod
  <2>1. PICK n \in Nat \ {0} : HasDigits(x, b, n) /\ n <= x + 1
    BY <1>0, DigitsExist
  <2>2. n = NDigits(x, b)
    <3>1. NDigits(x, b) \in Nat \ {0} /\ HasDigits(x, b, NDigits(x, b))
      BY <1>0, NDigitsIs
    <3>. QED  BY <1>0, <2>1, <3>1, DigitsUnique
  <2>3. n \in 1 .. LongMod
    BY <1>0, <2>1
  <2>. QED  BY <2>1, <2>2, <2>3
<1>. DEFINE k == CHOOSE k \in 1 .. LongMod :
                   x < Power(b, k) /\ (k > 1 => x >= Power(b, k - 1))
<1>1. k = n
  <2>1. k \in 1 .. LongMod /\ HasDigits(x, b, k)
    BY DEF HasDigits
  <2>. HIDE DEF k
  <2>2. k \in Nat \ {0}
    BY <2>1
  <2>. QED  BY <1>0, <2>1, <2>2, DigitsUnique
<1>2. Numeral(x, b) = [i \in 1 .. k |-> Digit(x, b, k - i)]
  BY DEF Numeral, Digit
<1>. HIDE DEF k
<1>. QED  BY <1>1, <1>2

\* What printf sends.
Letters == {"-", "0", "x", "(", "n", "u", "l", ")", "h", "i", "%", "d", "z"}
Sent    == Letters \cup {digits[i] : i \in 1 .. 16}

\* A digit of x is one of the sixteen, and says what remains of the quotient.
LEMMA DigitFacts ==
  ASSUME NEW b \in Nat, b >= 2, b <= 16, NEW x \in Nat, NEW i \in Nat
  PROVE  /\ x \div Power(b, i) \in Int
         /\ (x \div Power(b, i)) % b \in 0 .. b - 1
         /\ Digit(x, b, i) \in Sent
<1>1. Power(b, i) \in Nat \ {0}
  <2>1. Power(b, i) \in Nat /\ Power(b, i) >= i + 1
    BY PowerIsNat, PowerGrows
  <2>. QED  BY <2>1
<1>2. x \div Power(b, i) \in Int
  <2>1. PICK d \in Nat \ {0} : d = Power(b, i)
    BY <1>1
  <2>2. x \div d \in Int
    OBVIOUS
  <2>. QED  BY <2>1, <2>2
<1>3. (x \div Power(b, i)) % b \in 0 .. b - 1
  <2>1. b \in Nat \ {0}
    OBVIOUS
  <2>. QED  BY <1>2, <2>1, DivMod
<1>4. ((x \div Power(b, i)) % b) + 1 \in 1 .. 16
  BY <1>3
<1>. QED  BY <1>2, <1>3, <1>4 DEF Digit, Sent

LEMMA NumeralIsSeq ==
  ASSUME NEW b \in {10, 16}, NEW x \in Long
  PROVE  /\ Numeral(x, b) \in Seq(Sent) /\ Len(Numeral(x, b)) = NDigits(x, b)
         /\ LowDigits(x, b) \in Seq(Sent) /\ Len(LowDigits(x, b)) = NDigits(x, b)
<1>0. x \in Nat /\ b \in Nat /\ b >= 2 /\ b <= 16
  BY LongFacts
<1>. PICK n \in Nat : n = NDigits(x, b)
  BY <1>0, NDigitsIs
<1>1. \A i \in Nat : Digit(x, b, i) \in Sent
  BY <1>0, DigitFacts
<1>2. LowDigits(x, b) \in [1 .. n -> Sent]
  BY <1>1 DEF LowDigits
<1>3. Numeral(x, b) \in [1 .. n -> Sent]
  BY <1>0, <1>1, NumeralDigits
<1>. QED  BY <1>2, <1>3, FunctionIsSeq

\* printint prints the numeral of what it finds in its word.
LEMMA NumeralIs ==
  ASSUME NEW b \in {10, 16}, NEW x \in Long
  PROVE  Seqs!Reverse(LowFirst(x, b)) = Numeral(x, b)
<1>0. x \in Nat /\ b \in Nat /\ b >= 2
  BY LongFacts
<1>. PICK n \in Nat : n = NDigits(x, b)
  BY <1>0, NDigitsIs
<1>1. Seqs!Reverse(LowDigits(x, b)) = [i \in 1 .. n |-> Digit(x, b, n - i)]
  <2>1. Seqs!Reverse(LowDigits(x, b)) =
          [i \in 1 .. n |-> LowDigits(x, b)[(n - i) + 1]]
    BY NumeralIsSeq DEF Seqs!Reverse
  <2>2. ASSUME NEW i \in 1 .. n
        PROVE  LowDigits(x, b)[(n - i) + 1] = Digit(x, b, n - i)
    <3>1. (n - i) + 1 \in 1 .. n /\ ((n - i) + 1) - 1 = n - i
      OBVIOUS
    <3>. QED  BY <3>1 DEF LowDigits
  <2>. QED  BY <2>1, <2>2
<1>. QED  BY <1>0, <1>1, LowFirstIs, NumeralDigits

-------------------------------------------------------------------------
(* Two numbers never have the same numeral.                              *)

LEMMA ConsParts ==
  ASSUME NEW S, NEW a \in S, NEW s \in Seq(S)
  PROVE  Head(<<a>> \o s) = a /\ Tail(<<a>> \o s) = s
OBVIOUS

\* The digits differ from one another.
LEMMA DigitsDiffer ==
  ASSUME NEW i \in 0 .. 15, NEW j \in 0 .. 15, digits[i + 1] = digits[j + 1]
  PROVE  i = j
<1>1. \A k, l \in 1 .. 16 : digits[k] = digits[l] => k = l
  BY DEF digits
<1>2. i + 1 \in 1 .. 16 /\ j + 1 \in 1 .. 16
  OBVIOUS
<1>. QED  BY <1>1, <1>2

\* More digits for a larger number.
LEMMA DigitsGrow ==
  ASSUME NEW b \in Nat, b >= 2, NEW x \in Nat, NEW y \in Nat, y <= x
  PROVE  NDigits(y, b) <= NDigits(x, b)
<1>. PICK n \in Nat \ {0}, k \in Nat \ {0} :
       /\ n = NDigits(x, b) /\ HasDigits(x, b, n)
       /\ k = NDigits(y, b) /\ HasDigits(y, b, k)
  BY NDigitsIs
<1>. SUFFICES ASSUME n < k
              PROVE  FALSE
  OBVIOUS
<1>1. k - 1 \in Nat /\ n <= k - 1 /\ k > 1
  OBVIOUS
<1>2. /\ Power(b, n) <= Power(b, k - 1)
      /\ Power(b, n) \in Nat /\ Power(b, k - 1) \in Nat
  BY <1>1, PowerGrows, PowerIsNat
<1>3. x < Power(b, n) /\ y >= Power(b, k - 1)
  BY <1>1 DEF HasDigits
<1>. QED  BY <1>2, <1>3

LEMMA LowDigitsDiffer ==
  ASSUME NEW x \in Nat, NEW y \in Nat, LowDigits(x, 16) = LowDigits(y, 16)
  PROVE  x = y
<1>. DEFINE R == {a \in Nat : \A c \in Nat :
                               LowDigits(a, 16) = LowDigits(c, 16) => a = c}
<1>1. \A a \in Nat : /\ LowDigits(a, 16) \in Seq(Sent)
                    /\ Len(LowDigits(a, 16)) = NDigits(a, 16)
                    /\ NDigits(a, 16) \in Nat \ {0}
  <2>. TAKE a \in Nat
  <2>1. NDigits(a, 16) \in Nat \ {0}
    BY NDigitsIs
  <2>2. \A i \in Nat : Digit(a, 16, i) \in Sent
    BY DigitFacts
  <2>3. LowDigits(a, 16) \in [1 .. NDigits(a, 16) -> Sent]
    BY <2>1, <2>2 DEF LowDigits
  <2>. QED  BY <2>1, <2>3, FunctionIsSeq
<1>2. ASSUME NEW a \in Nat, \A i \in 0 .. a - 1 : i \in R
      PROVE  a \in R
  <2>. SUFFICES ASSUME NEW c \in Nat, LowDigits(a, 16) = LowDigits(c, 16)
                PROVE  a = c
    OBVIOUS
  <2>. HIDE DEF R
  <2>. PICK q \in Nat, p \in Nat, s \in 0 .. 15, t \in 0 .. 15 :
         /\ q = a \div 16 /\ s = a % 16 /\ a = 16 * q + s
         /\ p = c \div 16 /\ t = c % 16 /\ c = 16 * p + t
    <3>1. \A z \in Nat : /\ z \div 16 \in Nat /\ z % 16 \in 0 .. 15
                        /\ z = 16 * (z \div 16) + (z % 16)
      <4>. TAKE z \in Nat
      <4>1. 16 \in Nat \ {0} /\ z \in Int
        OBVIOUS
      <4>2. z \div 16 \in Nat
        BY <4>1, QuotientIsNat
      <4>3. z % 16 \in 0 .. 16 - 1 /\ z = 16 * (z \div 16) + (z % 16)
        BY <4>1, DivMod
      <4>. QED  BY <4>2, <4>3
    <3>2. /\ a \div 16 \in Nat /\ a % 16 \in 0 .. 15 /\ a = 16 * (a \div 16) + (a % 16)
          /\ c \div 16 \in Nat /\ c % 16 \in 0 .. 15 /\ c = 16 * (c \div 16) + (c % 16)
      BY ONLY <3>1, a \in Nat, c \in Nat
    <3>. QED  BY <3>2, Zenon
  <2>1. /\ LowDigits(a, 16) = <<digits[s + 1]>> \o
                                 (IF q = 0 THEN <<>> ELSE LowDigits(q, 16))
        /\ LowDigits(c, 16) = <<digits[t + 1]>> \o
                                 (IF p = 0 THEN <<>> ELSE LowDigits(p, 16))
    <3>1. 16 \in Nat /\ 16 >= 2
      OBVIOUS
    <3>2. \A z \in Nat :
            LowDigits(z, 16) = <<digits[(z % 16) + 1]>> \o
                                 (IF z \div 16 = 0 THEN <<>> ELSE LowDigits(z \div 16, 16))
      BY <3>1, LowDigitsStep
    <3>. QED  BY <3>2
  <2>. PICK u \in Seq(Sent), v \in Seq(Sent) :
         /\ u = IF q = 0 THEN <<>> ELSE LowDigits(q, 16)
         /\ v = IF p = 0 THEN <<>> ELSE LowDigits(p, 16)
    <3>1. <<>> \in Seq(Sent) /\ LowDigits(q, 16) \in Seq(Sent)
          /\ LowDigits(p, 16) \in Seq(Sent)
      BY <1>1, EmptySeq
    <3>. QED  BY <3>1
  <2>2. digits[s + 1] \in Sent /\ digits[t + 1] \in Sent
    <3>1. s + 1 \in 1 .. 16 /\ t + 1 \in 1 .. 16
      OBVIOUS
    <3>. QED  BY <3>1 DEF Sent
  <2>3. digits[s + 1] = digits[t + 1] /\ u = v
    <3>1. /\ Head(<<digits[s + 1]>> \o u) = digits[s + 1]
          /\ Tail(<<digits[s + 1]>> \o u) = u
      BY <2>2, ConsParts
    <3>2. /\ Head(<<digits[t + 1]>> \o v) = digits[t + 1]
          /\ Tail(<<digits[t + 1]>> \o v) = v
      BY <2>2, ConsParts
    <3>. QED  BY <2>1, <3>1, <3>2
  <2>4. s = t
    BY <2>3, DigitsDiffer
  <2>5. \A z \in Nat : LowDigits(z, 16) # <<>>
    BY <1>1, EmptySeq
  <2>6. q = 0 <=> p = 0
    BY <2>3, <2>5
  <2>7. q # 0 => q = p
    <3>. SUFFICES ASSUME q # 0
                  PROVE  q = p
      OBVIOUS
    <3>1. q \in 0 .. a - 1
      OBVIOUS
    <3>2. LowDigits(q, 16) = LowDigits(p, 16)
      BY <2>3, <2>6
    <3>. QED  BY <1>2, <3>1, <3>2 DEF R
  <2>. QED  BY <2>4, <2>6, <2>7
<1>. HIDE DEF R
<1>3. Nat \subseteq R
  BY <1>2, StrongInduction
<1>. QED  BY <1>3 DEF R

LEMMA NumeralsDiffer ==
  ASSUME NEW x \in Long, NEW y \in Long, Numeral(x, 16) = Numeral(y, 16)
  PROVE  x = y
<1>0. x \in Nat /\ y \in Nat /\ 16 \in {10, 16}
  BY LongFacts
<1>. PICK n \in Nat : n = NDigits(x, 16) /\ n = NDigits(y, 16)
  <2>1. NDigits(x, 16) = NDigits(y, 16) /\ NDigits(x, 16) \in Nat
    BY <1>0, NumeralIsSeq, NDigitsIs
  <2>. QED  BY <2>1
<1>1. /\ Numeral(x, 16) = [i \in 1 .. n |-> Digit(x, 16, n - i)]
      /\ Numeral(y, 16) = [i \in 1 .. n |-> Digit(y, 16, n - i)]
  BY NumeralDigits
<1>2. ASSUME NEW i \in 1 .. n
      PROVE  Digit(x, 16, i - 1) = Digit(y, 16, i - 1)
  <2>1. PICK j \in 1 .. n : j = n - i + 1 /\ n - j = i - 1
    <3>1. n - i + 1 \in 1 .. n /\ n - (n - i + 1) = i - 1
      OBVIOUS
    <3>. QED  BY <3>1
  <2>2. Numeral(x, 16)[j] = Digit(x, 16, n - j)
    BY <1>1
  <2>3. Numeral(y, 16)[j] = Digit(y, 16, n - j)
    BY <1>1
  <2>. QED  BY <2>1, <2>2, <2>3
<1>3. LowDigits(x, 16) = LowDigits(y, 16)
  BY <1>2 DEF LowDigits
<1>. QED  BY <1>0, <1>3, LowDigitsDiffer

LEMMA IntFacts ==
  /\ IntMod \in Nat \ {0} /\ IntMod \div 2 \in Nat /\ IntMod = 2 * (IntMod \div 2)
  /\ \A x \in Int : AsInt(x) \in Int /\ AsInt(x) % IntMod = x % IntMod
  /\ \A x \in CInt : x \in Int /\ AsInt(x) = x
  /\ \A x \in CInt : x % IntMod = IF x < 0 THEN x + IntMod ELSE x
  /\ \A x \in CInt : x < 0 => (-x) % IntMod = -x
<1>. PICK h \in Nat : h = IntMod \div 2 /\ IntMod = 2 * h
  BY IntAssumption
<1>. PICK m \in Nat \ {0} : m = IntMod
  BY IntAssumption
<1>1. ASSUME NEW x \in Int
      PROVE  AsInt(x) \in Int /\ AsInt(x) % IntMod = x % IntMod
  <2>1. PICK u \in 0 .. m - 1 : u = x % m
    BY ModFacts
  <2>2. u % m = u /\ (u - m) % m = u
    BY ModFacts
  <2>. QED  BY <2>1, <2>2 DEF AsInt
<1>2. ASSUME NEW x \in CInt
      PROVE  /\ x \in Int /\ AsInt(x) = x
             /\ x % IntMod = IF x < 0 THEN x + IntMod ELSE x
             /\ x < 0 => (-x) % IntMod = -x
  <2>1. x \in -h .. h - 1
    BY DEF CInt
  <2>2. x % m = IF x < 0 THEN x + m ELSE x
    <3>1. x \in Int
      BY <2>1
    <3>2. x < 0 => -m <= x
      BY <2>1
    <3>3. x >= 0 => x < m
      BY <2>1
    <3>4. CASE x < 0
      <4>1. x % m = x + m
        BY <3>1, <3>2, <3>4, ModFacts
      <4>. QED  BY <3>4, <4>1
    <3>5. CASE x >= 0
      <4>1. x % m = x
        BY <3>1, <3>3, <3>5, ModFacts
      <4>. QED  BY <3>1, <3>5, <4>1
    <3>. QED  BY <3>1, <3>4, <3>5
  <2>3. x < 0 => (-x) % m = -x
    <3>1. -x \in Int
      BY <2>1
    <3>2. x < 0 => 0 <= -x /\ -x < m
      BY <2>1
    <3>. QED  BY <3>1, <3>2, ModFacts
  <2>. QED  BY <2>1, <2>2, <2>3 DEF AsInt
<1>. QED  BY <1>1, <1>2

\* printint prints every int, the smallest included, and the bits of any word.
LEMMA PrintintIs ==
  /\ \A x \in CInt :
       printint(AsInt(x), 10, TRUE) =
         IF x < 0 THEN <<"-">> \o Numeral(-x, 10) ELSE Numeral(x, 10)
  /\ \A x \in Int : printint(AsInt(x), 16, FALSE) = Numeral(x % IntMod, 16)
<1>1. ASSUME NEW x \in CInt
      PROVE  printint(AsInt(x), 10, TRUE) =
               IF x < 0 THEN <<"-">> \o Numeral(-x, 10) ELSE Numeral(x, 10)
  <2>1. AsInt(x) = x /\ x \in Int
    BY IntFacts
  <2>2. CASE x < 0
    <3>1. AsInt(-x) % IntMod = -x
      BY <2>1, <2>2, IntFacts
    <3>2. -x \in 0 .. IntMod - 1
      BY <2>1, <2>2, IntFacts DEF CInt
    <3>3. Seqs!Reverse(LowFirst(-x, 10)) = Numeral(-x, 10)
      BY <3>2, NumeralIs, LongFacts
    <3>. QED  BY <2>1, <2>2, <3>1, <3>3 DEF printint
  <2>3. CASE ~ (x < 0)
    <3>1. x % IntMod = x
      BY <2>1, <2>3, IntFacts
    <3>2. x \in 0 .. IntMod - 1
      BY <2>1, <2>3, IntFacts DEF CInt
    <3>3. Seqs!Reverse(LowFirst(x, 10)) = Numeral(x, 10)
      BY <3>2, NumeralIs, LongFacts
    <3>4. <<>> \o Numeral(x, 10) = Numeral(x, 10)
      BY <3>2, NumeralIsSeq, LongFacts, ConcatEmptySeq
    <3>. QED  BY <2>1, <2>3, <3>1, <3>3, <3>4 DEF printint
  <2>. QED  BY <2>2, <2>3
<1>2. ASSUME NEW x \in Int
      PROVE  printint(AsInt(x), 16, FALSE) = Numeral(x % IntMod, 16)
  <2>1. AsInt(x) % IntMod = x % IntMod /\ x % IntMod \in 0 .. IntMod - 1
    BY IntFacts, ModFacts
  <2>2. Seqs!Reverse(LowFirst(x % IntMod, 16)) = Numeral(x % IntMod, 16)
    BY <2>1, NumeralIs, LongFacts
  <2>3. <<>> \o Numeral(x % IntMod, 16) = Numeral(x % IntMod, 16)
    BY <2>1, NumeralIsSeq, LongFacts, ConcatEmptySeq
  <2>. QED  BY <2>1, <2>2, <2>3 DEF printint
<1>. QED  BY <1>1, <1>2

\* What a piece is.
IsNumber(p, c, x) == p.fmt = <<"%", c>> /\ p.args = <<x>>

LEMMA PieceForms ==
  ASSUME NEW p \in Numbers \cup Texts
  PROVE  \/ \E x \in CInt : IsNumber(p, "d", x) \/ IsNumber(p, "x", x)
         \/ \E x \in Long : IsNumber(p, "p", x)
         \/ \E s \in {Null, <<>>, <<"h", "i">>, <<"%", "d">>} : IsNumber(p, "s", s)
         \/ IsNumber(p, "c", "z")
         \/ p.args = <<>> /\ p.fmt \in {<<"%", "%">>, <<"%", "l">>, <<"d">>}
BY DEF Numbers, Texts, Piece, IsNumber

\* What printf prints for a piece: of an address, the lower bits.
Printed(p) ==
  IF p.fmt = <<"%", "p">> THEN <<"0", "x">> \o Numeral(p.args[1] % IntMod, 16)
  ELSE Expected(p)

LEMMA PrintedIs ==
  ASSUME NEW p, NEW x
  PROVE  /\ IsNumber(p, "d", x) =>
              Printed(p) = IF x < 0 THEN <<"-">> \o Numeral(-x, 10) ELSE Numeral(x, 10)
         /\ IsNumber(p, "x", x) =>
              Printed(p) = Numeral(IF x < 0 THEN x + IntMod ELSE x, 16)
         /\ IsNumber(p, "p", x) =>
              Printed(p) = <<"0", "x">> \o Numeral(x % IntMod, 16)
         /\ IsNumber(p, "s", x) =>
              Printed(p) = IF x = Null THEN <<"(", "n", "u", "l", "l", ")">> ELSE x
         /\ IsNumber(p, "c", x) => Printed(p) = <<x>>
         /\ p.fmt = <<"%", "%">> => Printed(p) = <<"%">>
         /\ p.fmt = <<"%">> => Printed(p) = <<>>
         /\ p.fmt = <<"%", "l">> => Printed(p) = <<"%", "l">>
         /\ p.fmt = <<"d">> => Printed(p) = <<"d">>
<1>1. ASSUME IsNumber(p, "d", x)
      PROVE  Printed(p) = IF x < 0 THEN <<"-">> \o Numeral(-x, 10) ELSE Numeral(x, 10)
  BY <1>1 DEF IsNumber, Printed, Expected
<1>2. ASSUME IsNumber(p, "x", x)
      PROVE  Printed(p) = Numeral(IF x < 0 THEN x + IntMod ELSE x, 16)
  BY <1>2 DEF IsNumber, Printed, Expected
<1>3. ASSUME IsNumber(p, "p", x)
      PROVE  Printed(p) = <<"0", "x">> \o Numeral(x % IntMod, 16)
  BY <1>3 DEF IsNumber, Printed
<1>4. ASSUME IsNumber(p, "s", x)
      PROVE  Printed(p) = IF x = Null THEN <<"(", "n", "u", "l", "l", ")">> ELSE x
  BY <1>4 DEF IsNumber, Printed, Expected
<1>5. ASSUME IsNumber(p, "c", x)
      PROVE  Printed(p) = <<x>>
  BY <1>5 DEF IsNumber, Printed, Expected
<1>6. ASSUME p.fmt = <<"%", "%">>
      PROVE  Printed(p) = <<"%">>
  BY <1>6 DEF Printed, Expected
<1>7. ASSUME p.fmt = <<"%">>
      PROVE  Printed(p) = <<>>
  BY <1>7 DEF Printed, Expected
<1>8. ASSUME p.fmt = <<"%", "l">>
      PROVE  Printed(p) = <<"%", "l">>
  BY <1>8 DEF Printed, Expected
<1>9. ASSUME p.fmt = <<"d">>
      PROVE  Printed(p) = <<"d">>
  BY <1>9 DEF Printed, Expected
<1>. QED  BY <1>1, <1>2, <1>3, <1>4, <1>5, <1>6, <1>7, <1>8, <1>9

\* A conversion of printf prints what is expected of it.
LEMMA ConvertedIs ==
  ASSUME NEW p \in Numbers \cup Texts, p.args # <<>>
  PROVE  /\ p.args = <<p.args[1]>>
         /\ \E c \in {"d", "x", "p", "s", "c"} :
              p.fmt = <<"%", c>> /\ Converted(c, p.args[1]) = Printed(p)
<1>1. ASSUME NEW x, IsNumber(p, "d", x), x \in CInt
      PROVE  Converted("d", x) = Printed(p)
  <2>1. printint(AsInt(x), 10, TRUE) =
          IF x < 0 THEN <<"-">> \o Numeral(-x, 10) ELSE Numeral(x, 10)
    BY <1>1, PrintintIs
  <2>. QED  BY <1>1, <2>1, PrintedIs DEF Converted
<1>2. ASSUME NEW x, IsNumber(p, "x", x), x \in CInt
      PROVE  Converted("x", x) = Printed(p)
  <2>1. x % IntMod = (IF x < 0 THEN x + IntMod ELSE x) /\ x \in Int
    BY <1>2, IntFacts
  <2>2. printint(AsInt(x), 16, FALSE) = Numeral(x % IntMod, 16)
    BY <2>1, PrintintIs
  <2>3. Printed(p) = Numeral(IF x < 0 THEN x + IntMod ELSE x, 16)
    BY <1>2, PrintedIs
  <2>. QED  BY <2>1, <2>2, <2>3 DEF Converted
<1>3. ASSUME NEW x, IsNumber(p, "p", x), x \in Long
      PROVE  Converted("p", x) = Printed(p)
  <2>1. x \in Int
    BY <1>3, LongAssumption DEF Long
  <2>2. printint(AsInt(x), 16, FALSE) = Numeral(x % IntMod, 16)
    BY <2>1, PrintintIs
  <2>3. Printed(p) = <<"0", "x">> \o Numeral(x % IntMod, 16)
    BY <1>3, PrintedIs
  <2>. QED  BY <2>2, <2>3 DEF Converted
<1>4. ASSUME NEW x, IsNumber(p, "s", x)
      PROVE  Converted("s", x) = Printed(p)
  <2>1. Printed(p) = IF x = Null THEN <<"(", "n", "u", "l", "l", ")">> ELSE x
    BY <1>4, PrintedIs
  <2>. QED  BY <2>1 DEF Converted
<1>5. ASSUME NEW x, IsNumber(p, "c", x)
      PROVE  Converted("c", x) = Printed(p)
  <2>1. Printed(p) = <<x>>
    BY <1>5, PrintedIs
  <2>. QED  BY <2>1 DEF Converted
<1>6. \E c \in {"d", "x", "p", "s", "c"} : \E x :
        IsNumber(p, c, x) /\ Converted(c, x) = Printed(p)
  BY PieceForms, <1>1, <1>2, <1>3, <1>4, <1>5
<1>. QED  BY <1>6 DEF IsNumber

LEMMA ShortSeqs ==
  ASSUME NEW S, NEW a \in S, NEW b \in S
  PROVE  <<a>> \in Seq(S) /\ <<a, b>> \in Seq(S)
OBVIOUS

LEMMA PrintedIsSeq ==
  ASSUME NEW p \in Numbers \cup Texts
  PROVE  Printed(p) \in Seq(Sent)
<1>0. Letters \subseteq Sent
  BY DEF Sent
<1>1. \A c \in Letters : <<c>> \in Seq(Sent)
  BY <1>0, ShortSeqs
<1>2. \A c, d \in Letters : <<c, d>> \in Seq(Sent)
  BY <1>0, ShortSeqs
<1>3. ASSUME NEW x \in CInt, IsNumber(p, "d", x)
      PROVE  Printed(p) \in Seq(Sent)
  <2>1. Printed(p) = IF x < 0 THEN <<"-">> \o Numeral(-x, 10) ELSE Numeral(x, 10)
    BY <1>3, PrintedIs
  <2>2. x < 0 => Numeral(-x, 10) \in Seq(Sent)
    <3>1. x < 0 => -x \in 0 .. IntMod - 1
      BY IntFacts DEF CInt
    <3>. QED  BY <3>1, NumeralIsSeq, LongFacts
  <2>3. ~ (x < 0) => Numeral(x, 10) \in Seq(Sent)
    <3>1. ~ (x < 0) => x \in 0 .. IntMod - 1
      BY IntFacts DEF CInt
    <3>. QED  BY <3>1, NumeralIsSeq, LongFacts
  <2>4. CASE x < 0
    <3>1. <<"-">> \in Seq(Sent)
      BY <1>1 DEF Letters
    <3>2. <<"-">> \o Numeral(-x, 10) \in Seq(Sent)
      BY <2>2, <2>4, <3>1, ConcatProperties
    <3>. QED  BY <2>1, <2>4, <3>2
  <2>5. CASE ~ (x < 0)
    BY <2>1, <2>3, <2>5
  <2>. QED  BY <2>4, <2>5
<1>4. ASSUME NEW x \in CInt, IsNumber(p, "x", x)
      PROVE  Printed(p) \in Seq(Sent)
  <2>1. Printed(p) = Numeral(x % IntMod, 16) /\ x % IntMod \in 0 .. IntMod - 1
    <3>1. x % IntMod = (IF x < 0 THEN x + IntMod ELSE x) /\ x \in Int
      BY IntFacts
    <3>2. x % IntMod \in 0 .. IntMod - 1
      BY <3>1, IntFacts, ModFacts
    <3>. QED  BY <1>4, <3>1, <3>2, PrintedIs
  <2>. QED  BY <2>1, NumeralIsSeq, LongFacts
<1>5. ASSUME NEW x \in Long, IsNumber(p, "p", x)
      PROVE  Printed(p) \in Seq(Sent)
  <2>1. Printed(p) = <<"0", "x">> \o Numeral(x % IntMod, 16)
    BY <1>5, PrintedIs
  <2>2. x % IntMod \in 0 .. IntMod - 1
    <3>1. x \in Int
      BY LongAssumption DEF Long
    <3>. QED  BY <3>1, IntFacts, ModFacts
  <2>3. Numeral(x % IntMod, 16) \in Seq(Sent)
    BY <2>2, NumeralIsSeq, LongFacts
  <2>4. <<"0", "x">> \in Seq(Sent)
    BY <1>2 DEF Letters
  <2>5. <<"0", "x">> \o Numeral(x % IntMod, 16) \in Seq(Sent)
    BY <2>3, <2>4, ConcatProperties
  <2>. QED  BY <2>1, <2>5
<1>6. ASSUME NEW s \in {Null, <<>>, <<"h", "i">>, <<"%", "d">>}, IsNumber(p, "s", s)
      PROVE  Printed(p) \in Seq(Sent)
  <2>1. Printed(p) = IF s = Null THEN <<"(", "n", "u", "l", "l", ")">> ELSE s
    BY <1>6, PrintedIs
  <2>2. <<"(", "n", "u", "l", "l", ")">> \in Seq(Sent)
    <3>1. "(" \in Sent /\ "n" \in Sent /\ "u" \in Sent /\ "l" \in Sent /\ ")" \in Sent
      BY <1>0 DEF Letters
    <3>. QED  BY <3>1
  <2>3. s # Null => s \in Seq(Sent)
    <3>1. <<"h", "i">> \in Seq(Sent) /\ <<"%", "d">> \in Seq(Sent)
      BY <1>2 DEF Letters
    <3>. QED  BY <3>1, EmptySeq
  <2>. QED  BY <2>1, <2>2, <2>3
<1>7. ASSUME \/ IsNumber(p, "c", "z")
             \/ p.fmt \in {<<"%", "%">>, <<"%", "l">>, <<"d">>}
      PROVE  Printed(p) \in Seq(Sent)
  <2>1. Printed(p) \in {<<"z">>, <<"%">>, <<"%", "l">>, <<"d">>}
    BY <1>7, PrintedIs
  <2>2. <<"z">> \in Seq(Sent) /\ <<"%">> \in Seq(Sent) /\ <<"d">> \in Seq(Sent)
    BY <1>1 DEF Letters
  <2>3. <<"%", "l">> \in Seq(Sent)
    BY <1>2 DEF Letters
  <2>. QED  BY <2>1, <2>2, <2>3
<1>. QED  BY PieceForms, <1>3, <1>4, <1>5, <1>6, <1>7

-------------------------------------------------------------------------
(* printf, a piece of the format in a round.                             *)

\* printf as a sequence of rounds, from x.
ArePrintfRounds(fmt, x, g) ==
  g = [i \in Nat |-> IF i = 0 THEN x ELSE FormatRound(fmt, g[i - 1])]

LEMMA PrintfRecursion ==
  ASSUME NEW fmt, NEW x
  PROVE  \E g : ArePrintfRounds(fmt, x, g)
<1>. DEFINE IsRun(n, p) == p = [i \in 0 .. n |-> IF i = 0 THEN x
                                               ELSE FormatRound(fmt, p[i - 1])]
            HasRuns == {n \in Nat : \E p : IsRun(n, p)}
            Run(n)  == CHOOSE p : IsRun(n, p)
            g       == [n \in Nat |-> Run(n)[n]]
<1>1. Nat \subseteq HasRuns
  <2>1. 0 \in HasRuns
    <3>1. IsRun(0, [i \in 0 .. 0 |-> x])
      OBVIOUS
    <3>. QED  BY <3>1
  <2>2. ASSUME NEW n \in Nat, n \in HasRuns
        PROVE  n + 1 \in HasRuns
    <3>1. PICK p : IsRun(n, p)
      BY <2>2
    <3>. DEFINE q == [i \in 0 .. n + 1 |-> IF i = n + 1 THEN FormatRound(fmt, p[n])
                                           ELSE p[i]]
    <3>2. ASSUME NEW i \in 0 .. n + 1
          PROVE  q[i] = IF i = 0 THEN x ELSE FormatRound(fmt, q[i - 1])
      <4>1. CASE i = n + 1
        <5>1. i - 1 = n /\ n \in 0 .. n + 1 /\ n # n + 1
          BY <4>1
        <5>. QED  BY <4>1, <5>1
      <4>2. CASE i \in 0 .. n
        <5>1. i # n + 1 /\ (i # 0 => i - 1 \in 0 .. n + 1 /\ i - 1 # n + 1)
          BY <4>2
        <5>2. p[i] = IF i = 0 THEN x ELSE FormatRound(fmt, p[i - 1])
          BY <3>1, <4>2
        <5>. QED  BY <5>1, <5>2
      <4>. QED  BY <4>1, <4>2
    <3>3. IsRun(n + 1, q)
      <4>1. q = [i \in 0 .. n + 1 |-> q[i]]
        OBVIOUS
      <4>. HIDE DEF q
      <4>. QED  BY <3>2, <4>1
    <3>. HIDE DEF q, IsRun
    <3>. QED  BY <3>3
  <2>. HIDE DEF HasRuns
  <2>. QED  BY <2>1, <2>2, Induction
<1>2. ASSUME NEW n \in Nat
      PROVE  IsRun(n, Run(n))
  <2>1. \E p : IsRun(n, p)
    BY <1>1
  <2>. QED  BY <2>1, Zenon
<1>3. ASSUME NEW n \in Nat, NEW k \in Nat, n <= k
      PROVE  Run(n)[n] = Run(k)[n]
  <2>. PICK p, q : p = Run(n) /\ q = Run(k)
    OBVIOUS
  <2>1. /\ \A i \in 0 .. n : p[i] = IF i = 0 THEN x ELSE FormatRound(fmt, p[i - 1])
        /\ \A i \in 0 .. k : q[i] = IF i = 0 THEN x ELSE FormatRound(fmt, q[i - 1])
    <3>1. IsRun(n, p) /\ IsRun(k, q)
      <4>. HIDE DEF IsRun, Run
      <4>. QED  BY <1>2
    <3>. QED  BY <3>1
  <2>. DEFINE S == {i \in Nat : i <= n => p[i] = q[i]}
  <2>2. 0 \in S
    BY <1>3, <2>1
  <2>3. ASSUME NEW i \in Nat, i \in S
        PROVE  i + 1 \in S
    <3>. SUFFICES ASSUME i + 1 <= n
                  PROVE  p[i + 1] = q[i + 1]
      OBVIOUS
    <3>1. i + 1 \in 0 .. n /\ i + 1 \in 0 .. k /\ i + 1 # 0 /\ (i + 1) - 1 = i
      BY <1>3
    <3>2. p[i] = q[i]
      BY <2>3
    <3>3. p[i + 1] = FormatRound(fmt, p[i])
      BY <2>1, <3>1
    <3>4. q[i + 1] = FormatRound(fmt, q[i])
      BY <2>1, <3>1
    <3>. QED  BY <3>2, <3>3, <3>4
  <2>. HIDE DEF S
  <2>4. n \in S
    BY <2>2, <2>3, Induction
  <2>. QED  BY <2>4 DEF S
<1>4. ASSUME NEW n \in Nat
      PROVE  g[n] = IF n = 0 THEN x ELSE FormatRound(fmt, g[n - 1])
  <2>1. n \in 0 .. n /\ (n # 0 => n - 1 \in Nat /\ n - 1 <= n)
    OBVIOUS
  <2>2. Run(n)[n] = IF n = 0 THEN x ELSE FormatRound(fmt, Run(n)[n - 1])
    <3>. PICK p : p = Run(n)
      OBVIOUS
    <3>1. IsRun(n, p)
      <4>. HIDE DEF IsRun, Run
      <4>. QED  BY <1>2
    <3>2. p[n] = IF n = 0 THEN x ELSE FormatRound(fmt, p[n - 1])
      BY <2>1, <3>1
    <3>. HIDE DEF Run
    <3>. QED  BY <3>2
  <2>3. n # 0 => Run(n - 1)[n - 1] = Run(n)[n - 1]
    <3>. HIDE DEF Run
    <3>. QED  BY <1>3, <2>1
  <2>. HIDE DEF Run
  <2>. QED  BY <2>1, <2>2, <2>3
<1>. HIDE DEF Run
<1>5. g = [n \in Nat |-> IF n = 0 THEN x ELSE FormatRound(fmt, g[n - 1])]
  <2>1. g = [n \in Nat |-> g[n]]
    OBVIOUS
  <2>. HIDE DEF g
  <2>. QED  BY <1>4, <2>1
<1>. HIDE DEF g
<1>6. ArePrintfRounds(fmt, x, g)
  BY <1>5 DEF ArePrintfRounds
<1>. QED  BY <1>6

\* The state of printf's loop.
At(i, args, sent) == [i |-> i, args |-> args, sent |-> sent]

FormatRounds(fmt, g) == \A n \in Nat : g[n + 1] = FormatRound(fmt, g[n])

IsPrintf(fmt, args, g) ==
  printf(fmt, args) = g[Len(fmt)].sent /\ g[0] = At(1, args, <<>>) /\ FormatRounds(fmt, g)

LEMMA PrintfRuns ==
  ASSUME NEW fmt, NEW args
  PROVE  \E g : IsPrintf(fmt, args, g)
<1>. DEFINE x == [i |-> 1, args |-> args, sent |-> <<>>]
            h == CHOOSE h : h = [i \in Nat |-> IF i = 0 THEN x
                                               ELSE FormatRound(fmt, h[i - 1])]
<1>1. printf(fmt, args) = h[Len(fmt)].sent
  BY DEF printf, Rounds
<1>. HIDE DEF x
<1>2. \E g : g = [i \in Nat |-> IF i = 0 THEN x ELSE FormatRound(fmt, g[i - 1])]
  <2>1. PICK g : ArePrintfRounds(fmt, x, g)
    BY PrintfRecursion
  <2>2. g = [i \in Nat |-> IF i = 0 THEN x ELSE FormatRound(fmt, g[i - 1])]
    BY <2>1 DEF ArePrintfRounds
  <2>. QED  BY <2>2
<1>3. h = [i \in Nat |-> IF i = 0 THEN x ELSE FormatRound(fmt, h[i - 1])]
  BY <1>2, Zenon
<1>. HIDE DEF h
<1>4. h[0] = x /\ FormatRounds(fmt, h)
  BY <1>3 DEF FormatRounds
<1>5. IsPrintf(fmt, args, h)
  BY <1>1, <1>4 DEF IsPrintf, At, x
<1>. QED  BY <1>5

\* The character i of fmt begins the piece f.
HasAt(fmt, i, f) ==
  \/ \E c : f = <<"%", c>> /\ i + 1 <= Len(fmt) /\ fmt[i] = "%" /\ fmt[i + 1] = c
  \/ f = <<"d">> /\ i <= Len(fmt) /\ fmt[i] = "d"

\* The parts of a piece.
FmtOf(p)  == p.fmt
ArgsOf(p) == p.args

LEMMA PieceFmt ==
  ASSUME NEW p \in Numbers \cup Texts
  PROVE  ArgsOf(p) = <<>> => FmtOf(p) \in {<<"%", "%">>, <<"%", "l">>, <<"d">>}
<1>1. \A c, x : IsNumber(p, c, x) => p.args # <<>>
  BY DEF IsNumber
<1>. QED  BY <1>1, PieceForms, Zenon DEF FmtOf, ArgsOf

\* The arguments of p, and then rest.
Takes(p, args, rest) ==
  IF ArgsOf(p) = <<>> THEN args = rest
  ELSE Head(args) = ArgsOf(p)[1] /\ Tail(args) = rest

\* The piece p goes from the character i to j.
PieceAt(p, fmt, i, j) ==
  /\ p \in Numbers \cup Texts /\ HasAt(fmt, i, FmtOf(p))
  /\ Len(fmt) \in Nat /\ i \in Nat /\ j = i + Len(FmtOf(p))

LEMMA PieceRound ==
  ASSUME NEW p, NEW fmt, NEW i, NEW j, PieceAt(p, fmt, i, j),
         NEW args, NEW rest, Takes(p, args, rest), NEW sent \in Seq(Sent)
  PROVE  FormatRound(fmt, At(i, args, sent)) = At(j, rest, sent \o Printed(p))
<1>. /\ p \in Numbers \cup Texts /\ Len(fmt) \in Nat /\ i \in Nat
     /\ HasAt(fmt, i, FmtOf(p))
  BY DEF PieceAt
<1>1. CASE ArgsOf(p) # <<>>
  <2>1. PICK c \in {"d", "x", "p", "s", "c"} :
          FmtOf(p) = <<"%", c>> /\ Converted(c, ArgsOf(p)[1]) = Printed(p)
    BY <1>1, ConvertedIs DEF FmtOf, ArgsOf
  <2>2. i + 1 <= Len(fmt) /\ fmt[i] = "%" /\ fmt[i + 1] = c
    BY <2>1 DEF HasAt
  <2>3. ~ (i > Len(fmt)) /\ i # Len(fmt)
    BY <2>2
  <2>4. j = i + 2
    BY <2>1 DEF PieceAt
  <2>. QED  BY <1>1, <2>1, <2>2, <2>3, <2>4 DEF FormatRound, At, Takes
<1>2. CASE ArgsOf(p) = <<>> /\ FmtOf(p) = <<"d">>
  <2>1. i <= Len(fmt) /\ fmt[i] = "d"
    BY <1>2 DEF HasAt
  <2>2. Printed(p) = <<"d">>
    BY <1>2, PrintedIs DEF FmtOf, ArgsOf
  <2>3. Append(sent, "d") = sent \o <<"d">>
    OBVIOUS
  <2>4. ~ (i > Len(fmt)) /\ fmt[i] # "%"
    BY <1>2, <2>1
  <2>5. j = i + 1
    BY <1>2 DEF PieceAt
  <2>. QED  BY <1>2, <2>1, <2>2, <2>3, <2>4, <2>5 DEF FormatRound, At, Takes
<1>3. ASSUME NEW c \in {"%", "l"}, ArgsOf(p) = <<>>, FmtOf(p) = <<"%", c>>
      PROVE  FormatRound(fmt, At(i, args, sent)) = At(j, rest, sent \o Printed(p))
  <2>1. i + 1 <= Len(fmt) /\ fmt[i] = "%" /\ fmt[i + 1] = c
    BY <1>3 DEF HasAt
  <2>2. Printed(p) = Unconverted(c)
    BY <1>3, PrintedIs DEF Unconverted, FmtOf, ArgsOf
  <2>3. ~ (i > Len(fmt)) /\ i # Len(fmt)
    BY <1>3, <2>1
  <2>4. j = i + 2
    BY <1>3 DEF PieceAt
  <2>. QED  BY <1>3, <2>1, <2>2, <2>3, <2>4 DEF FormatRound, At, Takes
<1>. QED  BY <1>1, <1>2, <1>3, PieceFmt

\* A % at the end of the format is dropped.
IsStray(fmt, i) == i = Len(fmt) /\ fmt[i] = "%"

LEMMA StrayRound ==
  ASSUME NEW fmt, NEW i \in Nat, IsStray(fmt, i), NEW args, NEW sent,
         NEW j \in Nat, j = i + 1
  PROVE  FormatRound(fmt, At(i, args, sent)) = At(j, args, sent)
BY DEF FormatRound, At, IsStray

\* printf stops at the end of the format.
LEMMA PrintfStops ==
  ASSUME NEW fmt, NEW n \in Nat, n = Len(fmt), NEW args, NEW g, IsPrintf(fmt, args, g),
         NEW k \in Nat, k <= n,
         NEW i \in Nat, i > n, NEW rest, NEW sent, g[k] = At(i, rest, sent)
  PROVE  printf(fmt, args) = sent
<1>. DEFINE S == {d \in Nat : g[k + d] = g[k]}
<1>0. \A d \in Nat : k + d \in Nat /\ (k + d) + 1 = k + (d + 1) /\ k + 0 = k
  OBVIOUS
<1>1. 0 \in S
  BY <1>0
<1>2. ASSUME NEW d \in Nat, d \in S
      PROVE  d + 1 \in S
  <2>1. g[(k + d) + 1] = FormatRound(fmt, g[k + d])
    BY <1>0 DEF IsPrintf, FormatRounds
  <2>2. FormatRound(fmt, g[k]) = g[k]
    BY DEF FormatRound, At
  <2>3. g[k + d] = g[k]
    BY <1>2
  <2>4. g[(k + d) + 1] = g[k]
    BY <2>1, <2>2, <2>3
  <2>. QED  BY <1>0, <2>4
<1>. HIDE DEF S
<1>3. Nat \subseteq S
  BY <1>1, <1>2, Induction
<1>4. PICK d \in Nat : k + d = n
  <2>1. n - k \in Nat /\ k + (n - k) = n
    OBVIOUS
  <2>. QED  BY <2>1
<1>5. g[n] = At(i, rest, sent)
  BY <1>3, <1>4 DEF S
<1>. QED  BY <1>5 DEF IsPrintf, At

\* The characters of a format.
Chars == {"%", "d", "x", "p", "s", "c", "l"}

LEMMA FmtFacts ==
  ASSUME NEW p \in Numbers \cup Texts
  PROVE  /\ FmtOf(p) \in Seq(Chars) /\ HasAt(FmtOf(p), 1, FmtOf(p))
         /\ \E k \in Nat : k = Len(FmtOf(p)) /\ k >= 1
<1>1. ASSUME NEW c \in Chars, FmtOf(p) = <<"%", c>>
      PROVE  FmtOf(p) \in Seq(Chars) /\ Len(FmtOf(p)) = 2 /\ HasAt(FmtOf(p), 1, FmtOf(p))
  <2>1. "%" \in Chars
    BY DEF Chars
  <2>2. <<"%", c>> \in Seq(Chars) /\ Len(<<"%", c>>) = 2
    BY <2>1, ShortSeqs
  <2>. QED  BY <1>1, <2>2 DEF HasAt
<1>2. ASSUME FmtOf(p) = <<"d">>
      PROVE  FmtOf(p) \in Seq(Chars) /\ Len(FmtOf(p)) = 1 /\ HasAt(FmtOf(p), 1, FmtOf(p))
  <2>1. "d" \in Chars
    BY DEF Chars
  <2>2. <<"d">> \in Seq(Chars) /\ Len(<<"d">>) = 1
    BY <2>1, ShortSeqs
  <2>. QED  BY <1>2, <2>2 DEF HasAt
<1>3. FmtOf(p) = <<"d">> \/ \E c \in Chars : FmtOf(p) = <<"%", c>>
  BY PieceForms DEF IsNumber, Chars, FmtOf, ArgsOf
<1>4. FmtOf(p) \in Seq(Chars) /\ HasAt(FmtOf(p), 1, FmtOf(p))
  BY <1>1, <1>2, <1>3
<1>5. Len(FmtOf(p)) = 1 \/ Len(FmtOf(p)) = 2
  BY <1>1, <1>2, <1>3
<1>6. \E k \in Nat : k = Len(FmtOf(p)) /\ k >= 1
  <2>1. 1 \in Nat /\ 2 \in Nat /\ 1 >= 1 /\ 2 >= 1
    OBVIOUS
  <2>. QED  BY <1>5, <2>1, Zenon
<1>. QED  BY <1>4, <1>6

HasParts(fmt, f, k, h, n) ==
  /\ fmt \in Seq(Chars) /\ Len(fmt) = k + n
  /\ HasAt(f, 1, f) => HasAt(fmt, 1, f)
  /\ HasAt(h, 1, h) => HasAt(fmt, 1 + k, h)
  /\ \A i \in 1 .. n : fmt[k + i] = h[i]

LEMMA HasAtConcat ==
  ASSUME NEW f \in Seq(Chars), NEW h \in Seq(Chars), NEW k \in Nat, k = Len(f),
         NEW n \in Nat, n = Len(h)
  PROVE  HasParts(f \o h, f, k, h, n)
<1>1. /\ f \o h \in Seq(Chars) /\ Len(f \o h) = Len(f) + Len(h)
      /\ \A i \in 1 .. Len(f) + Len(h) :
           (f \o h)[i] = IF i <= Len(f) THEN f[i] ELSE h[i - Len(f)]
  BY ConcatProperties
<1>. PICK s : s = f \o h
  OBVIOUS
<1>2. /\ s \in Seq(Chars) /\ Len(s) = k + n
      /\ \A i \in 1 .. k + n : s[i] = IF i <= k THEN f[i] ELSE h[i - k]
  BY <1>1
<1>3. \A i \in 1 .. k : s[i] = f[i]
  BY <1>2
<1>4. \A i \in 1 .. n : s[k + i] = h[i]
  <2>1. \A i \in 1 .. n : k + i \in 1 .. k + n /\ ~ (k + i <= k) /\ (k + i) - k = i
    OBVIOUS
  <2>. QED  BY <1>2, <2>1
<1>5. HasAt(f, 1, f) => HasAt(s, 1, f)
  <2>1. ASSUME NEW c, f = <<"%", c>>
        PROVE  HasAt(s, 1, f)
    <3>1. k = 2 /\ f[1] = "%" /\ f[2] = c
      BY <2>1
    <3>2. s[1] = "%" /\ s[2] = c /\ 2 <= Len(s)
      BY <1>2, <1>3, <3>1
    <3>. QED  BY <2>1, <3>2 DEF HasAt
  <2>2. ASSUME f = <<"d">>
        PROVE  HasAt(s, 1, f)
    <3>1. k = 1 /\ f[1] = "d"
      BY <2>2
    <3>2. s[1] = "d" /\ 1 <= Len(s)
      BY <1>2, <1>3, <3>1
    <3>. QED  BY <2>2, <3>2 DEF HasAt
  <2>. QED  BY <2>1, <2>2 DEF HasAt
<1>6. HasAt(h, 1, h) => HasAt(s, 1 + k, h)
  <2>1. ASSUME NEW c, h = <<"%", c>>
        PROVE  HasAt(s, 1 + k, h)
    <3>1. n = 2 /\ h[1] = "%" /\ h[2] = c
      BY <2>1
    <3>2. s[k + 1] = "%" /\ s[k + 2] = c /\ k + 2 <= Len(s)
      BY <1>2, <1>4, <3>1
    <3>3. 1 + k = k + 1 /\ (1 + k) + 1 = k + 2
      OBVIOUS
    <3>. QED  BY <2>1, <3>2, <3>3 DEF HasAt
  <2>2. ASSUME h = <<"d">>
        PROVE  HasAt(s, 1 + k, h)
    <3>1. n = 1 /\ h[1] = "d"
      BY <2>2
    <3>2. s[k + 1] = "d" /\ k + 1 <= Len(s) /\ 1 + k = k + 1
      BY <1>2, <1>4, <3>1
    <3>. QED  BY <2>2, <3>2 DEF HasAt
  <2>. QED  BY <2>1, <2>2 DEF HasAt
<1>. QED  BY <1>2, <1>4, <1>5, <1>6 DEF HasParts

\* The arguments of a piece, and those of what follows.
Short(rest) == rest = <<>> \/ \E b : rest = <<b>>

LEMMA ArgsParts ==
  ASSUME NEW p \in Numbers \cup Texts, NEW rest, Short(rest)
  PROVE  Takes(p, ArgsOf(p) \o rest, rest)
<1>1. \E S : rest \in Seq(S) /\ (ArgsOf(p) # <<>> => ArgsOf(p)[1] \in S)
  <2>1. CASE rest = <<>>
    <3>1. rest \in Seq({ArgsOf(p)[1]})
      BY <2>1, EmptySeq
    <3>. QED  BY <3>1
  <2>2. ASSUME NEW b, rest = <<b>>
        PROVE  \E S : rest \in Seq(S) /\ (ArgsOf(p) # <<>> => ArgsOf(p)[1] \in S)
    <3>1. b \in {b, ArgsOf(p)[1]} /\ ArgsOf(p)[1] \in {b, ArgsOf(p)[1]}
      OBVIOUS
    <3>2. <<b>> \in Seq({b, ArgsOf(p)[1]})
      BY <3>1, ShortSeqs
    <3>. QED  BY <2>2, <3>1, <3>2
  <2>. QED  BY <2>1, <2>2 DEF Short
<1>. PICK S : rest \in Seq(S) /\ (ArgsOf(p) # <<>> => ArgsOf(p)[1] \in S)
  BY <1>1
<1>2. CASE ArgsOf(p) = <<>>
  BY <1>2, ConcatEmptySeq DEF Takes
<1>3. CASE ArgsOf(p) # <<>>
  <2>. PICK a : a = ArgsOf(p)[1]
    OBVIOUS
  <2>1. ArgsOf(p) = <<a>>
    BY <1>3, ConvertedIs DEF FmtOf, ArgsOf
  <2>2. Head(<<a>> \o rest) = a /\ Tail(<<a>> \o rest) = rest
    BY <1>3, ConsParts
  <2>. QED  BY <1>3, <2>1, <2>2 DEF Takes
<1>. QED  BY <1>2, <1>3

LEMMA LastArgs ==
  ASSUME NEW p \in Numbers \cup Texts
  PROVE  Short(ArgsOf(p)) /\ Takes(p, ArgsOf(p), <<>>)
<1>1. CASE ArgsOf(p) = <<>>
  BY <1>1 DEF Short, Takes
<1>2. CASE ArgsOf(p) # <<>>
  <2>. PICK a : a = ArgsOf(p)[1]
    OBVIOUS
  <2>1. ArgsOf(p) = <<a>>
    BY <1>2, ConvertedIs DEF FmtOf, ArgsOf
  <2>2. Head(<<a>>) = a /\ Tail(<<a>>) = <<>>
    OBVIOUS
  <2>. QED  BY <1>2, <2>1, <2>2 DEF Short, Takes
<1>. QED  BY <1>1, <1>2

\* The first round, of the piece p.
LEMMA FirstPiece ==
  ASSUME NEW p \in Numbers \cup Texts, NEW k \in Nat, k = Len(FmtOf(p)),
         NEW fmt, NEW n \in Nat, n = Len(fmt), HasAt(fmt, 1, FmtOf(p)),
         NEW args, NEW rest, Takes(p, args, rest), NEW g, IsPrintf(fmt, args, g)
  PROVE  g[1] = At(1 + k, rest, Printed(p))
<1>1. g[0 + 1] = FormatRound(fmt, g[0])
  BY DEF IsPrintf, FormatRounds
<1>2. g[0] = At(1, args, <<>>)
  BY DEF IsPrintf
<1>3. <<>> \in Seq(Sent) /\ <<>> \o Printed(p) = Printed(p)
  BY EmptySeq, PrintedIsSeq, ConcatEmptySeq
<1>4. PieceAt(p, fmt, 1, 1 + k)
  BY DEF PieceAt
<1>5. PICK z \in Seq(Sent) : z = <<>>
  BY <1>3
<1>6. FormatRound(fmt, At(1, args, z)) = At(1 + k, rest, z \o Printed(p))
  BY <1>4, PieceRound
<1>. QED  BY <1>1, <1>2, <1>3, <1>5, <1>6

LEMMA PrintsOne ==
  ASSUME NEW p \in Numbers \cup Texts
  PROVE  printf(FmtOf(p), ArgsOf(p)) = Printed(p)
<1>. PICK k \in Nat : k = Len(FmtOf(p)) /\ k >= 1
  BY FmtFacts
<1>1. HasAt(FmtOf(p), 1, FmtOf(p)) /\ Takes(p, ArgsOf(p), <<>>)
  BY FmtFacts, LastArgs
<1>. PICK g : IsPrintf(FmtOf(p), ArgsOf(p), g)
  BY PrintfRuns
<1>2. g[1] = At(1 + k, <<>>, Printed(p))
  BY <1>1, FirstPiece
<1>3. 1 + k \in Nat /\ 1 + k > k
  OBVIOUS
<1>. QED  BY <1>2, <1>3, PrintfStops

\* A piece, and then the stray % or a piece.
IsNext(q) == q = Piece(<<"%">>, <<>>) \/ q \in Numbers \cup Texts

LEMMA NextFacts ==
  ASSUME NEW q, IsNext(q)
  PROVE  /\ FmtOf(q) \in Seq(Chars) /\ Short(ArgsOf(q))
         /\ \E l \in Nat : l = Len(FmtOf(q)) /\ l >= 1
         /\ q \in Numbers \cup Texts \/ /\ FmtOf(q) = <<"%">> /\ ArgsOf(q) = <<>>
                                        /\ Printed(q) = <<>>
<1>1. CASE q = Piece(<<"%">>, <<>>)
  <2>1. FmtOf(q) = <<"%">> /\ ArgsOf(q) = <<>>
    BY <1>1 DEF Piece, FmtOf, ArgsOf
  <2>2. Printed(q) = <<>>
    BY <2>1, PrintedIs DEF FmtOf, ArgsOf
  <2>3. "%" \in Chars
    BY DEF Chars
  <2>4. <<"%">> \in Seq(Chars) /\ Len(<<"%">>) = 1
    BY <2>3, ShortSeqs
  <2>5. 1 \in Nat /\ 1 = Len(FmtOf(q)) /\ 1 >= 1
    BY <2>1, <2>4
  <2>6. Short(ArgsOf(q))
    BY <2>1 DEF Short
  <2>. QED  BY <2>1, <2>2, <2>4, <2>5, <2>6
<1>2. CASE q \in Numbers \cup Texts
  <2>1. Short(ArgsOf(q))
    BY <1>2, LastArgs
  <2>. QED  BY <1>2, <2>1, FmtFacts
<1>. QED  BY <1>1, <1>2 DEF IsNext

LEMMA SecondPiece ==
  ASSUME NEW q, IsNext(q), NEW l \in Nat, l = Len(FmtOf(q)),
         NEW fmt, NEW n \in Nat, n = Len(fmt), NEW k \in Nat, n = k + l,
         NEW f, HasParts(fmt, f, k, FmtOf(q), l),
         NEW s \in Seq(Sent)
  PROVE  FormatRound(fmt, At(1 + k, ArgsOf(q), s)) = At(n + 1, <<>>, s \o Printed(q))
<1>1. PICK i : i \in Nat /\ i = 1 + k
  OBVIOUS
<1>2. PICK j : j \in Nat /\ j = n + 1 /\ j = i + l
  BY <1>1
<1>3. CASE q \in Numbers \cup Texts
  <2>1. PieceAt(q, fmt, i, j)
    BY <1>1, <1>2, <1>3, FmtFacts DEF HasParts, PieceAt
  <2>2. Takes(q, ArgsOf(q), <<>>)
    BY <1>3, LastArgs
  <2>3. FormatRound(fmt, At(i, ArgsOf(q), s)) = At(j, <<>>, s \o Printed(q))
    BY <2>1, <2>2, PieceRound
  <2>. QED  BY <1>1, <1>2, <2>3
<1>4. CASE FmtOf(q) = <<"%">> /\ ArgsOf(q) = <<>> /\ Printed(q) = <<>>
  <2>1. l = 1 /\ FmtOf(q)[1] = "%"
    BY <1>4
  <2>2. fmt[k + 1] = FmtOf(q)[1]
    BY <2>1 DEF HasParts
  <2>3. IsStray(fmt, i) /\ j = i + 1
    BY <1>1, <1>2, <2>1, <2>2 DEF IsStray
  <2>4. FormatRound(fmt, At(i, <<>>, s)) = At(j, <<>>, s)
    BY <1>1, <1>2, <2>3, StrayRound
  <2>5. s \o <<>> = s
    BY ConcatEmptySeq
  <2>. QED  BY <1>1, <1>2, <1>4, <2>4, <2>5
<1>. QED  BY <1>3, <1>4, NextFacts

LEMMA PrintsTwo ==
  ASSUME NEW p \in Numbers \cup Texts, NEW q, IsNext(q)
  PROVE  printf(FmtOf(p) \o FmtOf(q), ArgsOf(p) \o ArgsOf(q)) = Printed(p) \o Printed(q)
<1>1. PICK k : k \in Nat /\ k = Len(FmtOf(p)) /\ k >= 1
  BY FmtFacts
<1>2. PICK l : l \in Nat /\ l = Len(FmtOf(q)) /\ l >= 1
  BY NextFacts
<1>3. PICK n : n \in Nat /\ n = k + l /\ 2 <= n
  <2>1. k + l \in Nat /\ 2 <= k + l
    BY <1>1, <1>2
  <2>. QED  BY <2>1
<1>4. PICK fmt : fmt = FmtOf(p) \o FmtOf(q)
  OBVIOUS
<1>5. PICK args : args = ArgsOf(p) \o ArgsOf(q)
  OBVIOUS
<1>6. HasParts(fmt, FmtOf(p), k, FmtOf(q), l)
  BY <1>1, <1>2, <1>4, FmtFacts, NextFacts, HasAtConcat
<1>7. n = Len(fmt) /\ HasAt(fmt, 1, FmtOf(p))
  BY <1>3, <1>6, FmtFacts DEF HasParts
<1>8. PICK g : IsPrintf(fmt, args, g)
  BY PrintfRuns
<1>9. g[1] = At(1 + k, ArgsOf(q), Printed(p))
  <2>1. Takes(p, args, ArgsOf(q))
    BY <1>5, NextFacts, ArgsParts
  <2>. QED  BY <1>1, <1>3, <1>7, <1>8, <2>1, FirstPiece
<1>10. g[1 + 1] = FormatRound(fmt, g[1])
  BY <1>8 DEF IsPrintf, FormatRounds
<1>11. PICK s : s \in Seq(Sent) /\ s = Printed(p)
  BY PrintedIsSeq
<1>12. FormatRound(fmt, At(1 + k, ArgsOf(q), s)) = At(n + 1, <<>>, s \o Printed(q))
  BY <1>1, <1>2, <1>3, <1>6, <1>7, <1>11, SecondPiece
<1>13. g[2] = At(n + 1, <<>>, s \o Printed(q))
  <2>1. 1 + 1 = 2
    OBVIOUS
  <2>. QED  BY <1>9, <1>10, <1>11, <1>12, <2>1
<1>14. PICK j : j \in Nat /\ j = n + 1 /\ j > n
  BY <1>3
<1>15. printf(fmt, args) = s \o Printed(q)
  BY <1>3, <1>7, <1>8, <1>13, <1>14, PrintfStops
<1>. QED  BY <1>4, <1>5, <1>11, <1>15

-------------------------------------------------------------------------
(* What printf prints is what it should print but for wide addresses.    *)

\* Two pairs of pieces that print alike, none of the first pair longer.
LEMMA ConcatSplits ==
  ASSUME NEW S, NEW a \in Seq(S), NEW b \in Seq(S), NEW c \in Seq(S), NEW d \in Seq(S),
         Len(a) <= Len(c), Len(b) <= Len(d), a \o b = c \o d
  PROVE  a = c /\ b = d
<1>. PICK k \in Nat, l \in Nat, m \in Nat, n \in Nat :
       k = Len(a) /\ l = Len(b) /\ m = Len(c) /\ n = Len(d)
  BY LenProperties
<1>. PICK z : z = a \o b /\ z = c \o d
  OBVIOUS
<1>1. /\ Len(z) = k + l
      /\ \A i \in 1 .. k + l : z[i] = IF i <= k THEN a[i] ELSE b[i - k]
  <2>1. /\ Len(a \o b) = Len(a) + Len(b)
        /\ \A i \in 1 .. Len(a) + Len(b) :
             (a \o b)[i] = IF i <= Len(a) THEN a[i] ELSE b[i - Len(a)]
    BY ConcatProperties
  <2>. QED  BY <2>1, Zenon
<1>2. /\ Len(z) = m + n
      /\ \A i \in 1 .. m + n : z[i] = IF i <= m THEN c[i] ELSE d[i - m]
  <2>1. /\ Len(c \o d) = Len(c) + Len(d)
        /\ \A i \in 1 .. Len(c) + Len(d) :
             (c \o d)[i] = IF i <= Len(c) THEN c[i] ELSE d[i - Len(c)]
    BY ConcatProperties
  <2>. QED  BY <2>1, Zenon
<1>3. k = m /\ l = n
  BY <1>1, <1>2
<1>4. \A i \in 1 .. k : a[i] = c[i]
  BY <1>1, <1>2, <1>3
<1>5. ASSUME NEW i \in 1 .. l
      PROVE  b[i] = d[i]
  <2>1. k + i \in 1 .. k + l /\ ~ (k + i <= k) /\ (k + i) - k = i
    OBVIOUS
  <2>. QED  BY <1>1, <1>2, <1>3, <2>1
<1>6. a = c
  BY <1>3, <1>4, SeqEqual
<1>7. b = d
  BY <1>3, <1>5, SeqEqual
<1>. QED  BY <1>6, <1>7

LEMMA ExpectedIsPrinted ==
  ASSUME NEW q, IsNext(q)
  PROVE  /\ Printed(q) \in Seq(Sent) /\ Expected(q) \in Seq(Sent)
         /\ Len(Printed(q)) <= Len(Expected(q))
         /\ Printed(q) = Expected(q) <=> Fits(q)
<1>1. <<"0", "x">> \in Seq(Sent) /\ Len(<<"0", "x">>) = 2
  <2>1. "0" \in Sent /\ "x" \in Sent
    BY DEF Letters, Sent
  <2>. QED  BY <2>1
<1>2. Printed(q) \in Seq(Sent)
  BY NextFacts, PrintedIsSeq, EmptySeq
<1>3. CASE FmtOf(q) # <<"%", "p">>
  <2>1. Printed(q) = Expected(q) /\ Fits(q)
    BY <1>3 DEF Printed, Fits, FmtOf
  <2>. QED  BY <1>2, <2>1
<1>4. ASSUME NEW x \in Long, IsNumber(q, "p", x)
      PROVE  /\ Expected(q) \in Seq(Sent)
             /\ Len(Printed(q)) <= Len(Expected(q))
             /\ Printed(q) = Expected(q) <=> Fits(q)
  <2>. PICK m \in Nat \ {0}, y \in Int : m = IntMod /\ y = x % m /\ y \in 0 .. m - 1
    <3>1. PICK m \in Nat \ {0} : m = IntMod
      BY LongFacts
    <3>2. x % m \in 0 .. m - 1 /\ x % m \in Int
      BY LongFacts, ModFacts
    <3>. QED  BY <3>1, <3>2
  <2>1. y <= x /\ y \in Long /\ x \in Nat /\ y \in Nat
    <3>1. x \in Nat
      BY LongFacts
    <3>2. x % m <= x
      BY <3>1, RemainderIsLess
    <3>. QED  BY <3>1, <3>2, LongFacts
  <2>2. x < m <=> y = x
    <3>1. x < m => x % m = x
      <4>1. x \in Int /\ 0 <= x
        BY <2>1
      <4>. QED  BY <4>1, ModFacts
    <3>2. y < m
      OBVIOUS
    <3>. QED  BY <3>1, <3>2
  <2>. PICK s \in Seq(Sent), t \in Seq(Sent) :
         /\ s = Numeral(y, 16) /\ t = Numeral(x, 16)
         /\ Len(s) = NDigits(y, 16) /\ Len(t) = NDigits(x, 16)
    BY <2>1, NumeralIsSeq
  <2>3. Len(s) <= Len(t)
    BY <2>1, DigitsGrow
  <2>4. Expected(q) = <<"0", "x">> \o t
    BY <1>4 DEF IsNumber, Expected
  <2>5. Printed(q) = <<"0", "x">> \o s
    BY <1>4, PrintedIs
  <2>. PICK h \in Seq(Sent) : h = <<"0", "x">> /\ Len(h) = 2
    BY <1>1
  <2>6. /\ h \o t \in Seq(Sent) /\ Len(h \o t) = 2 + Len(t)
        /\ h \o s \in Seq(Sent) /\ Len(h \o s) = 2 + Len(s)
    <3>1. \A z \in Seq(Sent) : h \o z \in Seq(Sent) /\ Len(h \o z) = Len(h) + Len(z)
      BY ConcatProperties
    <3>. QED  BY <3>1
  <2>7. h \o s = h \o t <=> s = t
    <3>1. Len(h) <= Len(h)
      OBVIOUS
    <3>. QED  BY <2>3, <3>1, ConcatSplits
  <2>8. s = t <=> x < m
    BY <2>1, <2>2, NumeralsDiffer
  <2>9. Fits(q) <=> x < m
    BY <1>4 DEF IsNumber, Fits
  <2>10. Len(h \o s) <= Len(h \o t)
    BY <2>3, <2>6, LenProperties
  <2>. QED  BY <2>4, <2>5, <2>6, <2>7, <2>8, <2>9, <2>10
<1>5. FmtOf(q) = <<"%", "p">> => \E x \in Long : IsNumber(q, "p", x)
  BY NextFacts, PieceForms DEF IsNumber, FmtOf, ArgsOf
<1>. QED  BY <1>2, <1>3, <1>4, <1>5

\* What printf is called with.
SaidInv == said \in {<<>>} \cup Single \cup Pairs \cup Stray

\* Every number that an int holds is printed in full, no other address is,
\* and every conversion takes its own argument and no other, for every width
\* of int and long (printf, printint).
THEOREM PrintsAreFaithful == MCSpec => []PrintsValue
<1>1. MCInit => SaidInv
  BY DEF MCInit, SaidInv
<1>2. SaidInv /\ [MCNext]_<<vars, said>> => SaidInv'
  BY DEF SaidInv, MCNext, Single, Pairs, Stray
<1>3. SaidInv => PrintsValue
  <2>1. ASSUME NEW p \in Numbers \cup Texts, said = <<p>>
        PROVE  PrintsValue
    <3>1. printf(FmtOf(p), ArgsOf(p)) = Printed(p)
      BY PrintsOne
    <3>2. Printed(p) = Expected(p) <=> Fits(p)
      BY ExpectedIsPrinted DEF IsNext
    <3>3. (\A i \in DOMAIN said : Fits(said[i])) <=> Fits(p)
      BY <2>1
    <3>4. /\ All(FmtOf) = FmtOf(p) /\ All(ArgsOf) = ArgsOf(p)
          /\ All(Expected) = Expected(p)
      BY <2>1 DEF All
    <3>5. PrintsValue <=> (printf(All(FmtOf), All(ArgsOf)) = All(Expected)
                             <=> \A i \in DOMAIN said : Fits(said[i]))
      BY <2>1 DEF PrintsValue, All, FmtOf, ArgsOf
    <3>. QED  BY <3>1, <3>2, <3>3, <3>4, <3>5
  <2>2. ASSUME NEW p \in Numbers \cup Texts, NEW q, IsNext(q), said = <<p, q>>
        PROVE  PrintsValue
    <3>1. printf(FmtOf(p) \o FmtOf(q), ArgsOf(p) \o ArgsOf(q))
            = Printed(p) \o Printed(q)
      BY <2>2, PrintsTwo
    <3>2. /\ Printed(p) \in Seq(Sent) /\ Expected(p) \in Seq(Sent)
          /\ Len(Printed(p)) <= Len(Expected(p))
          /\ Printed(p) = Expected(p) <=> Fits(p)
      BY ExpectedIsPrinted DEF IsNext
    <3>3. /\ Printed(q) \in Seq(Sent) /\ Expected(q) \in Seq(Sent)
          /\ Len(Printed(q)) <= Len(Expected(q))
          /\ Printed(q) = Expected(q) <=> Fits(q)
      BY <2>2, ExpectedIsPrinted
    <3>4. Printed(p) \o Printed(q) = Expected(p) \o Expected(q)
            <=> Fits(p) /\ Fits(q)
      <4>1. ASSUME Printed(p) \o Printed(q) = Expected(p) \o Expected(q)
            PROVE  Fits(p) /\ Fits(q)
        <5>1. Printed(p) = Expected(p) /\ Printed(q) = Expected(q)
          BY <3>2, <3>3, <4>1, ConcatSplits
        <5>. QED  BY <3>2, <3>3, <5>1
      <4>. QED  BY <3>2, <3>3, <4>1
    <3>5. (\A i \in DOMAIN said : Fits(said[i])) <=> Fits(p) /\ Fits(q)
      <4>1. DOMAIN said = {1, 2} /\ said[1] = p /\ said[2] = q
        BY <2>2
      <4>. QED  BY <4>1
    <3>6. /\ All(FmtOf) = FmtOf(p) \o FmtOf(q) /\ All(ArgsOf) = ArgsOf(p) \o ArgsOf(q)
          /\ All(Expected) = Expected(p) \o Expected(q)
      BY <2>2 DEF All
    <3>7. PrintsValue <=> (printf(All(FmtOf), All(ArgsOf)) = All(Expected)
                             <=> \A i \in DOMAIN said : Fits(said[i]))
      BY <2>2 DEF PrintsValue, All, FmtOf, ArgsOf
    <3>. QED  BY <3>1, <3>4, <3>5, <3>6, <3>7
  <2>3. SaidInv =>
          \/ said = <<>>
          \/ \E p \in Numbers \cup Texts : said = <<p>>
          \/ \E p \in Numbers \cup Texts : \E q : IsNext(q) /\ said = <<p, q>>
    BY DEF SaidInv, Single, Pairs, Stray, Edges, IsNext
  <2>4. said = <<>> => PrintsValue
    BY DEF PrintsValue
  <2>. QED  BY <2>1, <2>2, <2>3, <2>4
<1>. QED  BY <1>1, <1>2, <1>3, PTL DEF MCSpec

=========================================================================
