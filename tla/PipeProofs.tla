--------------------------- MODULE PipeProofs ---------------------------
(***************************************************************************)
(* Theorems about Pipe, for every size of the buffer, width of the         *)
(* counters and length of the calls: the writer and the reader never run   *)
(* into each other, and the pipe implements the queue of AbsPipe.          *)
(***************************************************************************)
EXTENDS Pipe, DataLemmas

\* What a call still has to move fits, and its locals agree.
LocalsOK ==
  /\ wpc \in {"idle", "room"} => written = 0
  /\ wpc = "idle" => Len(src) = 0
  /\ written <= Len(src)
  /\ wpc = "advance" => written < Len(src)
  /\ rpc = "idle" => n = 0
  /\ readn <= n
  /\ rpc = "advance" => readn < n
  /\ Len(dst) = readn + (IF rpc = "advance" THEN RChunk ELSE 0)

\* The inductive invariant.
PipeInv == TypeOK /\ LocalsOK /\ EndsApart

-------------------------------------------------------------------------
\* Arithmetic of the counters.

LEMMA SubValue ==
  ASSUME NEW x \in Word, NEW y \in Word
  PROVE  Sub(x, y) = IF x >= y THEN x - y ELSE x - y + WordMod
<1>1. /\ WordMod \in Nat \ {0} /\ x - y \in Int
      /\ -WordMod <= x - y /\ x - y < WordMod
  BY WordAssumption, SizeAssumption DEF Word
<1>2. /\ 0 <= x - y /\ x - y < WordMod => (x - y) % WordMod = x - y
      /\ -WordMod <= x - y /\ x - y < 0
           => (x - y) % WordMod = x - y + WordMod
  BY <1>1, ModFacts
<1>. QED  BY <1>1, <1>2 DEF Sub, Word

LEMMA IncValue ==
  ASSUME NEW x \in Word, NEW k \in Nat, k <= WordMod
  PROVE  Inc(x, k) = IF x + k < WordMod THEN x + k ELSE x + k - WordMod
<1>1. PICK a \in Int : a = x + k
  BY DEF Word
<1>2. WordMod \in Nat \ {0} /\ 0 <= a /\ a - WordMod < WordMod
  BY <1>1, WordAssumption, SizeAssumption DEF Word
<1>3. /\ a < WordMod => a % WordMod = a
      /\ WordMod <= a => a % WordMod = a - WordMod
  BY <1>2, ModFacts
<1>. QED  BY <1>1, <1>2, <1>3 DEF Inc, Word

\* The number of bytes in the pipe, when either end moves on by k.
LEMMA AvailableMoves ==
  ASSUME NEW x \in Word, NEW y \in Word, NEW k \in Nat, k <= Size
  PROVE  /\ Sub(x, y) \in Word
         /\ Inc(x, k) \in Word
         /\ Sub(x, y) + k <= Size => Sub(Inc(x, k), y) = Sub(x, y) + k
         /\ k <= Sub(x, y) => Sub(x, Inc(y, k)) = Sub(x, y) - k
<1>1. k <= WordMod /\ WordMod \in Nat /\ WordMod > Size /\ Size \in Nat
  BY WordAssumption, SizeAssumption
<1>2. Sub(x, y) = IF x >= y THEN x - y ELSE x - y + WordMod
  BY SubValue
<1>3. Inc(x, k) = IF x + k < WordMod THEN x + k ELSE x + k - WordMod
  BY <1>1, IncValue
<1>4. Inc(y, k) = IF y + k < WordMod THEN y + k ELSE y + k - WordMod
  BY <1>1, IncValue
<1>5. Inc(x, k) \in Word /\ Inc(y, k) \in Word
  BY <1>1, <1>3, <1>4 DEF Word
<1>6. Sub(Inc(x, k), y) = IF Inc(x, k) >= y THEN Inc(x, k) - y
                          ELSE Inc(x, k) - y + WordMod
  BY <1>5, SubValue
<1>7. Sub(x, Inc(y, k)) = IF x >= Inc(y, k) THEN x - Inc(y, k)
                          ELSE x - Inc(y, k) + WordMod
  BY <1>5, SubValue
<1>. QED  BY <1>1, <1>2, <1>3, <1>4, <1>5, <1>6, <1>7 DEF Word

\* A chunk is not empty while there is something to move, stays inside the
\* array and inside the buffer of the call.
LEMMA ChunkFacts ==
  ASSUME TypeOK
  PROVE  /\ written < Len(src)
              => /\ WChunk \in 1 .. Size
                 /\ (nwrite % Size) + WChunk <= Size
                 /\ written + WChunk <= Len(src)
         /\ readn < n
              => /\ RChunk \in 1 .. Size
                 /\ (nread % Size) + RChunk <= Size
                 /\ readn + RChunk <= n
<1>1. /\ nwrite \in Int /\ nread \in Int /\ Size \in Nat \ {0}
      /\ n \in Int /\ readn \in Int /\ written \in Int
  BY SizeAssumption, CountAssumption, WordAssumption DEF TypeOK, Word
<1>2. Len(src) \in Nat
  BY LenProperties DEF TypeOK
<1>3. nwrite % Size \in 0 .. Size - 1 /\ nread % Size \in 0 .. Size - 1
  BY <1>1, ModFacts
<1>. QED  BY <1>1, <1>2, <1>3 DEF WChunk, RChunk, Least

-------------------------------------------------------------------------
\* The invariant holds initially and every step preserves it.

LEMMA StringLength ==
  ASSUME NEW k \in Nat, NEW s \in [1 .. k -> Byte]
  PROVE  s \in Seq(Byte) /\ Len(s) = k
BY FunctionIsSeq

LEMMA StringFacts ==
  ASSUME NEW m \in Nat, NEW s \in Strings(m)
  PROVE  s \in Seq(Byte) /\ Len(s) \in Nat /\ Len(s) <= m
<1>1. PICK k \in 0 .. m : s \in [1 .. k -> Byte]
  BY DEF Strings
<1>. QED  BY <1>1, StringLength

LEMMA InvInit == Init => PipeInv
<1>. SUFFICES ASSUME Init
              PROVE  PipeInv
  OBVIOUS
<1>. USE DEF Init
<1>1. 0 \in Word /\ Size \in Nat /\ MaxWrite \in Nat /\ MaxRead \in Nat
  BY WordAssumption, SizeAssumption, CountAssumption DEF Word
<1>2. <<>> \in Seq(Byte) /\ Len(<<>>) = 0
  BY EmptySeq
<1>3. Available = 0
  BY <1>1, SubValue DEF Available
<1>. QED  BY <1>1, <1>2, <1>3, ByteAssumption
          DEF PipeInv, TypeOK, LocalsOK, EndsApart

\* copyin stores bytes.
LEMMA CopyInType ==
  ASSUME TypeOK, written < Len(src), CopyIn(WChunk)
  PROVE  data' \in [0 .. Size - 1 -> Byte]
<1>1. src \in [1 .. Len(src) -> Byte] /\ Len(src) \in Nat
  BY LenProperties DEF TypeOK
<1>2. written \in Nat
  BY CountAssumption DEF TypeOK
<1>3. WChunk \in Nat /\ written + WChunk <= Len(src)
  BY ChunkFacts
<1>4. \A j \in 0 .. WChunk - 1 : src[written + j + 1] \in Byte
  BY <1>1, <1>2, <1>3
<1>. QED  BY <1>4 DEF CopyIn, TypeOK

\* Every step of either end preserves it.
LEMMA InvStep == PipeInv /\ [Next]_vars => PipeInv'
<1>. SUFFICES ASSUME PipeInv, [Next]_vars
              PROVE  PipeInv'
  OBVIOUS
<1>. USE DEF PipeInv
<1>1. /\ WordMod \in Nat /\ WordMod > Size /\ Size \in Nat \ {0}
      /\ MaxWrite \in Nat /\ MaxRead \in Nat
  BY WordAssumption, SizeAssumption, CountAssumption
<1>2. <<>> \in Seq(Byte) /\ Len(<<>>) = 0
  BY EmptySeq
<1>3. /\ nread \in Word /\ nwrite \in Word
      /\ Available \in Word /\ Available \in Nat /\ Room \in Int
      /\ Len(src) \in Nat /\ Len(dst) \in Nat
      /\ src \in [1 .. Len(src) -> Byte]
  <2>1. nread \in Word /\ nwrite \in Word /\ 0 \in Nat /\ 0 <= Size
    BY <1>1 DEF TypeOK
  <2>2. Sub(nwrite, nread) \in Word
    BY <2>1, AvailableMoves
  <2>3. Word \subseteq Nat
    BY <1>1 DEF Word
  <2>4. /\ Len(src) \in Nat /\ Len(dst) \in Nat
        /\ src \in [1 .. Len(src) -> Byte]
    BY LenProperties DEF TypeOK
  <2>5. Sub(nwrite, nread) \in Nat
    BY <2>2, <2>3
  <2>. QED  BY <1>1, <2>1, <2>2, <2>4, <2>5 DEF Available, Room
<1>4. ASSUME WriteCall
      PROVE  PipeInv'
  <2>1. src' \in Seq(Byte) /\ Len(src') \in Nat /\ Len(src') <= MaxWrite
    BY <1>1, <1>4, StringFacts DEF WriteCall
  <2>2. TypeOK'
    BY <1>1, <1>4, <2>1 DEF TypeOK, WriteCall, reader
  <2>3. LocalsOK' /\ EndsApart'
    BY <1>1, <1>3, <1>4, <2>1 DEF LocalsOK, EndsApart, Available, Room, RChunk,
       WriteCall, reader
  <2>. QED  BY <2>2, <2>3
<1>5. ASSUME WriteRefused \/ WriteReturn \/ WriteFault
      PROVE  PipeInv'
  <2>1. data' \in [0 .. Size - 1 -> Byte]
    <3>1. CASE WriteRefused \/ WriteReturn
      BY <3>1 DEF WriteRefused, WriteReturn, TypeOK
    <3>2. CASE WriteFault
      BY <3>2, CopyInType DEF WriteFault
    <3>. QED  BY <1>5, <3>1, <3>2
  <2>2. /\ wpc' = "idle" /\ wres' \in {"ok", "failed"}
        /\ src' = <<>> /\ wmapped' = 0 /\ written' = 0
        /\ UNCHANGED <<nread, nwrite, reader>>
    BY <1>5 DEF WriteRefused, WriteReturn, WriteFault, EndWrite
  <2>3. src' \in Seq(Byte) /\ Len(src') = 0
    BY <1>2, <2>2
  <2>4. TypeOK'
    BY <1>1, <2>1, <2>2, <2>3 DEF TypeOK, reader
  <2>5. LocalsOK' /\ EndsApart'
    BY <1>3, <2>2, <2>3 DEF LocalsOK, EndsApart, Available, Room, RChunk, reader
  <2>. QED  BY <2>4, <2>5
<1>6. ASSUME WriteFits
      PROVE  PipeInv'
  <2>1. TypeOK'
    BY <1>6 DEF TypeOK, WriteFits, reader
  <2>2. LocalsOK' /\ EndsApart'
    BY <1>3, <1>6 DEF LocalsOK, EndsApart, Available, Room, RChunk, WriteFits,
       reader
  <2>. QED  BY <2>1, <2>2
<1>7. ASSUME WriteCopy
      PROVE  PipeInv'
  <2>1. data' \in [0 .. Size - 1 -> Byte]
    BY <1>7, CopyInType DEF WriteCopy
  <2>2. TypeOK'
    BY <1>7, <2>1 DEF TypeOK, WriteCopy, reader
  <2>3. LocalsOK' /\ EndsApart'
    BY <1>3, <1>7 DEF LocalsOK, EndsApart, Available, Room, RChunk, WriteCopy,
       reader
  <2>. QED  BY <2>2, <2>3
<1>8. ASSUME WriteAdvance
      PROVE  PipeInv'
  <2>1. written < Len(src)
    BY <1>8 DEF LocalsOK, WriteAdvance
  <2>2. PICK k \in Nat : k = WChunk
    BY <2>1, ChunkFacts
  <2>3. k \in 1 .. Size /\ written + k <= Len(src) /\ k <= Room
    BY <1>3, <1>8, <2>1, <2>2, ChunkFacts DEF EndsApart, WriteAdvance, TypeOK
  <2>4. nwrite' \in Word /\ Available' = Available + k
    <3>1. nwrite' = Inc(nwrite, k) /\ nread' = nread
      BY <1>8, <2>2 DEF WriteAdvance
    <3>2. Available + k <= Size /\ k <= Size
      BY <1>1, <1>3, <2>3 DEF Room, Available
    <3>. QED  BY <1>3, <3>1, <3>2, AvailableMoves DEF Available
  <2>5. TypeOK'
    <3>1. written' \in 0 .. MaxWrite
      BY <1>1, <1>3, <1>8, <2>2, <2>3 DEF TypeOK, WriteAdvance
    <3>. QED  BY <1>8, <2>4, <3>1 DEF TypeOK, WriteAdvance, reader
  <2>6. LocalsOK'
    BY <1>3, <1>8, <2>2, <2>3 DEF LocalsOK, RChunk, WriteAdvance, reader, TypeOK
  <2>7. Room' = Room - k
    BY <1>1, <1>3, <2>4 DEF Room, Available
  <2>8. EndsApart'
    BY <1>1, <1>3, <1>8, <2>2, <2>3, <2>4, <2>7
       DEF EndsApart, Room, Available, WriteAdvance, reader, TypeOK
  <2>. QED  BY <2>5, <2>6, <2>8
<1>9. ASSUME ReadCall
      PROVE  PipeInv'
  <2>1. TypeOK'
    BY <1>1, <1>2, <1>9 DEF TypeOK, ReadCall, writer
  <2>2. LocalsOK' /\ EndsApart'
    BY <1>1, <1>2, <1>3, <1>9 DEF LocalsOK, EndsApart, Available, Room,
       ReadCall, writer
  <2>. QED  BY <2>1, <2>2
<1>10. ASSUME ReadReady
       PROVE  PipeInv'
  <2>1. TypeOK'
    BY <1>10 DEF TypeOK, ReadReady, writer
  <2>2. LocalsOK' /\ EndsApart'
    BY <1>3, <1>10 DEF LocalsOK, EndsApart, Available, Room, RChunk, ReadReady,
       writer, TypeOK
  <2>. QED  BY <2>1, <2>2
<1>11. ASSUME ReadCopy
       PROVE  PipeInv'
  <2>. DEFINE c == RChunk
              t == [i \in 1 .. c |-> data[(nread % Size) + i - 1]]
  <2>1. c \in 1 .. Size /\ (nread % Size) + c <= Size /\ readn + c <= n
    BY <1>11, ChunkFacts DEF ReadCopy
  <2>2. \A i \in 1 .. c : (nread % Size) + i - 1 \in 0 .. Size - 1
    <3>1. nread \in Int
      BY <1>1, <1>3 DEF Word
    <3>2. nread % Size \in 0 .. Size - 1
      BY <1>1, <3>1, ModFacts
    <3>. QED  BY <1>1, <2>1, <3>2
  <2>3. t \in [1 .. c -> Byte]
    BY <2>2 DEF TypeOK
  <2>4. t \in Seq(Byte) /\ Len(t) = c
    BY <2>1, <2>3, StringFacts, StringLength DEF Strings
  <2>5. dst' = dst \o t /\ Len(dst) = readn
    <3>1. readn \in Int
      BY <1>1 DEF TypeOK
    <3>2. rpc # "advance"
      BY <1>11 DEF ReadCopy
    <3>3. Len(dst) = readn
      BY <3>1, <3>2 DEF LocalsOK
    <3>. QED  BY <1>11, <3>3 DEF ReadCopy
  <2>. HIDE DEF t, c
  <2>6. dst' \in Seq(Byte) /\ Len(dst') = readn + c
    BY <2>4, <2>5, ConcatProperties DEF TypeOK
  <2>7. TypeOK'
    <3>1. Len(dst') <= MaxRead
      BY <1>1, <2>1, <2>6 DEF TypeOK
    <3>. QED  BY <1>11, <2>6, <3>1 DEF TypeOK, ReadCopy, writer
  <2>8. LocalsOK' /\ EndsApart'
    BY <1>3, <1>11, <2>6 DEF LocalsOK, EndsApart, Available, Room, RChunk,
       ReadCopy, writer, TypeOK, c
  <2>. QED  BY <2>7, <2>8
<1>12. ASSUME ReadFault \/ ReadReturn
       PROVE  PipeInv'
  <2>1. /\ rpc' = "idle" /\ rres' \in {"ok", "failed"}
        /\ n' = 0 /\ rmapped' = 0 /\ dst' = <<>> /\ readn' = 0
        /\ UNCHANGED <<nread, nwrite, data, writer>>
    BY <1>12 DEF ReadFault, ReadReturn, EndRead
  <2>2. dst' \in Seq(Byte) /\ Len(dst') = 0
    BY <1>2, <2>1
  <2>3. TypeOK'
    BY <1>1, <2>1, <2>2 DEF TypeOK, writer
  <2>4. LocalsOK' /\ EndsApart'
    BY <1>3, <2>1, <2>2 DEF LocalsOK, EndsApart, Available, Room, writer
  <2>. QED  BY <2>3, <2>4
<1>13. ASSUME ReadAdvance
       PROVE  PipeInv'
  <2>1. readn < n
    BY <1>13 DEF LocalsOK, ReadAdvance
  <2>2. PICK k \in Nat : k = RChunk
    BY <2>1, ChunkFacts
  <2>3. k \in 1 .. Size /\ readn + k <= n /\ k <= Available
    BY <1>3, <1>13, <2>1, <2>2, ChunkFacts DEF EndsApart, ReadAdvance, TypeOK
  <2>4. nread' \in Word /\ Available' = Available - k
    <3>1. nread' = Inc(nread, k) /\ nwrite' = nwrite
      BY <1>13, <2>2 DEF ReadAdvance
    <3>2. k <= Size
      BY <1>1, <2>3
    <3>. QED  BY <1>3, <2>3, <3>1, <3>2, AvailableMoves DEF Available
  <2>5. TypeOK'
    BY <1>1, <1>13, <2>2, <2>3, <2>4 DEF TypeOK, ReadAdvance, writer
  <2>6. LocalsOK'
    BY <1>3, <1>13, <2>2, <2>3 DEF LocalsOK, ReadAdvance, writer, TypeOK
  <2>7. Room' = Room + k
    BY <1>1, <1>3, <2>4 DEF Room, Available
  <2>8. EndsApart'
    BY <1>1, <1>3, <1>13, <2>2, <2>3, <2>4, <2>7
       DEF EndsApart, Room, Available, ReadAdvance, writer, TypeOK
  <2>. QED  BY <2>5, <2>6, <2>8
<1>14. ASSUME UNCHANGED vars
       PROVE  PipeInv'
  BY <1>14 DEF TypeOK, LocalsOK, EndsApart, Available, Room, RChunk, vars,
     writer, reader
<1>. QED
  BY <1>4, <1>5, <1>6, <1>7, <1>8, <1>9, <1>10, <1>11, <1>12, <1>13, <1>14
     DEF Next, WriterKernel, ReaderKernel

-------------------------------------------------------------------------

\* The state of a pipe is type-correct: the counters stay words and the calls
\* stay within their buffers.
THEOREM TypeCorrect == Spec => []TypeOK
<1>1. PipeInv => TypeOK
  BY DEF PipeInv
<1>. QED  BY <1>1, InvInit, InvStep, PTL DEF Spec

\* The writer never overtakes the reader, nor the reader the writer, whatever
\* the sizes and wherever the two are preempted.
THEOREM EndsStayApart == Spec => []EndsApart
<1>1. PipeInv => EndsApart
  BY DEF PipeInv
<1>. QED  BY <1>1, InvInit, InvStep, PTL DEF Spec


-------------------------------------------------------------------------
(* The pipe implements the queue of AbsPipe.  What a chunk has copied      *)
(* stays in place until the counter moves over it.                         *)

InCall ==
  /\ wpc = "idle" <=> wres # "busy"
  /\ rpc = "idle" <=> rres # "busy"

Stored ==
  wpc = "advance" =>
    \A j \in 0 .. WChunk - 1 : data[(nwrite % Size) + j] = src[written + j + 1]

Fetched ==
  rpc = "advance" =>
    \A i \in 1 .. RChunk : dst[readn + i] = data[(nread % Size) + i - 1]

DataInv == InCall /\ Stored /\ Fetched

StateFacts ==
  /\ WordMod \in Nat \ {0} /\ WordMod % Size = 0 /\ Size \in Nat \ {0}
  /\ nread \in Nat /\ nwrite \in Nat /\ nread \in Word /\ nwrite \in Word
  /\ nread < WordMod /\ nwrite < WordMod
  /\ nread \in Int /\ nwrite \in Int /\ WordMod \in Int
  /\ Available \in Nat /\ Available <= Size
  /\ Len(src) \in Nat /\ Len(dst) \in Nat
  /\ written \in Nat /\ written <= Len(src)
  /\ readn \in Nat /\ n \in Nat /\ readn <= n

LEMMA StateTypes == PipeInv => StateFacts
<1>. SUFFICES ASSUME PipeInv
              PROVE  StateFacts
  OBVIOUS
<1>1. WordMod \in Nat \ {0} /\ WordMod % Size = 0 /\ Size \in Nat \ {0}
  BY WordAssumption, SizeAssumption
<1>2. nread \in Word /\ nwrite \in Word /\ 0 \in Nat /\ 0 <= Size
  BY <1>1 DEF PipeInv, TypeOK
<1>3. Sub(nwrite, nread) \in Word
  BY <1>2, AvailableMoves
<1>4. Len(src) \in Nat /\ Len(dst) \in Nat
  BY LenProperties DEF PipeInv, TypeOK
<1>. QED  BY <1>1, <1>2, <1>3, <1>4, CountAssumption
          DEF PipeInv, TypeOK, LocalsOK, EndsApart, Word, Available, StateFacts

\* The unread bytes and the chunk being written lie behind one another.
LEMMA TailCell ==
  ASSUME PipeInv, NEW j \in Nat, (nwrite % Size) + j < Size
  PROVE  (nread + Available + j) % Size = (nwrite % Size) + j
<1>0. StateFacts
  BY StateTypes
<1>. USE <1>0 DEF StateFacts
<1>1. (nwrite + j) % Size = (nwrite % Size) + j
  BY ChunkCell
<1>2. Available = IF nwrite >= nread THEN nwrite - nread
                  ELSE nwrite - nread + WordMod
  BY SubValue DEF Available
<1>3. PICK a \in Int : a = nwrite + j
  OBVIOUS
<1>4. (a + WordMod) % Size = a % Size
  BY AddMultiple
<1>5. nread + Available + j = a \/ nread + Available + j = a + WordMod
  BY <1>2, <1>3
<1>. QED  BY <1>1, <1>3, <1>4, <1>5

LEMMA CellsApart ==
  ASSUME PipeInv, wpc \in {"copy", "advance"}, written < Len(src),
         NEW i \in 1 .. Available, NEW j \in 0 .. WChunk - 1
  PROVE  (nread + i - 1) % Size # (nwrite % Size) + j
<1>0. StateFacts
  BY StateTypes
<1>. USE <1>0 DEF StateFacts
<1>1. /\ WChunk \in 1 .. Size /\ (nwrite % Size) + WChunk <= Size
      /\ written + WChunk <= Len(src) /\ Len(src) - written <= Size - Available
  BY ChunkFacts DEF PipeInv, EndsApart, Room, Available
<1>2. nwrite % Size \in 0 .. Size - 1
  BY ModFacts
<1>3. (nread + Available + j) % Size = (nwrite % Size) + j
  <2>1. j \in Nat /\ (nwrite % Size) + j < Size
    BY <1>1, <1>2
  <2>. QED  BY <2>1, TailCell
<1>4. PICK a \in Int, b \in Int : a = nread + i - 1 /\ b = nread + Available + j
  OBVIOUS
<1>5. b - a >= 1 /\ b - a < Size
  BY <1>1, <1>4
<1>6. a % Size = b % Size => a = b \/ a - b >= Size \/ b - a >= Size
  BY SameRemainder
<1>. QED  BY <1>3, <1>4, <1>5, <1>6

LEMMA HeadCell ==
  ASSUME PipeInv, readn < n, NEW i \in 1 .. RChunk
  PROVE  /\ (nread + i - 1) % Size = (nread % Size) + i - 1
         /\ (nread % Size) + i - 1 \in 0 .. Size - 1
<1>0. StateFacts
  BY StateTypes
<1>. USE <1>0 DEF StateFacts
<1>1. RChunk \in 1 .. Size /\ (nread % Size) + RChunk <= Size
  BY ChunkFacts DEF PipeInv
<1>2. nread % Size \in 0 .. Size - 1
  BY ModFacts
<1>3. PICK j \in Nat : j = i - 1
  BY <1>1
<1>4. (nread % Size) + j < Size
  BY <1>1, <1>2, <1>3
<1>5. (nread + j) % Size = (nread % Size) + j
  BY <1>4, ChunkCell
<1>6. nread + i - 1 = nread + j /\ (nread % Size) + i - 1 = (nread % Size) + j
  BY <1>2, <1>3
<1>. QED  BY <1>2, <1>3, <1>4, <1>5, <1>6

\* copyin, even when it fails half-way, spares the bytes not yet read.
LEMMA UnreadBytesStay ==
  ASSUME PipeInv, wpc = "copy", written < Len(src), CopyIn(WChunk),
         NEW i \in 1 .. Available
  PROVE  data'[(nread + i - 1) % Size] = data[(nread + i - 1) % Size]
<1>0. StateFacts
  BY StateTypes
<1>. USE <1>0 DEF StateFacts
<1>1. PICK c : c = (nread + i - 1) % Size
  OBVIOUS
<1>2. c \in 0 .. Size - 1
  BY <1>1, ModFacts
<1>3. nwrite % Size \in 0 .. Size - 1 /\ WChunk \in Nat
  <2>1. nwrite % Size \in 0 .. Size - 1
    BY ModFacts
  <2>2. WChunk \in 1 .. Size
    BY ChunkFacts DEF PipeInv
  <2>. QED  BY <2>1, <2>2
<1>4. c - (nwrite % Size) \notin 0 .. WChunk - 1
  <2>. SUFFICES ASSUME c - (nwrite % Size) \in 0 .. WChunk - 1
                PROVE  FALSE
    OBVIOUS
  <2>1. PICK j \in 0 .. WChunk - 1 : j = c - (nwrite % Size)
    OBVIOUS
  <2>2. c = (nwrite % Size) + j
    BY <1>2, <1>3, <2>1
  <2>. QED  BY <1>1, <2>2, CellsApart
<1>. QED  BY <1>1, <1>2, <1>4 DEF CopyIn

LEMMA DataInit == Init => DataInv
BY DEF Init, DataInv, InCall, Stored, Fetched

LEMMA DataStep == PipeInv /\ DataInv /\ [Next]_vars => DataInv'
<1>. SUFFICES ASSUME PipeInv, DataInv, [Next]_vars
              PROVE  DataInv'
  OBVIOUS
<1>0. StateFacts
  BY StateTypes
<1>. USE <1>0 DEF StateFacts
<1>1. InCall'
  BY DEF DataInv, InCall, Next, WriterKernel, ReaderKernel, WriteCall,
     WriteRefused, WriteFits, WriteCopy, WriteFault, WriteAdvance, WriteReturn,
     EndWrite, ReadCall, ReadReady, ReadCopy, ReadFault, ReadAdvance,
     ReadReturn, EndRead, vars, writer, reader
<1>2. Stored'
  <2>1. CASE WriteCopy
    <3>1. /\ WChunk \in 1 .. Size /\ (nwrite % Size) + WChunk <= Size
          /\ nwrite % Size \in 0 .. Size - 1
      BY <2>1, ChunkFacts, ModFacts DEF PipeInv, WriteCopy
    <3>2. PICK k \in Nat, b \in 0 .. Size - 1 : k = WChunk /\ b = nwrite % Size
      BY <3>1
    <3>3. /\ WChunk' = k /\ UNCHANGED <<nwrite, written, src>>
          /\ written + k <= wmapped
      BY <2>1, <3>2 DEF WriteCopy, WChunk, Least
    <3>4. ASSUME NEW j \in 0 .. k - 1
          PROVE  data'[b + j] = src[written + j + 1]
      <4>1. PICK c \in 0 .. Size - 1 : c = b + j
        BY <3>1, <3>2
      <4>2. c - b \in 0 .. k - 1 /\ c - b = j /\ written + (c - b) < wmapped
        BY <3>2, <3>3, <4>1 DEF PipeInv, TypeOK
      <4>3. CopyIn(k)
        BY <2>1, <3>2 DEF WriteCopy
      <4>4. data'[c] = src[written + (c - b) + 1]
        BY <3>2, <4>2, <4>3 DEF CopyIn
      <4>. QED  BY <4>1, <4>2, <4>4
    <3>. QED  BY <3>2, <3>3, <3>4 DEF Stored
  <2>2. ASSUME UNCHANGED <<wpc, nwrite, data, src, written>>
        PROVE  Stored'
    BY <2>2 DEF DataInv, Stored, WChunk, Least
  <2>3. ASSUME wpc' # "advance"
        PROVE  Stored'
    BY <2>3 DEF Stored
  <2>. QED
    BY <2>1, <2>2, <2>3
       DEF Next, WriterKernel, ReaderKernel, WriteCall, WriteRefused, WriteFits,
           WriteFault, WriteAdvance, WriteReturn, EndWrite, ReadCall, ReadReady,
           ReadCopy, ReadFault, ReadAdvance, ReadReturn, vars, writer
<1>3. Fetched'
  <2>1. CASE ReadCopy
    <3>. DEFINE t == [i \in 1 .. RChunk |-> data[(nread % Size) + i - 1]]
    <3>1. RChunk \in 1 .. Size
      BY <2>1, ChunkFacts DEF PipeInv, ReadCopy
    <3>2. \A i \in 1 .. RChunk : (nread % Size) + i - 1 \in 0 .. Size - 1
      BY <2>1, HeadCell DEF ReadCopy
    <3>3. t \in [1 .. RChunk -> Byte]
      BY <3>2 DEF PipeInv, TypeOK
    <3>4. t \in Seq(Byte) /\ Len(t) = RChunk
      BY <3>1, <3>3, StringLength
    <3>5. dst' = dst \o t /\ dst \in Seq(Byte) /\ Len(dst) = readn
      BY <2>1 DEF ReadCopy, PipeInv, LocalsOK, TypeOK
    <3>6. \A i \in 1 .. RChunk : t[i] = data[(nread % Size) + i - 1]
      OBVIOUS
    <3>. HIDE DEF t
    <3>7. PICK k \in 1 .. Size : k = RChunk
      BY <3>1
    <3>8. \A i \in 1 .. readn + k :
            dst'[i] = IF i <= readn THEN dst[i] ELSE t[i - readn]
      <4>1. PICK u : u = dst \o t
        OBVIOUS
      <4>2. \A i \in 1 .. Len(dst) + Len(t) :
              u[i] = IF i <= Len(dst) THEN dst[i] ELSE t[i - Len(dst)]
        BY <3>4, <3>5, <4>1, ConcatProperties
      <4>. QED  BY <3>4, <3>5, <3>7, <4>1, <4>2
    <3>9. ASSUME NEW i \in 1 .. k
          PROVE  dst'[readn + i] = t[i]
      <4>1. PICK h \in Int : h = readn + i
        OBVIOUS
      <4>2. h \in 1 .. readn + k /\ h > readn /\ h - readn = i
        BY <4>1
      <4>3. dst'[h] = t[h - readn]
        BY <3>8, <4>2
      <4>. QED  BY <4>1, <4>2, <4>3
    <3>10. RChunk' = RChunk /\ UNCHANGED <<nread, data, readn>>
      BY <2>1 DEF ReadCopy, RChunk, Least
    <3>. QED  BY <3>6, <3>7, <3>9, <3>10 DEF Fetched
  <2>2. CASE WriteCopy \/ WriteFault
    <3>. SUFFICES ASSUME rpc = "advance", NEW i \in 1 .. RChunk
                  PROVE  data'[(nread % Size) + i - 1]
                           = data[(nread % Size) + i - 1]
      BY <2>2 DEF DataInv, Fetched, WriteCopy, WriteFault, reader, RChunk, Least
    <3>1. readn < n /\ n - readn <= Available
      BY DEF PipeInv, LocalsOK, EndsApart
    <3>2. i \in 1 .. Available
      BY <3>1, ChunkFacts DEF PipeInv
    <3>3. (nread + i - 1) % Size = (nread % Size) + i - 1
      BY <3>1, HeadCell
    <3>4. wpc = "copy" /\ written < Len(src) /\ CopyIn(WChunk)
      BY <2>2 DEF WriteCopy, WriteFault
    <3>. QED  BY <3>2, <3>3, <3>4, UnreadBytesStay
  <2>3. ASSUME UNCHANGED <<rpc, nread, data, dst, readn, n>>
        PROVE  Fetched'
    BY <2>3 DEF DataInv, Fetched, RChunk, Least
  <2>4. ASSUME rpc' # "advance"
        PROVE  Fetched'
    BY <2>4 DEF Fetched
  <2>. QED
    BY <2>1, <2>2, <2>3, <2>4
       DEF Next, WriterKernel, ReaderKernel, WriteCall, WriteRefused, WriteFits,
           WriteAdvance, WriteReturn, ReadCall, ReadReady, ReadFault, EndRead,
           ReadAdvance, ReadReturn, vars, reader
<1>. QED  BY <1>1, <1>2, <1>3 DEF DataInv

-------------------------------------------------------------------------
\* The state functions of the refinement mapping, and what they hold.

Left  == SubSeq(src, written + 1, Len(src))
Taken == SubSeq(dst, 1, readn)

MappingFacts ==
  /\ Queue \in Seq(Byte) /\ Len(Queue) = Available
  /\ \A i \in 1 .. Available : Queue[i] = data[(nread + i - 1) % Size]
  /\ Left \in Seq(Byte) /\ Len(Left) = Len(src) - written
  /\ \A i \in 1 .. Len(src) - written : Left[i] = src[written + i]
  /\ Taken \in Seq(Byte) /\ Len(Taken) = readn
  /\ \A i \in 1 .. readn : Taken[i] = dst[i]

LEMMA MappingValue == PipeInv => MappingFacts
<1>. SUFFICES ASSUME PipeInv
              PROVE  MappingFacts
  OBVIOUS
<1>0. StateFacts
  BY StateTypes
<1>. USE <1>0 DEF StateFacts
<1>1. /\ Queue \in Seq(Byte) /\ Len(Queue) = Available
      /\ \A i \in 1 .. Available : Queue[i] = data[(nread + i - 1) % Size]
  <2>1. Queue = [i \in 1 .. Available |-> data[(nread + i - 1) % Size]]
    BY DEF Queue
  <2>2. \A i \in 1 .. Available : data[(nread + i - 1) % Size] \in Byte
    <3>1. ASSUME NEW a \in Int
          PROVE  data[a % Size] \in Byte
      <4>1. a % Size \in 0 .. Size - 1
        BY ModFacts
      <4>. QED  BY <4>1 DEF PipeInv, TypeOK
    <3>2. ASSUME NEW i \in 1 .. Available
          PROVE  data[(nread + i - 1) % Size] \in Byte
      <4>1. nread + i - 1 \in Int
        OBVIOUS
      <4>. QED  BY <3>1, <4>1
    <3>. QED  BY <3>2
  <2>3. Queue \in [1 .. Available -> Byte]
    BY <2>1, <2>2
  <2>. QED  BY <2>1, <2>3, FunctionIsSeq
<1>2. /\ Left \in Seq(Byte) /\ Len(Left) = Len(src) - written
      /\ \A i \in 1 .. Len(src) - written : Left[i] = src[written + i]
  <2>1. PICK m \in Nat, l \in Nat : m = written + 1 /\ l = Len(src)
    <3>1. written + 1 \in Nat /\ Len(src) \in Nat
      OBVIOUS
    <3>. QED  BY <3>1
  <2>2. \A i \in m .. l : src[i] \in Byte
    BY <2>1, ElementOfSeq DEF PipeInv, TypeOK
  <2>3. Left = SubSeq(src, m, l)
    BY <2>1 DEF Left
  <2>4. /\ Left \in Seq(Byte) /\ Len(Left) = IF m <= l THEN l - m + 1 ELSE 0
        /\ \A i \in 1 .. l - m + 1 : Left[i] = src[m + i - 1]
    BY <2>2, <2>3, SubSeqProperties
  <2>5. l - m + 1 = Len(src) - written /\ \A i \in Int : m + i - 1 = written + i
    BY <2>1
  <2>. QED  BY <2>1, <2>4, <2>5
<1>3. /\ Taken \in Seq(Byte) /\ Len(Taken) = readn
      /\ \A i \in 1 .. readn : Taken[i] = dst[i]
  <2>1. /\ dst \in Seq(Byte) /\ readn <= Len(dst)
    <3>1. readn < n => RChunk \in 1 .. Size
      BY ChunkFacts DEF PipeInv
    <3>. QED  BY <3>1 DEF PipeInv, TypeOK, LocalsOK
  <2>2. \A i \in 1 .. readn : dst[i] \in Byte
    BY <2>1, ElementOfSeq
  <2>3. /\ Taken \in Seq(Byte)
        /\ Len(Taken) = IF 1 <= readn THEN readn - 1 + 1 ELSE 0
        /\ \A i \in 1 .. readn - 1 + 1 : Taken[i] = dst[1 + i - 1]
    BY <2>2, SubSeqProperties DEF Taken
  <2>4. readn - 1 + 1 = readn /\ \A i \in Int : 1 + i - 1 = i
    OBVIOUS
  <2>. QED  BY <2>3, <2>4
<1>. QED  BY <1>1, <1>2, <1>3 DEF MappingFacts

LEMMA NextMappingValue == PipeInv' => MappingFacts'
BY MappingValue, PTL

LEMMA NextStateTypes == PipeInv' => StateFacts'
BY StateTypes, PTL

\* Where nothing moves, the queue and the data of the calls are as they were.
LEMMA QueueStays ==
  ASSUME PipeInv, PipeInv', UNCHANGED <<nread, nwrite>>,
         \A i \in 1 .. Available :
           data'[(nread + i - 1) % Size] = data[(nread + i - 1) % Size]
  PROVE  UNCHANGED Queue
<1>1. Available' = Available
  BY DEF Available
<1>2. /\ Queue \in Seq(Byte) /\ Len(Queue) = Available
      /\ \A i \in 1 .. Available : Queue[i] = data[(nread + i - 1) % Size]
  BY MappingValue DEF MappingFacts
<1>3. /\ Queue' \in Seq(Byte) /\ Len(Queue') = Available
      /\ \A i \in 1 .. Available : Queue'[i] = data'[(nread + i - 1) % Size]
  BY <1>1, NextMappingValue DEF MappingFacts
<1>. QED  BY <1>2, <1>3, SeqEqual

LEMMA PrefixRest ==
  ASSUME NEW s \in Seq(Byte), NEW k \in Nat, k <= Len(s)
  PROVE  /\ Abs!Prefix(s, k) \in Seq(Byte) /\ Len(Abs!Prefix(s, k)) = k
         /\ \A i \in 1 .. k : Abs!Prefix(s, k)[i] = s[i]
         /\ Abs!Rest(s, k) \in Seq(Byte) /\ Len(Abs!Rest(s, k)) = Len(s) - k
         /\ \A i \in 1 .. Len(s) - k : Abs!Rest(s, k)[i] = s[k + i]
<1>1. Len(s) \in Nat /\ \A i \in 1 .. Len(s) : s[i] \in Byte
  BY LenProperties, ElementOfSeq
<1>2. PICK m \in Int, l \in Nat : m = k + 1 /\ l = Len(s)
  BY <1>1
<1>3. /\ \A i \in 1 .. k : s[i] \in Byte
      /\ \A i \in m .. l : s[i] \in Byte
  BY <1>1, <1>2
<1>4. /\ SubSeq(s, 1, k) \in Seq(Byte)
      /\ Len(SubSeq(s, 1, k)) = IF 1 <= k THEN k - 1 + 1 ELSE 0
      /\ \A i \in 1 .. k - 1 + 1 : SubSeq(s, 1, k)[i] = s[1 + i - 1]
  BY <1>3, SubSeqProperties
<1>5. /\ SubSeq(s, m, l) \in Seq(Byte)
      /\ Len(SubSeq(s, m, l)) = IF m <= l THEN l - m + 1 ELSE 0
      /\ \A i \in 1 .. l - m + 1 : SubSeq(s, m, l)[i] = s[m + i - 1]
  BY <1>3, SubSeqProperties
<1>6. /\ k - 1 + 1 = k /\ l - m + 1 = Len(s) - k
      /\ \A i \in Int : 1 + i - 1 = i /\ m + i - 1 = k + i
  BY <1>2
<1>7. Abs!Prefix(s, k) = SubSeq(s, 1, k) /\ Abs!Rest(s, k) = SubSeq(s, m, l)
  BY <1>2 DEF Abs!Prefix, Abs!Rest
<1>. QED  BY <1>2, <1>4, <1>5, <1>6, <1>7

\* The first k elements of one sequence move to the end of another.
Moved(to, to2, from, from2, k) ==
  /\ to \in Seq(Byte) /\ to2 \in Seq(Byte) /\ Len(to2) = Len(to) + k
  /\ from \in Seq(Byte) /\ from2 \in Seq(Byte) /\ Len(from2) = Len(from) - k
  /\ k \in Nat /\ k <= Len(from)
  /\ \A i \in 1 .. Len(to) : to2[i] = to[i]
  /\ \A i \in 1 .. k : to2[Len(to) + i] = from[i]
  /\ \A i \in 1 .. Len(from) - k : from2[i] = from[k + i]

LEMMA MovePrefix ==
  ASSUME NEW to, NEW to2, NEW from, NEW from2, NEW k,
         Moved(to, to2, from, from2, k)
  PROVE  to2 = to \o Abs!Prefix(from, k) /\ from2 = Abs!Rest(from, k)
<1>. USE DEF Moved
<1>1. Len(to) \in Nat /\ Len(from) \in Nat
  BY LenProperties
<1>2. PICK p, q : p = Abs!Prefix(from, k) /\ q = Abs!Rest(from, k)
  OBVIOUS
<1>3. /\ p \in Seq(Byte) /\ Len(p) = k /\ \A i \in 1 .. k : p[i] = from[i]
      /\ q \in Seq(Byte) /\ Len(q) = Len(from) - k
      /\ \A i \in 1 .. Len(from) - k : q[i] = from[k + i]
  BY <1>2, PrefixRest
<1>4. PICK u : u = to \o p
  OBVIOUS
<1>5. /\ u \in Seq(Byte) /\ Len(u) = Len(to) + k
      /\ \A i \in 1 .. Len(to) + k :
           u[i] = IF i <= Len(to) THEN to[i] ELSE p[i - Len(to)]
  <2>1. to \in Seq(Byte) /\ p \in Seq(Byte)
    BY <1>3
  <2>. HIDE DEF Moved
  <2>2. /\ u \in Seq(Byte) /\ Len(u) = Len(to) + Len(p)
        /\ \A i \in 1 .. Len(to) + Len(p) :
             u[i] = IF i <= Len(to) THEN to[i] ELSE p[i - Len(to)]
    BY <1>4, <2>1, ConcatProperties
  <2>. QED  BY <1>3, <2>2
<1>6. ASSUME NEW i \in 1 .. Len(to2)
      PROVE  to2[i] = u[i]
  <2>1. CASE i <= Len(to)
    BY <1>1, <1>5, <2>1
  <2>2. CASE i > Len(to)
    <3>1. PICK j \in 1 .. k : j = i - Len(to)
      <4>1. i - Len(to) \in 1 .. k
        BY <1>1, <2>2
      <4>. QED  BY <4>1
    <3>2. i = Len(to) + j
      BY <1>1, <3>1
    <3>3. to2[i] = from[j] /\ u[i] = p[j] /\ p[j] = from[j]
      BY <1>1, <1>3, <1>5, <2>2, <3>1, <3>2
    <3>. QED  BY <3>3
  <2>. QED  BY <1>1, <2>1, <2>2
<1>7. to2 = u
  BY <1>5, <1>6, SeqEqual
<1>8. from2 = q
  <2>1. /\ from2 \in Seq(Byte) /\ q \in Seq(Byte) /\ Len(from2) = Len(q)
        /\ \A i \in 1 .. Len(from2) : from2[i] = q[i]
    BY <1>1, <1>3
  <2>. HIDE DEF Moved
  <2>. QED  BY <2>1, SeqEqual
<1>. QED  BY <1>2, <1>4, <1>7, <1>8

\* A chunk that the writer has stored joins the queue when nwrite moves on.
LEMMA AdvanceSends ==
  ASSUME PipeInv, PipeInv', DataInv, WriteAdvance
  PROVE  /\ Len(Queue) + Len(Left) <= Size
         /\ \E k \in 1 .. Len(Left) : /\ Queue' = Queue \o Abs!Prefix(Left, k)
                                      /\ Left' = Abs!Rest(Left, k)
<1>0. StateFacts
  BY StateTypes
<1>. USE <1>0 DEF StateFacts
<1>1. written < Len(src) /\ wpc = "advance"
  BY DEF PipeInv, LocalsOK, WriteAdvance
<1>2. PICK k \in 1 .. Size : k = WChunk
  BY <1>1, ChunkFacts DEF PipeInv
<1>3. /\ (nwrite % Size) + k <= Size /\ written + k <= Len(src)
      /\ Len(src) - written <= Size - Available
      /\ nwrite % Size \in 0 .. Size - 1
  BY <1>1, <1>2, ChunkFacts, ModFacts DEF PipeInv, EndsApart, Room, Available
<1>4. /\ written' = written + k /\ nwrite' = Inc(nwrite, k)
      /\ UNCHANGED <<nread, data, src>>
  BY <1>2 DEF WriteAdvance
<1>5. Available' = Available + k
  <2>1. k \in Nat /\ k <= Size /\ Available + k <= Size
    BY <1>3
  <2>. QED  BY <1>4, <2>1, AvailableMoves DEF Available
<1>6. /\ Queue \in Seq(Byte) /\ Len(Queue) = Available
      /\ \A i \in 1 .. Available : Queue[i] = data[(nread + i - 1) % Size]
      /\ Left \in Seq(Byte) /\ Len(Left) = Len(src) - written
      /\ \A i \in 1 .. Len(src) - written : Left[i] = src[written + i]
  BY MappingValue DEF MappingFacts
<1>7. /\ Queue' \in Seq(Byte) /\ Len(Queue') = Available'
      /\ \A i \in 1 .. Available' : Queue'[i] = data'[(nread' + i - 1) % Size]
      /\ Left' \in Seq(Byte) /\ Len(Left') = Len(src') - written'
      /\ \A i \in 1 .. Len(src') - written' : Left'[i] = src'[written' + i]
  BY NextMappingValue DEF MappingFacts
<1>8. /\ Len(Queue') = Available + k
      /\ \A i \in 1 .. Available + k : Queue'[i] = data[(nread + i - 1) % Size]
  BY <1>4, <1>5, <1>7
<1>9. ASSUME NEW i \in 1 .. Available
      PROVE  Queue'[i] = Queue[i]
  <2>1. i \in 1 .. Available + k
    OBVIOUS
  <2>. QED  BY <1>6, <1>8, <2>1
<1>10. ASSUME NEW i \in 1 .. k
       PROVE  Queue'[Available + i] = Left[i]
  <2>1. PICK j \in Nat : j = i - 1
    OBVIOUS
  <2>2. /\ j \in 0 .. k - 1 /\ i = j + 1 /\ (nwrite % Size) + j < Size
        /\ i \in 1 .. Len(src) - written /\ Available + i \in 1 .. Available + k
    BY <1>3, <2>1
  <2>3. Queue'[Available + i] = data[(nread + (Available + i) - 1) % Size]
    BY <1>8, <2>2
  <2>4. nread + (Available + i) - 1 = nread + Available + j
    BY <2>2
  <2>5. (nread + Available + j) % Size = (nwrite % Size) + j
    BY <2>2, TailCell
  <2>6. data[(nwrite % Size) + j] = src[written + j + 1]
    BY <1>1, <1>2, <2>2 DEF DataInv, Stored
  <2>7. Left[i] = src[written + i] /\ written + i = written + j + 1
    BY <1>6, <2>2
  <2>. QED  BY <2>3, <2>4, <2>5, <2>6, <2>7
<1>11. Len(Left') = Len(Left) - k
  BY <1>3, <1>4, <1>6, <1>7
<1>12. ASSUME NEW i \in 1 .. Len(Left) - k
       PROVE  Left'[i] = Left[k + i]
  <2>1. /\ k + i \in 1 .. Len(src) - written
        /\ i \in 1 .. Len(src) - (written + k)
        /\ (written + k) + i = written + (k + i)
    BY <1>3, <1>6
  <2>2. Left'[i] = src[(written + k) + i]
    BY <1>4, <1>7, <2>1
  <2>. QED  BY <1>6, <2>1, <2>2
<1>13. k \in 1 .. Len(Left) /\ k \in Nat /\ k <= Len(Left)
  BY <1>3, <1>6
<1>14. Queue' = Queue \o Abs!Prefix(Left, k) /\ Left' = Abs!Rest(Left, k)
  <2>1. PICK to, to2, from, from2 :
          to = Queue /\ to2 = Queue' /\ from = Left /\ from2 = Left'
    OBVIOUS
  <2>2. Moved(to, to2, from, from2, k)
    <3>1. /\ to \in Seq(Byte) /\ to2 \in Seq(Byte) /\ Len(to2) = Len(to) + k
          /\ from \in Seq(Byte) /\ from2 \in Seq(Byte)
          /\ Len(from2) = Len(from) - k /\ k \in Nat /\ k <= Len(from)
      BY <1>6, <1>7, <1>8, <1>11, <1>13, <2>1
    <3>2. /\ \A i \in 1 .. Len(to) : to2[i] = to[i]
          /\ \A i \in 1 .. k : to2[Len(to) + i] = from[i]
          /\ \A i \in 1 .. Len(from) - k : from2[i] = from[k + i]
      BY <1>6, <1>9, <1>10, <1>12, <2>1
    <3>. QED  BY <3>1, <3>2 DEF Moved
  <2>. QED  BY <2>1, <2>2, MovePrefix
<1>15. Len(Queue) + Len(Left) <= Size
  BY <1>3, <1>6
<1>. QED  BY <1>13, <1>14, <1>15

\* What the reader has fetched leaves the queue when nread moves on.
LEMMA AdvanceReceives ==
  ASSUME PipeInv, PipeInv', DataInv, ReadAdvance
  PROVE  /\ Len(Queue) >= n - readn
         /\ \E k \in 1 .. n - readn : /\ Taken' = Taken \o Abs!Prefix(Queue, k)
                                      /\ Queue' = Abs!Rest(Queue, k)
                                      /\ n' - readn' = n - readn - k
<1>0. StateFacts
  BY StateTypes
<1>. USE <1>0 DEF StateFacts
<1>1. readn < n /\ rpc = "advance"
  BY DEF PipeInv, LocalsOK, ReadAdvance
<1>2. PICK k \in 1 .. Size : k = RChunk
  BY <1>1, ChunkFacts DEF PipeInv
<1>3. readn + k <= n /\ n - readn <= Available
  BY <1>1, <1>2, ChunkFacts DEF PipeInv, EndsApart
<1>4. /\ readn' = readn + k /\ nread' = Inc(nread, k)
      /\ UNCHANGED <<nwrite, data, dst, n>>
  BY <1>2 DEF ReadAdvance
<1>5. Available' = Available - k
  <2>1. k \in Nat /\ k <= Size /\ k <= Available
    BY <1>3
  <2>. QED  BY <1>4, <2>1, AvailableMoves DEF Available
<1>6. /\ Queue \in Seq(Byte) /\ Len(Queue) = Available
      /\ \A i \in 1 .. Available : Queue[i] = data[(nread + i - 1) % Size]
      /\ Taken \in Seq(Byte) /\ Len(Taken) = readn
      /\ \A i \in 1 .. readn : Taken[i] = dst[i]
  BY MappingValue DEF MappingFacts
<1>7. /\ Queue' \in Seq(Byte) /\ Len(Queue') = Available'
      /\ \A i \in 1 .. Available' : Queue'[i] = data'[(nread' + i - 1) % Size]
      /\ Taken' \in Seq(Byte) /\ Len(Taken') = readn'
      /\ \A i \in 1 .. readn' : Taken'[i] = dst'[i]
  BY NextMappingValue DEF MappingFacts
<1>8. /\ Len(Taken') = readn + k
      /\ \A i \in 1 .. readn + k : Taken'[i] = dst[i]
  BY <1>4, <1>7
<1>9. ASSUME NEW i \in 1 .. readn
      PROVE  Taken'[i] = Taken[i]
  <2>1. i \in 1 .. readn + k
    OBVIOUS
  <2>. QED  BY <1>6, <1>8, <2>1
<1>10. ASSUME NEW i \in 1 .. k
       PROVE  Taken'[readn + i] = Queue[i]
  <2>1. /\ i \in 1 .. RChunk /\ i \in 1 .. Available
        /\ readn + i \in 1 .. readn + k
    BY <1>2, <1>3
  <2>2. Taken'[readn + i] = dst[readn + i]
    BY <1>8, <2>1
  <2>3. dst[readn + i] = data[(nread % Size) + i - 1]
    BY <1>1, <2>1 DEF DataInv, Fetched
  <2>4. (nread + i - 1) % Size = (nread % Size) + i - 1
    BY <1>1, <2>1, HeadCell
  <2>. QED  BY <1>6, <2>1, <2>2, <2>3, <2>4
<1>11. Len(Queue') = Len(Queue) - k
  BY <1>5, <1>6, <1>7
<1>12. nread' = nread + k \/ nread' = nread + k - WordMod
  <2>1. k \in Nat /\ k <= WordMod
    BY WordAssumption
  <2>. QED  BY <1>4, <2>1, IncValue
<1>13. ASSUME NEW i \in 1 .. Len(Queue) - k
       PROVE  Queue'[i] = Queue[k + i]
  <2>1. i \in 1 .. Available - k /\ k + i \in 1 .. Available
    BY <1>3, <1>6
  <2>2. Queue[k + i] = data[(nread + (k + i) - 1) % Size]
    BY <1>6, <2>1
  <2>3. Queue'[i] = data[(nread' + i - 1) % Size]
    BY <1>4, <1>5, <1>7, <2>1
  <2>4. PICK a \in Int : a = nread + (k + i) - 1 - WordMod
    OBVIOUS
  <2>5. (a + WordMod) % Size = a % Size
    BY AddMultiple
  <2>6. /\ nread + (k + i) - 1 = a + WordMod
        /\ nread' + i - 1 = a + WordMod \/ nread' + i - 1 = a
    BY <1>12, <2>4
  <2>. QED  BY <2>2, <2>3, <2>5, <2>6
<1>14. k \in Nat /\ k <= Len(Queue) /\ k \in 1 .. n - readn
  BY <1>3, <1>6
<1>15. Taken' = Taken \o Abs!Prefix(Queue, k) /\ Queue' = Abs!Rest(Queue, k)
  <2>1. PICK to, to2, from, from2 :
          to = Taken /\ to2 = Taken' /\ from = Queue /\ from2 = Queue'
    OBVIOUS
  <2>2. Moved(to, to2, from, from2, k)
    <3>1. /\ to \in Seq(Byte) /\ to2 \in Seq(Byte) /\ Len(to2) = Len(to) + k
          /\ from \in Seq(Byte) /\ from2 \in Seq(Byte)
          /\ Len(from2) = Len(from) - k /\ k \in Nat /\ k <= Len(from)
      BY <1>6, <1>7, <1>8, <1>11, <1>14, <2>1
    <3>2. /\ \A i \in 1 .. Len(to) : to2[i] = to[i]
          /\ \A i \in 1 .. k : to2[Len(to) + i] = from[i]
          /\ \A i \in 1 .. Len(from) - k : from2[i] = from[k + i]
      BY <1>6, <1>9, <1>10, <1>13, <2>1
    <3>. QED  BY <3>1, <3>2 DEF Moved
  <2>. QED  BY <2>1, <2>2, MovePrefix
<1>16. n' - readn' = n - readn - k
  BY <1>4
<1>. QED  BY <1>3, <1>6, <1>14, <1>15, <1>16

-------------------------------------------------------------------------
\* Every step maps to a step of the queue or a stutter.
LEMMA StepRefines ==
  PipeInv /\ PipeInv' /\ DataInv /\ [Next]_vars => [Abs!AbsNext]_(Abs!AbsVars)
<1>. SUFFICES ASSUME PipeInv, PipeInv', DataInv, [Next]_vars
              PROVE  [Abs!AbsNext]_(Abs!AbsVars)
  OBVIOUS
<1>0. StateFacts
  BY StateTypes
<1>. USE <1>0 DEF StateFacts
<1>. DEFINE Writing == <<Left, wmapped < Len(src), wres>>
            Reading == <<n - readn, Taken, rmapped < n, rres>>
<1>1. ASSUME UNCHANGED <<nread, nwrite, data>>
      PROVE  UNCHANGED Queue
  BY <1>1, QueueStays
<1>2. UNCHANGED writer => UNCHANGED Writing
  BY DEF writer, Left
<1>3. UNCHANGED reader => UNCHANGED Reading
  BY DEF reader, Taken
<1>4. <<>> \in Seq(Byte) /\ Len(<<>>) = 0 /\ SubSeq(<<>>, 1, 0) = <<>>
  BY EmptySeq, SubSeqEmpty
<1>5. ASSUME EndWrite(wres')
      PROVE  Left' = <<>> /\ (wmapped < Len(src))' = FALSE
  BY <1>4, <1>5 DEF EndWrite, Left
<1>6. ASSUME EndRead(rres')
      PROVE  Taken' = <<>> /\ (n - readn)' = 0 /\ (rmapped < n)' = FALSE
  BY <1>4, <1>6 DEF EndRead, Taken
<1>7. /\ Queue \in Seq(Byte) /\ Len(Queue) = Available
      /\ Left \in Seq(Byte) /\ Len(Left) = Len(src) - written
  BY MappingValue DEF MappingFacts
<1>8. CASE WriteCall
  <2>1. UNCHANGED Queue /\ UNCHANGED Reading
    BY <1>1, <1>3, <1>8 DEF WriteCall
  <2>2. wres # "busy" /\ wres' = "busy"
    BY <1>8 DEF WriteCall, DataInv, InCall
  <2>3. Left' \in Seq(Byte)
    BY NextMappingValue DEF MappingFacts
  <2>4. (wmapped < Len(src))' \in BOOLEAN
    OBVIOUS
  <2>5. Abs!BeginWrite
    BY <2>1, <2>2, <2>3, <2>4 DEF Abs!BeginWrite, Abs!Reading, Left, Taken
  <2>. QED  BY <2>5 DEF Abs!AbsNext
<1>9. CASE WriteRefused \/ WriteFault \/ WriteReturn
  <2>1. UNCHANGED Queue
    <3>1. CASE WriteFault
      <4>1. UNCHANGED <<nread, nwrite>>
        BY <3>1 DEF WriteFault
      <4>2. \A i \in 1 .. Available :
              data'[(nread + i - 1) % Size] = data[(nread + i - 1) % Size]
        BY <3>1, UnreadBytesStay DEF WriteFault
      <4>. QED  BY <4>1, <4>2, QueueStays
    <3>2. CASE WriteRefused \/ WriteReturn
      BY <1>1, <3>2 DEF WriteRefused, WriteReturn
    <3>. QED  BY <1>9, <3>1, <3>2
  <2>2. UNCHANGED Reading
    BY <1>3, <1>9 DEF WriteRefused, WriteFault, WriteReturn
  <2>3. EndWrite(wres')
    BY <1>9 DEF WriteRefused, WriteFault, WriteReturn, EndWrite
  <2>4. wres = "busy"
    BY <1>9 DEF WriteRefused, WriteFault, WriteReturn, DataInv, InCall
  <2>5. \/ Left = <<>> /\ wres' = "ok"
        \/ /\ wmapped < Len(src) \/ Len(Queue) + Len(Left) > Size
           /\ wres' = "failed"
    <3>1. CASE WriteRefused
      <4>1. written = 0 /\ Len(src) > Size - Available /\ wres' = "failed"
        BY <3>1 DEF WriteRefused, PipeInv, LocalsOK, Room, Available, EndWrite
      <4>. QED  BY <1>7, <4>1
    <3>2. CASE WriteFault
      <4>1. /\ written < Len(src) /\ written + WChunk > wmapped
            /\ wres' = "failed"
        BY <3>2 DEF WriteFault, EndWrite
      <4>2. PICK k \in Nat : k = WChunk /\ written + k <= Len(src)
        BY <4>1, ChunkFacts DEF PipeInv
      <4>3. wmapped < Len(src)
        BY <4>1, <4>2, CountAssumption DEF PipeInv, TypeOK
      <4>. QED  BY <4>1, <4>3
    <3>3. CASE WriteReturn
      <4>1. written = Len(src) /\ wres' = "ok"
        BY <3>3 DEF WriteReturn, EndWrite
      <4>2. Left = <<>>
        BY <1>7, <4>1, EmptySeq
      <4>. QED  BY <4>1, <4>2
    <3>. QED  BY <1>9, <3>1, <3>2, <3>3
  <2>6. Abs!EndWrite
    BY <1>5, <2>1, <2>2, <2>3, <2>4, <2>5
       DEF Abs!EndWrite, Abs!Reading, Left, Taken
  <2>. QED  BY <2>6 DEF Abs!AbsNext
<1>10. CASE WriteAdvance
  <2>1. /\ UNCHANGED Reading /\ UNCHANGED <<wmapped < Len(src), wres>>
        /\ wres = "busy"
    BY <1>3, <1>10 DEF WriteAdvance, DataInv, InCall
  <2>2. Abs!Send
    BY <1>10, <2>1, AdvanceSends DEF Abs!Send, Abs!Reading, Left, Taken
  <2>. QED  BY <2>2 DEF Abs!AbsNext
<1>11. CASE ReadCall
  <2>1. UNCHANGED Queue /\ UNCHANGED Writing
    BY <1>1, <1>2, <1>11 DEF ReadCall
  <2>2. rres # "busy" /\ rres' = "busy" /\ (rmapped < n)' \in BOOLEAN
    BY <1>11 DEF ReadCall, DataInv, InCall
  <2>3. n' \in Nat /\ readn' = 0 /\ dst' = <<>>
    BY <1>11, CountAssumption DEF ReadCall
  <2>4. Taken' = <<>> /\ n' - readn' \in Nat
    <3>1. Taken' = SubSeq(dst', 1, readn')
      BY DEF Taken
    <3>2. Taken' = <<>>
      BY <1>4, <2>3, <3>1
    <3>3. \A a \in Nat : a - 0 = a
      OBVIOUS
    <3>. QED  BY <2>3, <3>2, <3>3
  <2>5. Abs!BeginRead
    BY <2>1, <2>2, <2>4 DEF Abs!BeginRead, Abs!Writing, Left, Taken
  <2>. QED  BY <2>5 DEF Abs!AbsNext
<1>12. CASE ReadAdvance
  <2>1. /\ UNCHANGED Writing /\ UNCHANGED <<rmapped < n, rres>>
        /\ rres = "busy"
    BY <1>2, <1>12 DEF ReadAdvance, DataInv, InCall
  <2>2. Abs!Receive
    BY <1>12, <2>1, AdvanceReceives DEF Abs!Receive, Abs!Writing, Left, Taken
  <2>. QED  BY <2>2 DEF Abs!AbsNext
<1>13. CASE ReadFault \/ ReadReturn
  <2>1. UNCHANGED Queue /\ UNCHANGED Writing
    BY <1>1, <1>2, <1>13 DEF ReadFault, ReadReturn
  <2>2. EndRead(rres') /\ rres = "busy"
    BY <1>13 DEF ReadFault, ReadReturn, EndRead, DataInv, InCall
  <2>3. \/ n - readn = 0 /\ rres' = "ok"
        \/ rmapped < n /\ Len(Queue) >= n - readn /\ rres' = "failed"
    <3>1. CASE ReadFault
      <4>1. /\ readn < n /\ readn + RChunk > rmapped /\ rres' = "failed"
            /\ n - readn <= Available
        BY <3>1 DEF ReadFault, EndRead, PipeInv, EndsApart
      <4>2. PICK k \in Nat : k = RChunk /\ readn + k <= n
        BY <4>1, ChunkFacts DEF PipeInv
      <4>3. rmapped < n
        BY <4>1, <4>2, CountAssumption DEF PipeInv, TypeOK
      <4>. QED  BY <1>7, <4>1, <4>3
    <3>2. CASE ReadReturn
      BY <3>2 DEF ReadReturn, EndRead
    <3>. QED  BY <1>13, <3>1, <3>2
  <2>4. Abs!EndRead
    BY <1>6, <2>1, <2>2, <2>3 DEF Abs!EndRead, Abs!Writing, Left, Taken
  <2>. QED  BY <2>4 DEF Abs!AbsNext
<1>14. CASE WriteFits \/ WriteCopy \/ ReadReady \/ ReadCopy \/ UNCHANGED vars
  <2>1. UNCHANGED Queue
    <3>1. CASE WriteCopy
      <4>1. UNCHANGED <<nread, nwrite>>
        BY <3>1 DEF WriteCopy
      <4>2. \A i \in 1 .. Available :
              data'[(nread + i - 1) % Size] = data[(nread + i - 1) % Size]
        BY <3>1, UnreadBytesStay DEF WriteCopy
      <4>. QED  BY <4>1, <4>2, QueueStays
    <3>2. CASE WriteFits \/ ReadReady \/ ReadCopy \/ UNCHANGED vars
      BY <1>1, <3>2 DEF WriteFits, ReadReady, ReadCopy, vars
    <3>. QED  BY <1>14, <3>1, <3>2
  <2>2. UNCHANGED Writing
    BY <1>2, <1>14 DEF WriteFits, WriteCopy, ReadReady, ReadCopy, vars, Left
  <2>3. UNCHANGED Taken
    <3>1. /\ Taken \in Seq(Byte) /\ Len(Taken) = readn
          /\ \A i \in 1 .. readn : Taken[i] = dst[i]
      BY MappingValue DEF MappingFacts
    <3>2. /\ Taken' \in Seq(Byte) /\ Len(Taken') = readn'
          /\ \A i \in 1 .. readn' : Taken'[i] = dst'[i]
      BY NextMappingValue DEF MappingFacts
    <3>3. readn' = readn /\ \A i \in 1 .. readn : dst'[i] = dst[i]
      <4>1. CASE ReadCopy
        <5>1. PICK c, t :
                /\ c \in Nat
                /\ t = [i \in 1 .. c |-> data[(nread % Size) + i - 1]]
                /\ c = RChunk /\ dst' = dst \o t
          <6>1. RChunk \in Nat
            BY <4>1, ChunkFacts DEF ReadCopy, PipeInv
          <6>. QED  BY <4>1, <6>1 DEF ReadCopy
        <5>2. \A i \in 1 .. c : (nread % Size) + i - 1 \in 0 .. Size - 1
          BY <4>1, <5>1, HeadCell DEF ReadCopy
        <5>3. t \in [1 .. c -> Byte]
          BY <5>1, <5>2 DEF PipeInv, TypeOK
        <5>4. t \in Seq(Byte)
          BY <5>1, <5>3, StringLength
        <5>5. dst \in Seq(Byte) /\ Len(dst) = readn
          BY <4>1 DEF ReadCopy, PipeInv, TypeOK, LocalsOK
        <5>6. \A i \in 1 .. Len(dst) + Len(t) :
                (dst \o t)[i] = IF i <= Len(dst) THEN dst[i]
                               ELSE t[i - Len(dst)]
          BY <5>4, <5>5, ConcatProperties
        <5>7. Len(t) \in Nat
          BY <5>4, LenProperties
        <5>8. \A i \in 1 .. readn : (dst \o t)[i] = dst[i]
          BY <5>5, <5>6, <5>7
        <5>. QED  BY <4>1, <5>1, <5>8 DEF ReadCopy
      <4>2. CASE WriteFits \/ WriteCopy \/ ReadReady \/ UNCHANGED vars
        BY <4>2 DEF WriteFits, WriteCopy, ReadReady, vars, reader
      <4>. QED  BY <1>14, <4>1, <4>2
    <3>. QED  BY <3>1, <3>2, <3>3, SeqEqual
  <2>4. UNCHANGED <<n - readn, rmapped < n, rres>>
    BY <1>14 DEF WriteFits, WriteCopy, ReadReady, ReadCopy, vars, reader
  <2>. QED  BY <2>1, <2>2, <2>3, <2>4
            DEF Abs!AbsVars, Abs!Writing, Abs!Reading, Left, Taken
<1>. QED
  BY <1>8, <1>9, <1>10, <1>11, <1>12, <1>13, <1>14
     DEF Next, WriterKernel, ReaderKernel

\* The pipe is a queue of bytes: what is read is what was written, in order,
\* a refused write leaves no trace and a failed one only what was sent, for
\* every size of the buffer, width of the counters and length of the calls.
THEOREM Refinement == Spec => ImplementsAbsPipe
<1>1. Init => Abs!AbsInit
  <2>. SUFFICES ASSUME Init
                PROVE  Abs!AbsInit
    OBVIOUS
  <2>1. PipeInv
    BY InvInit
  <2>2. Len(<<>>) = 0 /\ SubSeq(<<>>, 1, 0) = <<>>
    BY EmptySeq, SubSeqEmpty
  <2>3. Available = 0
    <3>1. 0 \in Word
      BY <2>1 DEF Init, PipeInv, TypeOK
    <3>. QED  BY <3>1, SubValue DEF Init, Available
  <2>4. Queue = <<>>
    <3>1. Queue \in Seq(Byte) /\ Len(Queue) = 0
      BY <2>1, <2>3, MappingValue DEF MappingFacts
    <3>. QED  BY <3>1, EmptySeq
  <2>5. Left = <<>> /\ Taken = <<>> /\ n - readn = 0
        /\ (wmapped < Len(src)) = FALSE /\ (rmapped < n) = FALSE
    BY <2>2 DEF Init, Left, Taken
  <2>. QED  BY <2>4, <2>5 DEF Init, Abs!AbsInit, Left, Taken
<1>. QED
  BY <1>1, InvInit, InvStep, DataInit, DataStep, StepRefines, PTL
     DEF Spec, ImplementsAbsPipe, Abs!AbsSpec

=========================================================================
