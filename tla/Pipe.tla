------------------------------ MODULE Pipe ------------------------------
(***************************************************************************)
(* The ring buffer of kernel/fs/pipe.c between one process that writes and *)
(* one that reads, reached through filewrite and fileread.  Nothing locks  *)
(* it and interrupts are on, so either process may be preempted anywhere   *)
(* by the other; a step is the code between two accesses to what the other *)
(* one changes.  The counters are machine words that run on and wrap.      *)
(* A negative count returns -1 at once: no change, hence no action.  So    *)
(* does a reader that finds too little and looks again: writeopen, which   *)
(* would let it go, is set by pipealloc and never cleared.                 *)
(* A definition whose comment begins "A mutation" is not part of the       *)
(* model (see Sched).                                                      *)
(***************************************************************************)
EXTENDS Integers, Sequences

CONSTANTS
  Byte,      \* what the bytes of a pipe can be
  Size,      \* sizeof(pi->data)
  WordMod,   \* 2 to the width of uint
  MaxWrite,  \* bound: the largest count of a write
  MaxRead    \* bound: the largest count of a read

ASSUME ByteAssumption  == 0 \in Byte
ASSUME SizeAssumption  == Size \in Nat \ {0}
ASSUME CountAssumption == MaxWrite \in Nat /\ MaxRead \in Nat
ASSUME WordAssumption  == /\ WordMod \in Nat
                          /\ WordMod > Size
                          /\ WordMod % Size = 0

Word == 0 .. WordMod - 1

Strings(n) == UNION {[1 .. k -> Byte] : k \in 0 .. n}

VARIABLES
  nread, nwrite,   \* pi->nread, pi->nwrite
  data,            \* pi->data
  wpc,             \* where the writer is in pipewrite
  src,             \* the n bytes it writes
  wmapped,         \* how many of them its page table maps
  written,         \* the local of pipewrite
  wres,            \* "busy", or what the last write ended with
  rpc,             \* where the reader is in piperead
  n,               \* the count it asks for
  rmapped,         \* how many bytes of its buffer its page table maps
  dst,             \* its buffer
  readn,           \* the local of piperead
  rres             \* "busy", or what the last read ended with

writer == <<wpc, src, wmapped, written, wres>>
reader == <<rpc, n, rmapped, dst, readn, rres>>
vars   == <<nread, nwrite, data, writer, reader>>

\* pipealloc(): a zeroed page.
Init ==
  /\ nread = 0 /\ nwrite = 0
  /\ data = [i \in 0 .. Size - 1 |-> 0]
  /\ wpc = "idle" /\ src = <<>> /\ wmapped = 0 /\ written = 0 /\ wres = "ok"
  /\ rpc = "idle" /\ n = 0 /\ rmapped = 0 /\ dst = <<>> /\ readn = 0
  /\ rres = "ok"

\* uint arithmetic.
Sub(x, y) == (x - y) % WordMod
Inc(x, k) == (x + k) % WordMod

Least(x, y) == IF x < y THEN x ELSE y

-------------------------------------------------------------------------
\* pipewrite()

WriteCall ==
  /\ wpc = "idle"
  /\ src' \in Strings(MaxWrite)
  /\ wmapped' \in 0 .. Len(src')
  /\ written' = 0
  /\ wres' = "busy"
  /\ wpc' = "room"
  /\ UNCHANGED <<nread, nwrite, data, reader>>

EndWrite(res) == /\ wpc' = "idle"
                 /\ wres' = res
                 /\ src' = <<>> /\ wmapped' = 0 /\ written' = 0

\* The only process that changes nwrite reads nread.
Room == Size - Sub(nwrite, nread)

WriteRefused ==
  /\ wpc = "room"
  /\ Len(src) > Room
  /\ EndWrite("failed")
  /\ UNCHANGED <<nread, nwrite, data, reader>>

\* A mutation: one byte more than there is room for.
WriteFitsOneMore ==
  /\ wpc = "room"
  /\ Len(src) <= Room + 1
  /\ wpc' = "copy"
  /\ UNCHANGED <<nread, nwrite, data, src, wmapped, written, wres, reader>>

WriteFits ==
  /\ wpc = "room"
  /\ Len(src) <= Room
  /\ wpc' = "copy"
  /\ UNCHANGED <<nread, nwrite, data, src, wmapped, written, wres, reader>>

\* A mutation: a chunk goes on past the end of the data.
WChunkPastEnd == Len(src) - written

WChunk == Least(Size - (nwrite % Size), Len(src) - written)

\* copyin moves what is mapped of the k bytes at src + written.
CopyIn(k) ==
  data' = [i \in 0 .. Size - 1 |->
             LET j == i - (nwrite % Size)
             IN IF j \in 0 .. k - 1 /\ written + j < wmapped
                THEN src[written + j + 1] ELSE data[i]]

WriteCopy ==
  /\ wpc = "copy"
  /\ written < Len(src)
  /\ written + WChunk <= wmapped
  /\ CopyIn(WChunk)
  /\ wpc' = "advance"
  /\ UNCHANGED <<nread, nwrite, src, wmapped, written, wres, reader>>

WriteFault ==
  /\ wpc = "copy"
  /\ written < Len(src)
  /\ written + WChunk > wmapped
  /\ CopyIn(WChunk)
  /\ EndWrite("failed")
  /\ UNCHANGED <<nread, nwrite, reader>>

WriteAdvance ==
  /\ wpc = "advance"
  /\ nwrite' = Inc(nwrite, WChunk)
  /\ written' = written + WChunk
  /\ wpc' = "copy"
  /\ UNCHANGED <<nread, data, src, wmapped, wres, reader>>

WriteReturn ==
  /\ wpc = "copy"
  /\ written = Len(src)
  /\ EndWrite("ok")
  /\ UNCHANGED <<nread, nwrite, data, reader>>

-------------------------------------------------------------------------
\* piperead()

\* A mutation: a negative count is let through.
ReadCallNegative ==
  /\ rpc = "idle"
  /\ n' \in -1 .. MaxRead
  /\ rmapped' \in 0 .. MaxRead
  /\ dst' = <<>>
  /\ readn' = 0
  /\ rres' = "busy"
  /\ rpc' = "poll"
  /\ UNCHANGED <<nread, nwrite, data, writer>>

ReadCall ==
  /\ rpc = "idle"
  /\ n' \in 0 .. MaxRead
  /\ rmapped' \in 0 .. n'
  /\ dst' = <<>>
  /\ readn' = 0
  /\ rres' = "busy"
  /\ rpc' = "poll"
  /\ UNCHANGED <<nread, nwrite, data, writer>>

Available == Sub(nwrite, nread)

\* The only process that changes nread sees enough bytes.
ReadReady ==
  /\ rpc = "poll"
  /\ n <= Available
  /\ rpc' = "copy"
  /\ UNCHANGED <<nread, nwrite, data, writer, n, rmapped, dst, readn, rres>>

\* A mutation: a chunk stops one byte before the end of the data.
RChunkShort == Least(Size - 1 - (nread % Size), n - readn)

RChunk == Least(Size - (nread % Size), n - readn)

ReadCopy ==
  /\ rpc = "copy"
  /\ readn < n
  /\ readn + RChunk <= rmapped
  /\ dst' = dst \o [i \in 1 .. RChunk |-> data[(nread % Size) + i - 1]]
  /\ rpc' = "advance"
  /\ UNCHANGED <<nread, nwrite, data, writer, n, rmapped, readn, rres>>

EndRead(res) == /\ rpc' = "idle"
                /\ rres' = res
                /\ n' = 0 /\ rmapped' = 0 /\ dst' = <<>> /\ readn' = 0

ReadFault ==
  /\ rpc = "copy"
  /\ readn < n
  /\ readn + RChunk > rmapped
  /\ EndRead("failed")
  /\ UNCHANGED <<nread, nwrite, data, writer>>

ReadAdvance ==
  /\ rpc = "advance"
  /\ nread' = Inc(nread, RChunk)
  /\ readn' = readn + RChunk
  /\ rpc' = "copy"
  /\ UNCHANGED <<nwrite, data, writer, n, rmapped, dst, rres>>

ReadReturn ==
  /\ rpc = "copy"
  /\ readn = n
  /\ EndRead("ok")
  /\ UNCHANGED <<nread, nwrite, data, writer>>

-------------------------------------------------------------------------
WriterKernel == WriteRefused \/ WriteFits \/ WriteCopy \/ WriteFault
                \/ WriteAdvance \/ WriteReturn

ReaderKernel == ReadReady \/ ReadCopy \/ ReadFault \/ ReadAdvance
                \/ ReadReturn

Next == WriteCall \/ WriterKernel \/ ReadCall \/ ReaderKernel

Spec == Init /\ [][Next]_vars

\* The scheduler runs both processes again and again (ReadyRuns of Sched);
\* programs owe nothing.
Fairness == WF_vars(WriterKernel) /\ WF_vars(ReaderKernel)

FairSpec == Spec /\ Fairness

-------------------------------------------------------------------------
TypeOK ==
  /\ nread \in Word /\ nwrite \in Word
  /\ data \in [0 .. Size - 1 -> Byte]
  /\ wpc \in {"idle", "room", "copy", "advance"}
  /\ src \in Seq(Byte) /\ Len(src) <= MaxWrite
  /\ wmapped \in 0 .. MaxWrite
  /\ written \in 0 .. MaxWrite
  /\ wres \in {"busy", "ok", "failed"}
  /\ rpc \in {"idle", "poll", "copy", "advance"}
  /\ n \in 0 .. MaxRead
  /\ rmapped \in 0 .. MaxRead
  /\ dst \in Seq(Byte) /\ Len(dst) <= MaxRead
  /\ readn \in 0 .. MaxRead
  /\ rres \in {"busy", "ok", "failed"}

\* Neither end runs into the other: the bytes a writer has still to store fit
\* beside the unread ones, and the bytes a reader has still to fetch are
\* there, whenever the other end moves and the counters wrap.
EndsApart ==
  /\ Available <= Size
  /\ wpc \in {"copy", "advance"} => Len(src) - written <= Room
  /\ rpc \in {"copy", "advance"} => n - readn <= Available

\* A reader whose bytes are in the pipe returns, with the writer at work in
\* the same buffer and whatever the place where the data wrap.
ReaderReturns == (rpc = "poll" /\ n <= Available) ~> rpc = "idle"

-------------------------------------------------------------------------
\* The bytes from nread to nwrite, with the wrap-around of the array.
Queue == [i \in 1 .. Available |-> data[(nread + i - 1) % Size]]

Abs == INSTANCE AbsPipe WITH
         queue  <- Queue,
         left   <- SubSeq(src, written + 1, Len(src)),
         wfault <- wmapped < Len(src),
         want   <- n - readn,
         taken  <- SubSeq(dst, 1, readn),
         rfault <- rmapped < n

\* For one writer and one reader the pipe is a queue of bytes, and a write
\* that is refused leaves it alone.
ImplementsAbsPipe == Abs!AbsSpec

=========================================================================
