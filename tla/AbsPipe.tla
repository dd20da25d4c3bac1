---------------------------- MODULE AbsPipe -----------------------------
(***************************************************************************)
(* What a pipe promises (kernel/fs/pipe.c) to one process that writes and  *)
(* one that reads: a bounded queue of bytes.  A write is accepted only if  *)
(* the whole of it fits, a read returns only all it asked for; a buffer    *)
(* that is not mapped makes either fail, with what has moved so far moved. *)
(***************************************************************************)
EXTENDS Naturals, Sequences

CONSTANTS Byte, Size

VARIABLES
  queue,    \* the bytes in the pipe
  left,     \* what the writer has still to send
  wfault,   \* is its buffer partly unmapped
  wres,     \* "busy", or how its last call ended
  want,     \* how many bytes the reader has still to get
  taken,    \* what it got in this call
  rfault, rres

Writing == <<left, wfault, wres>>
Reading == <<want, taken, rfault, rres>>
AbsVars == <<queue, Writing, Reading>>

AbsInit ==
  /\ queue = <<>>
  /\ left = <<>> /\ wfault = FALSE /\ wres = "ok"
  /\ want = 0 /\ taken = <<>> /\ rfault = FALSE /\ rres = "ok"

Prefix(s, k) == SubSeq(s, 1, k)
Rest(s, k)   == SubSeq(s, k + 1, Len(s))

-------------------------------------------------------------------------
BeginWrite ==
  /\ wres # "busy"
  /\ wres' = "busy"
  /\ left' \in Seq(Byte)
  /\ wfault' \in BOOLEAN
  /\ UNCHANGED <<queue, Reading>>

Send ==
  /\ wres = "busy"
  /\ Len(queue) + Len(left) <= Size
  /\ \E k \in 1 .. Len(left) : /\ queue' = queue \o Prefix(left, k)
                               /\ left' = Rest(left, k)
  /\ UNCHANGED <<wfault, wres, Reading>>

EndWrite ==
  /\ wres = "busy"
  /\ \/ left = <<>> /\ wres' = "ok"
     \/ (wfault \/ Len(queue) + Len(left) > Size) /\ wres' = "failed"
  /\ left' = <<>>
  /\ wfault' = FALSE
  /\ UNCHANGED <<queue, Reading>>

-------------------------------------------------------------------------
BeginRead ==
  /\ rres # "busy"
  /\ rres' = "busy"
  /\ want' \in Nat
  /\ taken' = <<>>
  /\ rfault' \in BOOLEAN
  /\ UNCHANGED <<queue, Writing>>

Receive ==
  /\ rres = "busy"
  /\ Len(queue) >= want
  /\ \E k \in 1 .. want : /\ taken' = taken \o Prefix(queue, k)
                          /\ queue' = Rest(queue, k)
                          /\ want' = want - k
  /\ UNCHANGED <<rfault, rres, Writing>>

EndRead ==
  /\ rres = "busy"
  /\ \/ want = 0 /\ rres' = "ok"
     \/ rfault /\ Len(queue) >= want /\ rres' = "failed"
  /\ want' = 0
  /\ taken' = <<>>
  /\ rfault' = FALSE
  /\ UNCHANGED <<queue, Writing>>

-------------------------------------------------------------------------
AbsNext == BeginWrite \/ Send \/ EndWrite \/ BeginRead \/ Receive \/ EndRead

AbsSpec == AbsInit /\ [][AbsNext]_AbsVars

=========================================================================
