--------------------------- MODULE FilesProofs --------------------------
(***************************************************************************)
(* Theorems about Files, for every size of the tables: its processes are   *)
(* those of Proc, and, as long as sys_pipe runs apart from other pipes and *)
(* forks, no file is given out that somebody can reach.                    *)
(***************************************************************************)
EXTENDS Files, ProcProofs, FiniteSetTheorems

LEMMA TableFacts ==
  /\ 0 \in File /\ 1 \in File /\ 0 \in Fd /\ 1 \in Fd
  /\ None \notin File
  /\ IsFiniteSet(Slots) /\ IsFiniteSet(Fd)
<1>1. IsFiniteSet(0 .. NPROC - 1) /\ IsFiniteSet(0 .. NOFILE - 1)
  BY FS_Interval, NPROCAssumption, NOFILEAssumption
<1>. QED
  BY <1>1, NOFILEAssumption, NFILEAssumption DEF File, Fd, Slots, None

-------------------------------------------------------------------------
(* Every step is one of Proc, or none of it.                               *)

LEMMA FilesStepIsProcStep == [FilesNext]_allvars => [Next]_vars
<1>. SUFFICES ASSUME [FilesNext]_allvars
              PROVE  [Next]_vars
  OBVIOUS
<1>1. CASE FilesHalt \/ FilesStop
  BY <1>1 DEF FilesHalt, FilesStop, Next, allvars
<1>2. ASSUME NEW p \in Slots, FilesKernel(p)
      PROVE  [Next]_vars
  <2>1. CASE PipeSteps(p)
    BY <2>1 DEF PipeSteps, PipeSecond, PipeNoFile, PipeTake, PipeNoPage,
                PipeOpen, PipeBad
  <2>2. CASE ForkDies(p)
    BY <2>2 DEF ForkDies
  <2>3. CASE FilesFork(p) \/ FilesWait(p)
    BY <2>3 DEF FilesFork, FilesWait, Next, Kernel
  <2>. QED  BY <1>2, <2>1, <2>2, <2>3 DEF FilesKernel
<1>3. ASSUME NEW p \in Slots, FilesCall(p)
      PROVE  [Next]_vars
  <2>1. CASE PipeCall(p)
    BY <2>1 DEF PipeCall
  <2>2. CASE ForkCall(p) \/ WaitCall(p) \/ Exit(p)
    BY <2>2 DEF Next
  <2>. QED  BY <1>3, <2>1, <2>2 DEF FilesCall, FilesForkCall
<1>4. CASE UNCHANGED allvars
  BY <1>4 DEF allvars
<1>. QED  BY <1>1, <1>2, <1>3, <1>4 DEF FilesNext

\* Opening files and running out of them does nothing to processes that Proc
\* does not allow: what is proved of Proc holds here.
THEOREM FilesImplementsProc == FilesSpec => Spec
<1>1. FilesInit => Init
  BY DEF FilesInit
<1>. QED  BY <1>1, FilesStepIsProcStep, PTL DEF FilesSpec, Spec

\* Pids stay unique when processes share files.
THEOREM FilesPidsAreUnique == FilesSpec => []PidsUnique
BY FilesImplementsProc, PidsAreUnique, PTL

\* Programs that reap before they exit see the tree of AbsProc also while they
\* open pipes and copy descriptors, and run out of files.
THEOREM FilesKeepTheTree ==
  ASSUME ReapBeforeExit
  PROVE  FilesSpec => ImplementsAbsProc
BY FilesImplementsProc, Refinement, PTL

-------------------------------------------------------------------------
(* What fork does to the files.                                            *)

LEMMA ConsoleEffect ==
  ASSUME FilesTypeOK, NEW out \in Free, NEW in \in Free, out # in
  PROVE  /\ WithConsole(ftable, out, in) \in [File -> FileRecord]
         /\ \A f \in File :
              WithConsole(ftable, out, in)[f].ref =
                IF f \in {out, in} THEN 1 ELSE ftable[f].ref
<1>1. \A r \in FileRecord : /\ ConsoleOut(r) \in FileRecord /\ ConsoleOut(r).ref = 1
                            /\ ConsoleIn(r) \in FileRecord /\ ConsoleIn(r).ref = 1
  BY DEF ConsoleOut, ConsoleIn, FileRecord
<1>2. out \in File /\ in \in File
  BY DEF Free
<1>3. WithConsole(ftable, out, in) =
        [ftable EXCEPT ![out] = ConsoleOut(ftable[out]),
                       ![in] = ConsoleIn(ftable[in])]
  BY <1>2 DEF WithConsole, FilesTypeOK
<1>. QED  BY <1>1, <1>2, <1>3 DEF FilesTypeOK

LEMMA CopyEffect ==
  ASSUME NEW t \in [File -> FileRecord], NEW p \in Slots
  PROVE  /\ CopyCounts(t, p) \in [File -> FileRecord]
         /\ \A f \in File :
              /\ Cardinality(Copied(p, f)) \in Nat
              /\ CopyCounts(t, p)[f].ref = t[f].ref + Cardinality(Copied(p, f))
              /\ Copied(p, f) # {} => Cardinality(Copied(p, f)) >= 1
<1>1. ASSUME NEW f \in File
      PROVE  /\ Cardinality(Copied(p, f)) \in Nat
             /\ Copied(p, f) # {} => Cardinality(Copied(p, f)) >= 1
  <2>1. Copied(p, f) \in SUBSET Fd
    BY DEF Copied
  <2>2. IsFiniteSet(Copied(p, f))
    BY <2>1, TableFacts, FS_Subset
  <2>. QED  BY <2>2, FS_CardinalityType, FS_EmptySet
<1>. QED  BY <1>1 DEF CopyCounts, FileRecord

\* The slot that fork takes holds nothing new but the files it was given and
\* those it copied.
LEMMA ForkHolders ==
  ASSUME FilesTypeOK, NEW p \in Slots, NEW c \in Slots,
         NEW out \in File, NEW in \in File,
         NEW tab \in [Fd -> File \cup {None}],
         tab = AllocOfile(c, out, in),
         \/ ofile' = [ofile EXCEPT ![c] = tab]
         \/ ofile' = [ofile EXCEPT ![c] = CopyOfile(tab, p)]
  PROVE  /\ ofile' \in [Slots -> [Fd -> File \cup {None}]]
         /\ \A f \in File :
              \/ Holders(f)' \subseteq Holders(f)
              \/ /\ Holders(f)' \subseteq Holders(f) \cup {c}
                 /\ \/ f \in {out, in}
                    \/ /\ Copied(p, f) # {}
                       /\ ofile' = [ofile EXCEPT ![c] = CopyOfile(tab, p)]
<1>1. CopyOfile(tab, p) \in [Fd -> File \cup {None}]
  BY DEF CopyOfile, FilesTypeOK
<1>2. ofile' \in [Slots -> [Fd -> File \cup {None}]]
  BY <1>1 DEF FilesTypeOK
<1>3. ASSUME NEW f \in File
      PROVE  \/ Holders(f)' \subseteq Holders(f)
             \/ /\ Holders(f)' \subseteq Holders(f) \cup {c}
                /\ \/ f \in {out, in}
                   \/ /\ Copied(p, f) # {}
                      /\ ofile' = [ofile EXCEPT ![c] = CopyOfile(tab, p)]
  <2>1. Holders(f)' \subseteq Holders(f) \cup {c}
    BY DEF Holders, FilesTypeOK
  <2>2. ASSUME c \in Holders(f)', f \notin {out, in},
               ~ (/\ Copied(p, f) # {}
                  /\ ofile' = [ofile EXCEPT ![c] = CopyOfile(tab, p)])
        PROVE  c \in Holders(f)
    <3>1. PICK d \in Fd : ofile'[c][d] = f
      BY <2>2 DEF Holders
    <3>2. ofile'[c][d] = tab[d]
      BY <2>2, <3>1 DEF FilesTypeOK, CopyOfile, Copied
    <3>3. tab[d] = f /\ tab[d] = ofile[c][d]
      BY <2>2, <3>1, <3>2 DEF AllocOfile, FilesTypeOK
    <3>. QED  BY <3>3 DEF Holders
  <2>. QED  BY <2>1, <2>2
<1>. QED  BY <1>2, <1>3

\* A file loses no reference, and gains one with each slot that comes to hold
\* it.
Counted(f, c) ==
  \/ Holders(f)' \subseteq Holders(f) /\ ftable'[f].ref >= ftable[f].ref
  \/ Holders(f)' \subseteq Holders(f) \cup {c} /\ ftable'[f].ref >= ftable[f].ref + 1

LEMMA ForkFilesEffect ==
  ASSUME TypeOK, FilesTypeOK, NEW p \in Slots, ForkFiles(p) \/ LostForkFiles(p)
  PROVE  /\ FilesTypeOK'
         /\ \A f \in File : Counted(f, cur[p])
<1>. DEFINE c == cur[p]
<1>1. c \in Slots
  BY DEF TypeOK
<1>2. PICK out \in Free, in \in Free :
        /\ TwoLowest(Free, out, in)
        /\ \/ /\ ftable' = CopyCounts(WithConsole(ftable, out, in), p)
              /\ ofile' = [ofile EXCEPT ![c] =
                             CopyOfile(AllocOfile(c, out, in), p)]
           \/ /\ ftable' = WithConsole(ftable, out, in)
              /\ ofile' = [ofile EXCEPT ![c] = AllocOfile(c, out, in)]
        /\ UNCHANGED <<piper, npipes, dead>>
  BY DEF ForkFiles, LostForkFiles
<1>3. out \in File /\ in \in File /\ out # in
      /\ ftable[out].ref = 0 /\ ftable[in].ref = 0
  BY <1>2, TableFacts DEF Free, TwoLowest, File
<1>4. PICK t : t = WithConsole(ftable, out, in)
  OBVIOUS
<1>5. /\ t \in [File -> FileRecord]
      /\ \A f \in File : t[f].ref = IF f \in {out, in} THEN 1 ELSE ftable[f].ref
  BY <1>3, <1>4, ConsoleEffect
<1>6. /\ CopyCounts(t, p) \in [File -> FileRecord]
      /\ \A f \in File :
           /\ Cardinality(Copied(p, f)) \in Nat
           /\ CopyCounts(t, p)[f].ref = t[f].ref + Cardinality(Copied(p, f))
           /\ Copied(p, f) # {} => Cardinality(Copied(p, f)) >= 1
  BY <1>5, CopyEffect
<1>7. PICK tab : tab = AllocOfile(c, out, in)
  OBVIOUS
<1>8. tab \in [Fd -> File \cup {None}]
  BY <1>1, <1>3, <1>7 DEF AllocOfile, FilesTypeOK
<1>9. /\ ofile' \in [Slots -> [Fd -> File \cup {None}]]
      /\ \A f \in File :
           \/ Holders(f)' \subseteq Holders(f)
           \/ /\ Holders(f)' \subseteq Holders(f) \cup {c}
              /\ \/ f \in {out, in}
                 \/ /\ Copied(p, f) # {}
                    /\ ofile' = [ofile EXCEPT ![c] = CopyOfile(tab, p)]
  BY <1>1, <1>2, <1>3, <1>7, <1>8, ForkHolders
<1>10. FilesTypeOK'
  BY <1>2, <1>4, <1>5, <1>6, <1>9 DEF FilesTypeOK
<1>11. ASSUME NEW f \in File
       PROVE  Counted(f, c)
  <2>1. ftable[f].ref \in Nat /\ ftable'[f].ref \in Nat
    BY <1>10 DEF FilesTypeOK, FileRecord
  <2>2. /\ ftable'[f].ref >= ftable[f].ref
        /\ f \in {out, in} => ftable'[f].ref >= ftable[f].ref + 1
    BY <2>1, <1>2, <1>3, <1>4, <1>5, <1>6
  <2>3. ASSUME Copied(p, f) # {}, f \notin {out, in},
               ofile' = [ofile EXCEPT ![c] = CopyOfile(tab, p)]
        PROVE  \/ ftable'[f].ref >= ftable[f].ref + 1
               \/ Holders(f)' \subseteq Holders(f)
    <3>1. CASE ftable' = CopyCounts(t, p)
      BY <2>1, <2>3, <3>1, <1>5, <1>6
    <3>2. CASE ofile' = [ofile EXCEPT ![c] = tab]
      <4>1. \A d \in Fd : tab[d] = f => ofile[c][d] = f
        BY <2>3, <1>1, <1>7 DEF AllocOfile, FilesTypeOK
      <4>. QED  BY <3>2, <4>1, <1>1 DEF Holders, FilesTypeOK
    <3>. QED  BY <3>1, <3>2, <1>2, <1>4, <1>7
  <2>. QED  BY <2>2, <2>3, <1>9 DEF Counted
<1>. QED  BY <1>10, <1>11

-------------------------------------------------------------------------
(* Type correctness.                                                       *)

LEMMA FilesTypeInit == FilesInit => FilesTypeOK
<1>. SUFFICES ASSUME FilesInit
              PROVE  FilesTypeOK
  OBVIOUS
<1>. USE TableFacts, SlotFacts DEF FilesInit
<1>1. ftable \in [File -> FileRecord]
  BY DEF WithConsole, ConsoleOut, ConsoleIn, Unused, FileRecord
<1>2. ofile \in [Slots -> [Fd -> File \cup {None}]]
  BY DEF Fd
<1>3. piper \in [Slots -> [at : {"no", "rf", "second", "wf", "page"},
                           rf : File \cup {None}, wf : File \cup {None}]]
  BY DEF NoCall
<1>. QED  BY <1>1, <1>2, <1>3 DEF FilesTypeOK

PiperRecord == [at : {"no", "rf", "second", "wf", "page"},
                rf : File \cup {None}, wf : File \cup {None}]

\* A process past its first filealloc has a file, past its second two.
LocalsOK ==
  \A p \in Slots :
    /\ piper[p].at \in {"rf", "second", "wf", "page"} => piper[p].rf \in File
    /\ piper[p].at \in {"wf", "page"} => piper[p].wf \in File

\* What the steps of sys_pipe do to its locals.
LEMMA PiperChooses ==
  ASSUME NEW r \in PiperRecord, NEW f \in File
  PROVE  /\ [r EXCEPT !.at = "wf", !.wf = f] \in PiperRecord
         /\ [r EXCEPT !.at = "wf", !.wf = f].at = "wf"
         /\ [r EXCEPT !.at = "wf", !.wf = f].rf = r.rf
         /\ [r EXCEPT !.at = "wf", !.wf = f].wf = f
BY DEF PiperRecord

LEMMA PiperStarts ==
  /\ NoCall \in PiperRecord /\ NoCall.at = "no"
  /\ \A f \in File : [at |-> "rf", rf |-> f, wf |-> None] \in PiperRecord
BY DEF PiperRecord, NoCall

LEMMA TakeEffect ==
  ASSUME FilesTypeOK, NEW g \in File
  PROVE  /\ [ftable EXCEPT ![g].ref = 1] \in [File -> FileRecord]
         /\ \A f \in File : [ftable EXCEPT ![g].ref = 1][f].ref =
                              IF f = g THEN 1 ELSE ftable[f].ref
<1>1. PICK r : r = [ftable[g] EXCEPT !.ref = 1]
  OBVIOUS
<1>2. r \in FileRecord /\ r.ref = 1
  BY <1>1 DEF FilesTypeOK, FileRecord
<1>3. [ftable EXCEPT ![g].ref = 1] = [ftable EXCEPT ![g] = r]
  BY <1>1 DEF FilesTypeOK
<1>. QED  BY <1>2, <1>3 DEF FilesTypeOK

LEMMA EndEffect ==
  ASSUME NEW r \in FileRecord, NEW k \in Nat, NEW a \in BOOLEAN, NEW b \in BOOLEAN
  PROVE  LET e == [r EXCEPT !.type = "pipe", !.pipe = k, !.readable = a,
                            !.writable = b]
         IN e \in FileRecord /\ e.ref = r.ref
BY DEF FileRecord

LEMMA EndsEffect ==
  ASSUME FilesTypeOK, NEW p \in Slots, MakeEnds(p),
         piper[p].rf \in File, piper[p].wf \in File
  PROVE  /\ ftable' \in [File -> FileRecord] /\ npipes' \in Nat
         /\ \A f \in File : ftable'[f].ref = ftable[f].ref
<1>. DEFINE rf == piper[p].rf
            wf == piper[p].wf
            k  == npipes + 1
<1>1. k \in Nat /\ npipes' = k
  BY DEF FilesTypeOK, MakeEnds
<1>2. ftable[rf] \in FileRecord /\ ftable[wf] \in FileRecord
  BY DEF FilesTypeOK
<1>3. PICK r \in FileRecord :
        /\ r.ref = ftable[rf].ref
        /\ r = [ftable[rf] EXCEPT !.type = "pipe", !.pipe = k,
                                  !.readable = TRUE, !.writable = FALSE]
  BY <1>1, <1>2, EndEffect
<1>4. PICK w \in FileRecord :
        /\ w.ref = ftable[wf].ref
        /\ w = [ftable[wf] EXCEPT !.type = "pipe", !.pipe = k,
                                  !.readable = FALSE, !.writable = TRUE]
  BY <1>1, <1>2, EndEffect
<1>5. ftable' = [ftable EXCEPT ![rf] = r, ![wf] = w]
  BY <1>3, <1>4 DEF MakeEnds
<1>. QED  BY <1>1, <1>3, <1>4, <1>5 DEF FilesTypeOK

LEMMA FilesTypeStep ==
  TypeOK /\ FilesTypeOK /\ LocalsOK /\ [FilesNext]_allvars
    => FilesTypeOK' /\ LocalsOK'
<1>. SUFFICES ASSUME TypeOK, FilesTypeOK, LocalsOK, [FilesNext]_allvars
              PROVE  FilesTypeOK' /\ LocalsOK'
  OBVIOUS
<1>. DEFINE Goal == FilesTypeOK' /\ LocalsOK'
<1>1. CASE UNCHANGED files
  BY <1>1 DEF files, FilesTypeOK, LocalsOK
<1>2. ASSUME NEW p \in Slots, ForkFiles(p) \/ LostForkFiles(p)
      PROVE  Goal
  <2>1. UNCHANGED piper
    BY <1>2 DEF ForkFiles, LostForkFiles
  <2>. QED  BY <1>2, <2>1, ForkFilesEffect DEF LocalsOK
<1>3. ASSUME NEW p \in Slots, ForkDies(p)
      PROVE  Goal
  BY <1>3 DEF ForkDies, FilesTypeOK, LocalsOK
<1>4. ASSUME NEW p \in Slots, PipeCall(p)
      PROVE  Goal
  <2>1. PICK f \in File :
          piper' = [piper EXCEPT ![p] = [at |-> "rf", rf |-> f, wf |-> None]]
    BY <1>4 DEF PipeCall
  <2>2. [at |-> "rf", rf |-> f, wf |-> None] \in PiperRecord
    BY PiperStarts
  <2>3. LocalsOK'
    BY <2>1 DEF FilesTypeOK, LocalsOK
  <2>. QED  BY <1>4, <2>1, <2>2, <2>3 DEF PipeCall, FilesTypeOK, PiperRecord
<1>5. ASSUME NEW p \in Slots, PipeSecond(p)
      PROVE  Goal
  <2>1. PICK f \in File : piper' = [piper EXCEPT ![p].at = "wf", ![p].wf = f]
    BY <1>5 DEF PipeSecond
  <2>2. piper[p] \in PiperRecord
    BY DEF FilesTypeOK, PiperRecord
  <2>3. PICK r \in PiperRecord :
          /\ r = [piper[p] EXCEPT !.at = "wf", !.wf = f]
          /\ r.at = "wf" /\ r.rf = piper[p].rf /\ r.wf = f
    BY <2>2, PiperChooses
  <2>4. piper' = [piper EXCEPT ![p] = r]
    BY <2>1, <2>3 DEF FilesTypeOK
  <2>5. piper[p].rf \in File
    BY <1>5 DEF PipeSecond, LocalsOK
  <2>6. LocalsOK'
    BY <2>3, <2>4, <2>5 DEF FilesTypeOK, LocalsOK
  <2>. QED  BY <1>5, <2>4, <2>6 DEF PipeSecond, FilesTypeOK, PiperRecord
<1>6. ASSUME NEW p \in Slots, PipeNoFile(p) \/ PipeNoPage(p)
      PROVE  Goal
  <2>1. Leave(p) /\ UNCHANGED <<ftable, ofile, npipes, dead>>
    BY <1>6 DEF PipeNoFile, PipeNoPage
  <2>. QED
    BY <2>1, PiperStarts DEF Leave, FilesTypeOK, LocalsOK, PiperRecord
<1>7. ASSUME NEW p \in Slots, PipeTake(p)
      PROVE  Goal
  <2>1. PICK g \in File, a \in {"second", "page"} :
          /\ ftable' = [ftable EXCEPT ![g].ref = 1]
          /\ piper' = [piper EXCEPT ![p].at = a]
          /\ a = "page" => piper[p].at = "wf"
    <3>1. CASE piper[p].at = "rf"
      BY <1>7, <3>1 DEF PipeTake, LocalsOK
    <3>2. CASE piper[p].at = "wf"
      BY <1>7, <3>2 DEF PipeTake, LocalsOK
    <3>. QED  BY <1>7, <3>1, <3>2 DEF PipeTake
  <2>2. piper[p] \in PiperRecord
    BY DEF FilesTypeOK, PiperRecord
  <2>3. PICK r \in PiperRecord :
          /\ r = [piper[p] EXCEPT !.at = a]
          /\ r.at = a /\ r.rf = piper[p].rf /\ r.wf = piper[p].wf
    <3>1. PICK r : r = [piper[p] EXCEPT !.at = a]
      OBVIOUS
    <3>2. r \in PiperRecord /\ r.at = a
          /\ r.rf = piper[p].rf /\ r.wf = piper[p].wf
      BY <2>2, <3>1 DEF PiperRecord
    <3>. QED  BY <3>1, <3>2
  <2>4. piper' = [piper EXCEPT ![p] = r]
    BY <2>1, <2>3 DEF FilesTypeOK
  <2>5. piper[p].rf \in File
    BY <1>7 DEF PipeTake, LocalsOK
  <2>6. LocalsOK'
    BY <2>1, <2>3, <2>4, <2>5 DEF FilesTypeOK, LocalsOK
  <2>7. ftable' \in [File -> FileRecord]
    BY <2>1, TakeEffect
  <2>. QED  BY <1>7, <2>4, <2>6, <2>7 DEF PipeTake, FilesTypeOK, PiperRecord
<1>8. ASSUME NEW p \in Slots, PipeOpen(p) \/ PipeBad(p)
      PROVE  Goal
  <2>1. MakeEnds(p) /\ Leave(p) /\ UNCHANGED dead /\ piper[p].at = "page"
    BY <1>8 DEF PipeOpen, PipeBad
  <2>2. piper[p].rf \in File /\ piper[p].wf \in File
    BY <2>1 DEF LocalsOK
  <2>3. ofile' \in [Slots -> [Fd -> File \cup {None}]]
    <3>1. CASE PipeOpen(p)
      <4>1. PICK r \in Fd, w \in Fd :
              ofile' = [ofile EXCEPT ![p][r] = piper[p].rf, ![p][w] = piper[p].wf]
        BY <3>1 DEF PipeOpen, Closed
      <4>. QED  BY <4>1, <2>2 DEF FilesTypeOK
    <3>. QED  BY <1>8, <3>1 DEF PipeBad, FilesTypeOK
  <2>4. piper' \in [Slots -> PiperRecord] /\ LocalsOK'
    BY <2>1, PiperStarts DEF Leave, PiperRecord, FilesTypeOK, LocalsOK
  <2>. QED
    BY <2>1, <2>2, <2>3, <2>4, EndsEffect DEF FilesTypeOK, PiperRecord
<1>. QED
  BY <1>1, <1>2, <1>3, <1>4, <1>5, <1>6, <1>7, <1>8
     DEF FilesNext, FilesHalt, FilesStop, FilesKernel, FilesCall, FilesFork,
         FilesWait, FilesForkCall, NoPipe, PipeSteps, allvars, files

LEMMA FilesTypeInvariant == FilesSpec => [](TypeOK /\ FilesTypeOK /\ LocalsOK)
<1>1. FilesSpec => []TypeOK
  BY FilesImplementsProc, TypeCorrect, PTL
<1>2. FilesInit => LocalsOK
  BY DEF FilesInit, NoCall, LocalsOK
<1>. QED  BY <1>1, <1>2, FilesTypeInit, FilesTypeStep, PTL DEF FilesSpec

\* The tables, descriptors and locals keep their types, also when files run
\* out (filealloc, fdalloc, sys_pipe, kfork).
THEOREM FilesTypeCorrect == FilesSpec => []FilesTypeOK
BY FilesTypeInvariant, PTL

-------------------------------------------------------------------------
(* The references.                                                         *)

LEMMA FewerHolders ==
  ASSUME NEW S \in SUBSET Slots, NEW T \in SUBSET S, NEW n \in Nat, NEW m \in Nat,
         Cardinality(S) <= n, n <= m
  PROVE  Cardinality(T) <= m
<1>1. IsFiniteSet(S)
  BY TableFacts, FS_Subset
<1>2. IsFiniteSet(T) /\ Cardinality(T) <= Cardinality(S)
  BY <1>1, FS_Subset
<1>. QED  BY <1>1, <1>2, FS_CardinalityType

LEMMA OneMoreHolder ==
  ASSUME NEW S \in SUBSET Slots, NEW c \in Slots, NEW T \in SUBSET (S \cup {c}),
         NEW n \in Nat, NEW m \in Nat, Cardinality(S) <= n, n + 1 <= m
  PROVE  Cardinality(T) <= m
<1>1. IsFiniteSet(S)
  BY TableFacts, FS_Subset
<1>2. PICK U : U = S \cup {c}
  OBVIOUS
<1>3. IsFiniteSet(U) /\ Cardinality(U) \in Nat /\ Cardinality(U) <= n + 1
  BY <1>1, <1>2, FS_AddElement, FS_CardinalityType
<1>4. U \in SUBSET Slots /\ T \in SUBSET U /\ n + 1 \in Nat
  BY <1>2
<1>. QED  BY <1>3, <1>4, FewerHolders

\* Nobody can reach a file whose ref is 0.
LEMMA FreeUnheld ==
  ASSUME FilesTypeOK, RefCovers, NEW f \in File, ftable[f].ref = 0
  PROVE  Holders(f) = {}
<1>1. Holders(f) \in SUBSET Slots
  BY DEF Holders
<1>2. IsFiniteSet(Holders(f))
  BY <1>1, TableFacts, FS_Subset
<1>3. Cardinality(Holders(f)) <= 0
  BY DEF RefCovers
<1>. QED  BY <1>2, <1>3, FS_CardinalityType, FS_EmptySet

LEMMA CountedCovers ==
  ASSUME FilesTypeOK, FilesTypeOK', RefCovers, NEW c \in Slots, NEW f \in File,
         Counted(f, c)
  PROVE  Cardinality(Holders(f)') <= ftable'[f].ref
<1>1. ftable[f].ref \in Nat /\ ftable'[f].ref \in Nat
  BY DEF FilesTypeOK, FileRecord
<1>2. Holders(f) \in SUBSET Slots /\ Cardinality(Holders(f)) <= ftable[f].ref
  BY DEF Holders, RefCovers
<1>3. PICK T : T = Holders(f)'
  OBVIOUS
<1>4. CASE T \subseteq Holders(f) /\ ftable'[f].ref >= ftable[f].ref
  BY <1>1, <1>2, <1>3, <1>4, FewerHolders
<1>5. CASE /\ T \subseteq Holders(f) \cup {c}
           /\ ftable'[f].ref >= ftable[f].ref + 1
  BY <1>1, <1>2, <1>3, <1>5, OneMoreHolder
<1>. QED  BY <1>3, <1>4, <1>5 DEF Counted

\* When p is the process in sys_pipe, it is alone there with nobody in fork,
\* the file it has found is still free when it takes it, and the files it has
\* taken are in nobody's descriptors.
ApartAt(p) ==
  /\ \A q \in Slots : ~ At(q, "fork") /\ (Piping(q) => q = p)
  /\ piper[p].at = "rf" => ftable[piper[p].rf].ref = 0
  /\ piper[p].at \in {"second", "wf", "page"} =>
       ftable[piper[p].rf].ref >= 1 /\ Holders(piper[p].rf) = {}
  /\ piper[p].at = "wf" => ftable[piper[p].wf].ref = 0
  /\ piper[p].at = "page" =>
       /\ ftable[piper[p].wf].ref >= 1 /\ Holders(piper[p].wf) = {}
       /\ piper[p].wf # piper[p].rf

Apart == \A p \in Slots : Piping(p) => ApartAt(p)

CoverInv == FilesTypeOK /\ LocalsOK /\ RefCovers /\ Apart

\* Only ForkCall brings a process into fork.
LEMMA NoNewFork ==
  ASSUME TypeOK, NEW p \in Slots,
         WaitCall(p) \/ Exit(p) \/ WaitReap(p) \/ WaitPass(p),
         NEW q \in Slots, ~ At(q, "fork")
  PROVE  ~ At(q, "fork")'
BY DEF TypeOK, At, Locks, WaitCall, Exit, WaitReap, WaitPass, Return

\* Steps that leave references and descriptors alone leave RefCovers alone.
LEMMA SameTables ==
  ASSUME FilesTypeOK, RefCovers, FilesTypeOK', UNCHANGED ofile,
         \A f \in File : ftable'[f].ref = ftable[f].ref
  PROVE  RefCovers' /\ \A f \in File : Holders(f)' = Holders(f)
<1>1. \A f \in File : Holders(f)' = Holders(f)
  BY DEF Holders
<1>. QED  BY <1>1 DEF RefCovers

\* The process in sys_pipe advances and nothing else changes.
LEMMA OtherPiper ==
  ASSUME TypeOK, FilesTypeOK, Apart, NEW p \in Slots, Piping(p),
         UNCHANGED vars, NEW r \in PiperRecord, piper' = [piper EXCEPT ![p] = r]
  PROVE  /\ \A q \in Slots : ~ At(q, "fork")' /\ (Piping(q)' => q = p)
         /\ ApartAt(p)' => Apart'
         /\ r.at = "no" => Apart'
<1>1. \A q \in Slots : ~ At(q, "fork") /\ (Piping(q) => q = p)
  BY DEF Apart, ApartAt
<1>2. \A q \in Slots : ~ At(q, "fork")'
  BY <1>1 DEF At, vars
<1>3. \A q \in Slots : Piping(q)' => q = p
  BY <1>1 DEF Piping, FilesTypeOK
<1>4. r.at = "no" => ~ Piping(p)'
  BY DEF Piping, FilesTypeOK
<1>. QED  BY <1>2, <1>3, <1>4 DEF Apart

LEMMA CoverFork ==
  ASSUME TypeOK, CoverInv, FilesTypeOK', NEW p \in Slots, At(p, "fork"),
         ForkFiles(p) \/ LostForkFiles(p)
  PROVE  RefCovers' /\ Apart'
<1>1. cur[p] \in Slots
  BY DEF TypeOK
<1>2. RefCovers'
  <2>1. \A f \in File : Counted(f, cur[p])
    BY ForkFilesEffect DEF CoverInv
  <2>. QED  BY <1>1, <2>1, CountedCovers DEF CoverInv, RefCovers
<1>3. UNCHANGED piper
  BY DEF ForkFiles, LostForkFiles
<1>. QED  BY <1>2, <1>3 DEF CoverInv, Apart, ApartAt, Piping

LEMMA CoverCall ==
  ASSUME Serial, TypeOK, CoverInv, FilesTypeOK', NEW p \in Slots, PipeCall(p)
  PROVE  RefCovers' /\ Apart'
<1>1. PICK f \in File :
        /\ Lowest(Free, f)
        /\ piper' = [piper EXCEPT ![p] = [at |-> "rf", rf |-> f, wf |-> None]]
  BY DEF PipeCall
<1>2. ftable[f].ref = 0
  BY <1>1 DEF Lowest, Free
<1>3. \A q \in Slots : ~ Piping(q) /\ ~ At(q, "fork")
  BY DEF PipeCall
<1>4. UNCHANGED <<vars, ftable, ofile>>
  BY DEF PipeCall
<1>5. piper'[p] = [at |-> "rf", rf |-> f, wf |-> None]
  BY <1>1 DEF CoverInv, FilesTypeOK
<1>6. \A q \in Slots : ~ At(q, "fork")' /\ (Piping(q)' => q = p)
  BY <1>1, <1>3, <1>4 DEF At, Piping, vars, CoverInv, FilesTypeOK
<1>7. ApartAt(p)'
  BY <1>2, <1>4, <1>5, <1>6 DEF ApartAt
<1>8. RefCovers'
  BY <1>4, SameTables DEF CoverInv
<1>. QED  BY <1>6, <1>7, <1>8 DEF Apart

LEMMA CoverSecond ==
  ASSUME TypeOK, CoverInv, FilesTypeOK', NEW p \in Slots, PipeSecond(p)
  PROVE  RefCovers' /\ Apart'
<1>1. PICK f \in File :
        /\ Lowest(Free, f)
        /\ piper' = [piper EXCEPT ![p].at = "wf", ![p].wf = f]
  BY DEF PipeSecond
<1>2. ftable[f].ref = 0
  BY <1>1 DEF Lowest, Free
<1>3. UNCHANGED <<vars, ftable, ofile>> /\ piper[p].at = "second"
  BY DEF PipeSecond
<1>4. Piping(p) /\ ApartAt(p)
  BY <1>3 DEF Piping, CoverInv, Apart
<1>5. piper[p] \in PiperRecord
  BY DEF CoverInv, FilesTypeOK, PiperRecord
<1>6. PICK r \in PiperRecord :
        /\ r = [piper[p] EXCEPT !.at = "wf", !.wf = f]
        /\ r.at = "wf" /\ r.rf = piper[p].rf /\ r.wf = f
  BY <1>5, PiperChooses
<1>7. piper' = [piper EXCEPT ![p] = r] /\ piper'[p] = r
  BY <1>1, <1>6 DEF CoverInv, FilesTypeOK
<1>8. RefCovers' /\ \A g \in File : Holders(g)' = Holders(g)
  BY <1>3, SameTables DEF CoverInv
<1>9. piper[p].rf \in File
  BY <1>3 DEF CoverInv, LocalsOK
<1>10. \A q \in Slots : ~ At(q, "fork")' /\ (Piping(q)' => q = p)
  BY <1>3, <1>4, <1>7, OtherPiper DEF CoverInv
<1>11. ApartAt(p)'
  BY <1>2, <1>3, <1>4, <1>6, <1>7, <1>8, <1>9, <1>10 DEF ApartAt
<1>. QED  BY <1>3, <1>4, <1>7, <1>8, <1>11, OtherPiper DEF CoverInv

LEMMA CoverTake ==
  ASSUME TypeOK, CoverInv, FilesTypeOK', NEW p \in Slots, PipeTake(p)
  PROVE  RefCovers' /\ Apart'
<1>1. PICK g \in File, a \in {"second", "page"} :
        /\ ftable' = [ftable EXCEPT ![g].ref = 1]
        /\ piper' = [piper EXCEPT ![p].at = a]
        /\ a = "second" => piper[p].at = "rf" /\ g = piper[p].rf
        /\ a = "page" => piper[p].at = "wf" /\ g = piper[p].wf
  <2>1. CASE piper[p].at = "rf"
    BY <2>1 DEF PipeTake, CoverInv, LocalsOK
  <2>2. CASE piper[p].at = "wf"
    BY <2>2 DEF PipeTake, CoverInv, LocalsOK
  <2>. QED  BY <2>1, <2>2 DEF PipeTake
<1>2. UNCHANGED <<vars, ofile>>
  BY DEF PipeTake
<1>3. Piping(p) /\ ApartAt(p)
  BY <1>1 DEF Piping, CoverInv, Apart
<1>4. piper[p] \in PiperRecord
  BY DEF CoverInv, FilesTypeOK, PiperRecord
<1>5. PICK r : r = [piper[p] EXCEPT !.at = a]
  OBVIOUS
<1>6. r \in PiperRecord /\ r.at = a /\ r.rf = piper[p].rf /\ r.wf = piper[p].wf
  BY <1>4, <1>5 DEF PiperRecord
<1>7. piper' = [piper EXCEPT ![p] = r] /\ piper'[p] = r
  BY <1>1, <1>5 DEF CoverInv, FilesTypeOK
<1>8. \A f \in File : ftable'[f].ref = IF f = g THEN 1 ELSE ftable[f].ref
  BY <1>1, TakeEffect DEF CoverInv
<1>9. ftable[g].ref = 0 /\ Holders(g) = {}
  <2>1. ftable[g].ref = 0
    BY <1>1, <1>3 DEF ApartAt
  <2>. QED  BY <2>1, FreeUnheld DEF CoverInv
<1>10. \A f \in File : Holders(f)' = Holders(f)
  BY <1>2 DEF Holders
<1>11. RefCovers'
  BY <1>8, <1>9, <1>10, FS_EmptySet DEF CoverInv, RefCovers
<1>12. \A q \in Slots : ~ At(q, "fork")' /\ (Piping(q)' => q = p)
  BY <1>2, <1>3, <1>6, <1>7, OtherPiper DEF CoverInv
<1>13. piper[p].rf \in File
  BY <1>1 DEF CoverInv, LocalsOK
<1>14. ApartAt(p)'
  <2>1. CASE a = "second"
    BY <2>1, <1>1, <1>6, <1>7, <1>8, <1>9, <1>10, <1>12, <1>13 DEF ApartAt
  <2>2. CASE a = "page"
    <3>1. /\ ftable[piper[p].rf].ref >= 1 /\ Holders(piper[p].rf) = {}
          /\ g = piper[p].wf /\ g # piper[p].rf
      BY <2>2, <1>1, <1>3, <1>9 DEF ApartAt
    <3>. QED
      BY <2>2, <3>1, <1>6, <1>7, <1>8, <1>9, <1>10, <1>12, <1>13 DEF ApartAt
  <2>. QED  BY <2>1, <2>2
<1>. QED  BY <1>2, <1>3, <1>6, <1>7, <1>11, <1>14, OtherPiper DEF CoverInv

LEMMA CoverLeave ==
  ASSUME TypeOK, CoverInv, FilesTypeOK', NEW p \in Slots,
         PipeNoFile(p) \/ PipeNoPage(p) \/ PipeOpen(p) \/ PipeBad(p)
  PROVE  RefCovers' /\ Apart'
<1>1. Leave(p) /\ UNCHANGED vars /\ Piping(p)
  BY DEF PipeNoFile, PipeNoPage, PipeOpen, PipeBad, Piping
<1>2. Apart'
  BY <1>1, PiperStarts, OtherPiper DEF Leave, CoverInv
<1>3. \A f \in File : ftable'[f].ref = ftable[f].ref
  <2>1. CASE PipeNoFile(p) \/ PipeNoPage(p)
    BY <2>1 DEF PipeNoFile, PipeNoPage
  <2>2. CASE PipeOpen(p) \/ PipeBad(p)
    <3>1. MakeEnds(p) /\ piper[p].at = "page"
      BY <2>2 DEF PipeOpen, PipeBad
    <3>. QED  BY <3>1, EndsEffect DEF CoverInv, LocalsOK
  <2>. QED  BY <2>1, <2>2
<1>4. CASE UNCHANGED ofile
  BY <1>2, <1>3, <1>4, SameTables DEF CoverInv
<1>5. CASE PipeOpen(p)
  <2>1. PICK d \in Fd, e \in Fd :
          /\ ofile[p][d] = None /\ ofile[p][e] = None
          /\ ofile' = [ofile EXCEPT ![p][d] = piper[p].rf, ![p][e] = piper[p].wf]
    BY <1>5 DEF PipeOpen, Closed
  <2>2. /\ piper[p].at = "page" /\ ApartAt(p)
        /\ piper[p].rf \in File /\ piper[p].wf \in File
    BY <1>1, <1>5 DEF PipeOpen, CoverInv, Apart, LocalsOK
  <2>3. ASSUME NEW f \in File
        PROVE  Cardinality(Holders(f)') <= ftable'[f].ref
    <3>1. ftable[f].ref \in Nat
      BY DEF CoverInv, FilesTypeOK, FileRecord
    <3>2. CASE f \in {piper[p].rf, piper[p].wf}
      <4>1. Holders(f)' \subseteq Holders(f) \cup {p}
        BY <2>1, <2>2 DEF Holders, CoverInv, FilesTypeOK
      <4>2. Holders(f) = {} /\ ftable[f].ref >= 1
        BY <2>2, <3>2 DEF ApartAt
      <4>. QED
        BY <4>1, <4>2, <3>1, <1>3, FS_EmptySet, OneMoreHolder DEF Holders
    <3>3. CASE f \notin {piper[p].rf, piper[p].wf}
      <4>1. Holders(f)' \subseteq Holders(f)
        BY <2>1, <2>2, <3>3 DEF Holders, CoverInv, FilesTypeOK
      <4>2. Counted(f, p)
        BY <4>1, <3>1, <1>3 DEF Counted
      <4>. QED  BY <4>2, CountedCovers DEF CoverInv
    <3>. QED  BY <3>2, <3>3
  <2>. QED  BY <1>2, <2>3 DEF RefCovers
<1>. QED  BY <1>4, <1>5 DEF PipeNoFile, PipeNoPage, PipeBad

LEMMA CoverProc ==
  ASSUME Serial, TypeOK, CoverInv, FilesTypeOK', NEW p \in Slots, UNCHANGED files,
         \/ FilesForkCall(p) \/ WaitCall(p) \/ Exit(p)
         \/ ForkSkip(p) \/ ForkFull(p) \/ ForkNoPage(p) \/ ForkNoTable(p)
         \/ WaitReap(p) \/ WaitPass(p)
  PROVE  RefCovers' /\ Apart'
<1>1. RefCovers' /\ \A f \in File : Holders(f)' = Holders(f)
  BY SameTables DEF CoverInv, files
<1>2. CASE \A q \in Slots : ~ Piping(q)
  BY <1>1, <1>2 DEF Apart, Piping, files
<1>3. CASE FilesForkCall(p)
  BY <1>2, <1>3 DEF FilesForkCall
<1>4. CASE At(p, "fork")
  BY <1>2, <1>4 DEF CoverInv, Apart, ApartAt
<1>5. CASE WaitCall(p) \/ Exit(p) \/ WaitReap(p) \/ WaitPass(p)
  <2>1. ASSUME NEW q \in Slots, Piping(q)'
        PROVE  ApartAt(q)'
    <3>1. Piping(q) /\ ApartAt(q)
      BY <2>1 DEF Piping, files, CoverInv, Apart
    <3>2. \A s \in Slots : ~ At(s, "fork")'
      BY <3>1, <1>5, NoNewFork DEF ApartAt
    <3>3. piper[q].at \in {"second", "wf", "page"} => piper[q].rf \in File
      BY DEF CoverInv, LocalsOK
    <3>4. piper[q].at = "page" => piper[q].wf \in File
      BY DEF CoverInv, LocalsOK
    <3>. QED  BY <3>1, <3>2, <3>3, <3>4, <1>1 DEF ApartAt, Piping, files
  <2>. QED  BY <1>1, <2>1 DEF Apart
<1>. QED
  BY <1>3, <1>4, <1>5 DEF ForkSkip, ForkFull, ForkNoPage, ForkNoTable, Locks

LEMMA CoverStep ==
  ASSUME Serial
  PROVE  TypeOK /\ CoverInv /\ [FilesNext]_allvars => CoverInv'
<1>. SUFFICES ASSUME TypeOK, CoverInv, [FilesNext]_allvars
              PROVE  CoverInv'
  OBVIOUS
<1>1. FilesTypeOK' /\ LocalsOK'
  BY FilesTypeStep DEF CoverInv
<1>. SUFFICES RefCovers' /\ Apart'
  BY <1>1 DEF CoverInv
<1>3. CASE UNCHANGED allvars
  <2>1. RefCovers' /\ \A f \in File : Holders(f)' = Holders(f)
    BY <1>1, <1>3, SameTables DEF CoverInv, allvars, files
  <2>2. ASSUME NEW p \in Slots, Piping(p)'
        PROVE  ApartAt(p)'
    <3>1. Piping(p) /\ ApartAt(p)
      BY <2>2, <1>3 DEF allvars, files, Piping, CoverInv, Apart
    <3>. QED
      BY <3>1, <1>3, <2>1 DEF allvars, files, vars, ApartAt, At, Piping, Holders
  <2>. QED  BY <2>1, <2>2 DEF Apart
<1>4. ASSUME NEW p \in Slots, FilesFork(p) \/ FilesWait(p)
      PROVE  RefCovers' /\ Apart'
  <2>1. CASE ForkFound(p) /\ ForkFiles(p)
    BY <2>1, <1>1, CoverFork DEF ForkFound, Locks
  <2>2. CASE ForkCopyFails(p) /\ LostForkFiles(p)
    BY <2>2, <1>1, CoverFork DEF ForkCopyFails, Locks
  <2>3. CASE /\ UNCHANGED files
             /\ \/ ForkSkip(p) \/ ForkFull(p)
                \/ ForkNoPage(p) \/ ForkNoTable(p)
                \/ WaitReap(p) \/ WaitPass(p)
    BY <2>3, <1>1, CoverProc
  <2>. QED  BY <1>4, <2>1, <2>2, <2>3 DEF FilesFork, FilesWait
<1>5. ASSUME NEW p \in Slots, FilesForkCall(p) \/ WaitCall(p) \/ Exit(p),
             UNCHANGED files
      PROVE  RefCovers' /\ Apart'
  BY <1>5, <1>1, CoverProc
<1>6. ASSUME NEW p \in Slots, PipeCall(p) \/ PipeSteps(p)
      PROVE  RefCovers' /\ Apart'
  BY <1>6, <1>1, CoverCall, CoverSecond, CoverTake, CoverLeave DEF PipeSteps
<1>7. CASE UNCHANGED vars /\ UNCHANGED <<ftable, ofile, piper, npipes>>
  <2>1. RefCovers' /\ \A f \in File : Holders(f)' = Holders(f)
    BY <1>1, <1>7, SameTables DEF CoverInv
  <2>2. ASSUME NEW p \in Slots, Piping(p)'
        PROVE  ApartAt(p)'
    <3>1. Piping(p) /\ ApartAt(p)
      BY <2>2, <1>7 DEF Piping, CoverInv, Apart
    <3>. QED
      BY <3>1, <1>7, <2>1 DEF vars, ApartAt, At, Piping, Holders
  <2>. QED  BY <2>1, <2>2 DEF Apart
<1>8. ASSUME NEW p \in Slots, ForkDies(p)
      PROVE  RefCovers' /\ Apart'
  BY <1>8, <1>7 DEF ForkDies
<1>9. CASE FilesStop
  <2>1. RefCovers' /\ \A f \in File : Holders(f)' = Holders(f)
    BY <1>1, <1>9, SameTables DEF CoverInv, FilesStop, Stop, files
  <2>2. ASSUME NEW p \in Slots, Piping(p)'
        PROVE  ApartAt(p)'
    <3>1. Piping(p) /\ ApartAt(p)
      BY <2>2, <1>9 DEF FilesStop, files, Piping, CoverInv, Apart
    <3>2. \A q \in Slots : ~ At(q, "fork")'
      BY <1>9 DEF FilesStop, Stop, At
    <3>. QED
      BY <3>1, <3>2, <1>9, <2>1 DEF FilesStop, files, ApartAt, Piping, Holders
  <2>. QED  BY <2>1, <2>2 DEF Apart
<1>. QED
  BY <1>3, <1>4, <1>5, <1>6, <1>8, <1>9
     DEF FilesNext, FilesHalt, FilesKernel, FilesCall, FilesForkCall, NoPipe

LEMMA CoverInit == FilesInit => CoverInv
<1>. SUFFICES ASSUME FilesInit
              PROVE  CoverInv
  OBVIOUS
<1>2. FilesTypeOK
  BY FilesTypeInit
<1>3. LocalsOK /\ Apart
  BY DEF FilesInit, NoCall, LocalsOK, Apart, Piping
<1>4. ASSUME NEW f \in File
      PROVE  Cardinality(Holders(f)) <= ftable[f].ref
  <2>1. CASE f \in {0, 1}
    <3>1. Holders(f) \subseteq {0} /\ ftable[f].ref = 1
      BY <2>1, TableFacts
         DEF FilesInit, Holders, WithConsole, ConsoleOut, ConsoleIn, Unused
    <3>2. {} \in SUBSET Slots /\ 0 \in Slots
          /\ Holders(f) \in SUBSET ({} \cup {0})
      BY <3>1, SlotFacts
    <3>. QED  BY <3>1, <3>2, FS_EmptySet, OneMoreHolder
  <2>2. CASE f \notin {0, 1}
    <3>1. \A s \in Slots, d \in Fd : ofile[s][d] \in {0, 1, None}
      BY NOFILEAssumption DEF FilesInit, Fd
    <3>2. Holders(f) = {}
      BY <2>2, <3>1, TableFacts DEF Holders
    <3>3. ftable[f].ref = 0
      BY <2>2, TableFacts DEF FilesInit, WithConsole, Unused
    <3>. QED  BY <3>2, <3>3, FS_EmptySet
  <2>. QED  BY <2>1, <2>2
<1>. QED  BY <1>2, <1>3, <1>4 DEF CoverInv, RefCovers

\* When programs call pipe apart from other pipes and forks, filealloc (fork's
\* allocproc, sys_pipe) gives out no file that some slot still has a descriptor
\* for, whatever fails on the way and however slots are reused.
THEOREM FilesStayCovered ==
  ASSUME Serial
  PROVE  FilesSpec => []RefCovers
<1>1. FilesSpec => []TypeOK
  BY FilesTypeInvariant, PTL
<1>2. CoverInv => RefCovers
  BY DEF CoverInv
<1>. QED  BY <1>1, <1>2, CoverInit, CoverStep, PTL DEF FilesSpec

-------------------------------------------------------------------------
(* What descriptors stand for.                                             *)

Blank(f) == /\ ftable[f].type = "none"
            /\ ~ ftable[f].readable /\ ~ ftable[f].writable

PipeFiles == {f \in File : ftable[f].type = "pipe"}

\* A file that was never given out, or only to a process still in sys_pipe,
\* is blank; one that somebody holds can be read or written.  Each pipe has
\* a name of its own, and there are no more of them than files.
FilesNamed ==
  /\ \A f \in File :
       /\ ftable[f].ref = 0 => Blank(f)
       /\ Holders(f) # {} => ftable[f].readable \/ ftable[f].writable
       /\ ftable[f].type = "pipe" => ftable[f].pipe \in 1 .. npipes
  /\ \A p \in Slots :
       /\ piper[p].at \in {"second", "wf", "page"} => Blank(piper[p].rf)
       /\ piper[p].at = "page" => Blank(piper[p].wf)
  /\ npipes <= Cardinality(PipeFiles)

ViewInv == TypeOK /\ CoverInv /\ FilesNamed

\* What the next step leaves of a file but its ref.
SameShape(f) ==
  /\ ftable'[f].type = ftable[f].type /\ ftable'[f].pipe = ftable[f].pipe
  /\ ftable'[f].readable = ftable[f].readable
  /\ ftable'[f].writable = ftable[f].writable

LEMMA ConsoleShapes ==
  ASSUME FilesTypeOK, NEW out \in Free, NEW in \in Free, out # in,
         NEW t, t = WithConsole(ftable, out, in)
  PROVE  /\ t[out].type = "console" /\ t[out].writable
         /\ t[out].readable = ftable[out].readable
         /\ t[in].type = "console" /\ t[in].readable
         /\ t[in].writable = ftable[in].writable
         /\ \A f \in File : f \notin {out, in} => t[f] = ftable[f]
<1>1. out \in File /\ in \in File
  BY DEF Free
<1>2. ftable[out] \in FileRecord /\ ftable[in] \in FileRecord
  BY <1>1 DEF FilesTypeOK
<1>3. PICK r : r = ConsoleOut(ftable[out])
  OBVIOUS
<1>4. PICK w : w = ConsoleIn(ftable[in])
  OBVIOUS
<1>5. r.type = "console" /\ r.writable /\ r.readable = ftable[out].readable
  BY <1>2, <1>3 DEF ConsoleOut, FileRecord
<1>6. w.type = "console" /\ w.readable /\ w.writable = ftable[in].writable
  BY <1>2, <1>4 DEF ConsoleIn, FileRecord
<1>7. t = [ftable EXCEPT ![out] = r, ![in] = w]
  BY <1>1, <1>3, <1>4 DEF WithConsole, FilesTypeOK
<1>. QED  BY <1>1, <1>5, <1>6, <1>7 DEF FilesTypeOK

LEMMA CopyShapes ==
  ASSUME NEW t \in [File -> FileRecord], NEW p \in Slots, NEW f \in File
  PROVE  LET u == CopyCounts(t, p)
         IN /\ u[f].type = t[f].type /\ u[f].pipe = t[f].pipe
            /\ u[f].readable = t[f].readable /\ u[f].writable = t[f].writable
<1>1. PICK n : n = Cardinality(Copied(p, f))
  OBVIOUS
<1>2. PICK r : r = [t[f] EXCEPT !.ref = @ + n]
  OBVIOUS
<1>3. r.type = t[f].type /\ r.pipe = t[f].pipe
      /\ r.readable = t[f].readable /\ r.writable = t[f].writable
  BY <1>2 DEF FileRecord
<1>4. CopyCounts(t, p)[f] = r
  BY <1>1, <1>2 DEF CopyCounts
<1>. QED  BY <1>3, <1>4

LEMMA TakeShapes ==
  ASSUME FilesTypeOK, NEW g \in File, ftable' = [ftable EXCEPT ![g].ref = 1],
         NEW f \in File
  PROVE  SameShape(f)
<1>1. PICK r : r = [ftable[g] EXCEPT !.ref = 1]
  OBVIOUS
<1>2. r.type = ftable[g].type /\ r.pipe = ftable[g].pipe
      /\ r.readable = ftable[g].readable /\ r.writable = ftable[g].writable
  BY <1>1 DEF FilesTypeOK, FileRecord
<1>3. ftable'[f] = IF f = g THEN r ELSE ftable[f]
  BY <1>1 DEF FilesTypeOK
<1>. QED  BY <1>2, <1>3 DEF SameShape

LEMMA EndShape ==
  ASSUME NEW r \in FileRecord, NEW k \in Nat, NEW a \in BOOLEAN, NEW b \in BOOLEAN
  PROVE  LET e == [r EXCEPT !.type = "pipe", !.pipe = k, !.readable = a,
                            !.writable = b]
         IN e.type = "pipe" /\ e.pipe = k /\ e.readable = a /\ e.writable = b
BY DEF FileRecord

LEMMA EndsShapes ==
  ASSUME FilesTypeOK, NEW p \in Slots, MakeEnds(p),
         NEW rf \in File, NEW wf \in File, rf # wf,
         rf = piper[p].rf, wf = piper[p].wf
  PROVE  /\ npipes' = npipes + 1
         /\ ftable'[rf].type = "pipe" /\ ftable'[rf].pipe = npipes + 1
         /\ ftable'[rf].readable /\ ~ ftable'[rf].writable
         /\ ftable'[wf].type = "pipe" /\ ftable'[wf].pipe = npipes + 1
         /\ ~ ftable'[wf].readable /\ ftable'[wf].writable
         /\ \A f \in File : f \notin {rf, wf} => ftable'[f] = ftable[f]
<1>1. npipes + 1 \in Nat
  BY DEF FilesTypeOK
<1>2. PICK k \in Nat : k = npipes + 1
  BY <1>1
<1>3. ftable[rf] \in FileRecord /\ ftable[wf] \in FileRecord
  BY DEF FilesTypeOK
<1>4. PICK r : r = [ftable[rf] EXCEPT !.type = "pipe", !.pipe = k,
                                      !.readable = TRUE, !.writable = FALSE]
  OBVIOUS
<1>5. PICK w : w = [ftable[wf] EXCEPT !.type = "pipe", !.pipe = k,
                                      !.readable = FALSE, !.writable = TRUE]
  OBVIOUS
<1>6. r.type = "pipe" /\ r.pipe = k /\ r.readable /\ ~ r.writable
  BY <1>3, <1>4, EndShape
<1>7. w.type = "pipe" /\ w.pipe = k /\ ~ w.readable /\ w.writable
  BY <1>3, <1>5, EndShape
<1>8. ftable' = [ftable EXCEPT ![rf] = r, ![wf] = w]
  BY <1>2, <1>4, <1>5 DEF MakeEnds
<1>9. npipes' = k
  BY <1>2 DEF MakeEnds
<1>. QED  BY <1>2, <1>6, <1>7, <1>8, <1>9 DEF FilesTypeOK

\* Fork gives files only to nobody's slot, and copies counts.
LEMMA ForkShapes ==
  ASSUME FilesTypeOK, NEW p \in Slots, NEW out \in Free, NEW in \in Free, out # in,
         \/ ftable' = CopyCounts(WithConsole(ftable, out, in), p)
         \/ ftable' = WithConsole(ftable, out, in)
  PROVE  /\ ftable'[out].type = "console" /\ ftable'[out].writable
         /\ ftable'[out].readable = ftable[out].readable
         /\ ftable'[in].type = "console" /\ ftable'[in].readable
         /\ ftable'[in].writable = ftable[in].writable
         /\ \A f \in File : f \notin {out, in} => SameShape(f)
<1>1. PICK t : t = WithConsole(ftable, out, in)
  OBVIOUS
<1>2. /\ t[out].type = "console" /\ t[out].writable
      /\ t[out].readable = ftable[out].readable
      /\ t[in].type = "console" /\ t[in].readable
      /\ t[in].writable = ftable[in].writable
      /\ \A f \in File : f \notin {out, in} => t[f] = ftable[f]
  BY <1>1, ConsoleShapes
<1>3. t \in [File -> FileRecord]
  BY <1>1, ConsoleEffect
<1>4. ASSUME NEW f \in File
      PROVE  /\ ftable'[f].type = t[f].type /\ ftable'[f].pipe = t[f].pipe
             /\ ftable'[f].readable = t[f].readable
             /\ ftable'[f].writable = t[f].writable
  <2>1. CASE ftable' = t
    BY <2>1
  <2>2. CASE ftable' = CopyCounts(t, p)
    BY <2>2, <1>3, CopyShapes
  <2>. QED  BY <1>1, <2>1, <2>2
<1>5. out \in File /\ in \in File
  BY DEF Free
<1>. QED  BY <1>2, <1>4, <1>5 DEF SameShape

\* Steps that leave descriptors and shapes alone, and give out files that are
\* blank.
LEMMA NamedStays ==
  ASSUME FilesTypeOK, FilesTypeOK', FilesNamed, UNCHANGED ofile, npipes' = npipes,
         \A f \in File : SameShape(f) /\ ftable'[f].ref >= ftable[f].ref,
         \A p \in Slots :
           /\ piper'[p].at \in {"second", "wf", "page"} =>
                piper'[p].rf \in File /\ Blank(piper'[p].rf)
           /\ piper'[p].at = "page" => piper'[p].wf \in File /\ Blank(piper'[p].wf)
  PROVE  FilesNamed'
<1>1. \A f \in File : Holders(f)' = Holders(f)
  BY DEF Holders
<1>2. \A f \in File : Blank(f)' <=> Blank(f)
  BY DEF Blank, SameShape
<1>3. PipeFiles' = PipeFiles
  BY DEF PipeFiles, SameShape
<1>4. ASSUME NEW f \in File
      PROVE  /\ ftable'[f].ref = 0 => Blank(f)'
             /\ Holders(f)' # {} => ftable'[f].readable \/ ftable'[f].writable
             /\ ftable'[f].type = "pipe" => ftable'[f].pipe \in 1 .. npipes'
  <2>1. ftable[f].ref \in Nat /\ ftable'[f].ref \in Nat
        /\ ftable'[f].ref >= ftable[f].ref /\ SameShape(f)
    BY DEF FilesTypeOK, FileRecord
  <2>2. ftable'[f].ref = 0 => ftable[f].ref = 0
    BY <2>1
  <2>. QED  BY <2>1, <2>2, <1>1, <1>2 DEF FilesNamed, SameShape
<1>5. \A p \in Slots :
        /\ piper'[p].at \in {"second", "wf", "page"} => (Blank(piper[p].rf))'
        /\ piper'[p].at = "page" => (Blank(piper[p].wf))'
  BY DEF Blank, SameShape
<1>. QED  BY <1>3, <1>4, <1>5 DEF FilesNamed

LEMMA FreeBlank ==
  ASSUME ViewInv, NEW f \in Free
  PROVE  f \in File /\ Blank(f) /\ Holders(f) = {}
BY FreeUnheld DEF ViewInv, CoverInv, FilesNamed, Free

LEMMA PipeFilesBound ==
  IsFiniteSet(File) /\ \A S \in SUBSET File : IsFiniteSet(S) /\ Cardinality(S) \in Nat
                                              /\ Cardinality(S) <= NFILE
<1>1. IsFiniteSet(File) /\ Cardinality(File) = NFILE
  BY FS_Interval, NFILEAssumption DEF File
<1>. QED  BY <1>1, FS_Subset, FS_CardinalityType

LEMMA ForkNamed ==
  ASSUME ViewInv, CoverInv', NEW p \in Slots, At(p, "fork"),
         ForkFiles(p) \/ LostForkFiles(p)
  PROVE  FilesNamed'
<1>. DEFINE c == cur[p]
<1>1. /\ FilesTypeOK /\ TypeOK /\ FilesTypeOK' /\ c \in Slots
      /\ \A q \in Slots : ~ Piping(q)
  BY DEF ViewInv, CoverInv, TypeOK, Apart, ApartAt
<1>2. PICK out \in Free, in \in Free :
        /\ TwoLowest(Free, out, in)
        /\ \/ ftable' = CopyCounts(WithConsole(ftable, out, in), p)
           \/ ftable' = WithConsole(ftable, out, in)
        /\ \/ ofile' = [ofile EXCEPT ![c] =
                          CopyOfile(AllocOfile(c, out, in), p)]
           \/ ofile' = [ofile EXCEPT ![c] = AllocOfile(c, out, in)]
        /\ UNCHANGED <<piper, npipes, dead>>
  BY DEF ForkFiles, LostForkFiles
<1>3. /\ out \in File /\ Blank(out) /\ Holders(out) = {}
      /\ in \in File /\ Blank(in) /\ Holders(in) = {}
  BY FreeBlank
<1>4. out # in
  BY <1>2, <1>3 DEF TwoLowest, File
<1>5. /\ ftable'[out].type = "console" /\ ftable'[out].writable
      /\ ftable'[in].type = "console" /\ ftable'[in].readable
      /\ \A f \in File : f \notin {out, in} => SameShape(f)
  BY <1>1, <1>2, <1>4, ForkShapes
<1>6. ASSUME NEW f \in File, f \notin {out, in}, Holders(f)' # {}
      PROVE  Holders(f) # {}
  <2>1. PICK s \in Slots, d \in Fd : ofile'[s][d] = f
    BY <1>6 DEF Holders
  <2>2. CASE s # c
    BY <2>1, <2>2, <1>1, <1>2 DEF Holders, FilesTypeOK
  <2>3. CASE s = c
    <3>1. AllocOfile(c, out, in)[d] \in {ofile[c][d], out, in}
      BY <1>1 DEF AllocOfile, FilesTypeOK
    <3>2. CopyOfile(AllocOfile(c, out, in), p)[d] \in {ofile[p][d], ofile[c][d], out, in}
      BY <3>1 DEF CopyOfile
    <3>3. f \in {ofile[p][d], ofile[c][d]}
      BY <3>1, <3>2, <2>1, <2>3, <1>1, <1>2, <1>6 DEF FilesTypeOK
    <3>. QED  BY <3>3, <1>1 DEF Holders
  <2>. QED  BY <2>2, <2>3
<1>7. ASSUME NEW f \in File
      PROVE  /\ ftable'[f].ref = 0 => Blank(f)'
             /\ Holders(f)' # {} => ftable'[f].readable \/ ftable'[f].writable
             /\ ftable'[f].type = "pipe" => ftable'[f].pipe \in 1 .. npipes'
  <2>0. /\ ftable[f].ref \in Nat /\ ftable'[f].ref \in Nat
        /\ ftable[f].ref = 0 => Blank(f)
        /\ Holders(f) # {} => ftable[f].readable \/ ftable[f].writable
        /\ ftable[f].type = "pipe" => ftable[f].pipe \in 1 .. npipes
        /\ npipes' = npipes
    BY <1>1, <1>2 DEF FilesTypeOK, FileRecord, ViewInv, FilesNamed
  <2>1. Counted(f, c)
    BY <1>1, ForkFilesEffect
  <2>2. ftable'[f].ref = 0 => ftable[f].ref = 0
    BY <2>0, <2>1 DEF Counted
  <2>3. CASE f \notin {out, in}
    BY <2>0, <2>2, <2>3, <1>5, <1>6 DEF Blank, SameShape
  <2>4. CASE f \in {out, in}
    <3>1. ftable'[f].ref >= 1
      <4>1. Holders(f)' \subseteq Holders(f) => ftable'[f].ref >= 1
        <5>1. PICK t : t = WithConsole(ftable, out, in)
          OBVIOUS
        <5>2. t \in [File -> FileRecord] /\ t[f].ref = 1
          BY <5>1, <1>1, <1>3, <1>4, <2>4, ConsoleEffect
        <5>3. Cardinality(Copied(p, f)) \in Nat
              /\ CopyCounts(t, p)[f].ref = t[f].ref + Cardinality(Copied(p, f))
          BY <5>2, CopyEffect
        <5>. QED  BY <5>1, <5>2, <5>3, <1>2
      <4>. QED  BY <4>1, <2>0, <2>1 DEF Counted
    <3>. QED  BY <2>0, <2>4, <3>1, <1>5
  <2>. QED  BY <2>3, <2>4
<1>8. PipeFiles' = PipeFiles
  BY <1>3, <1>5 DEF PipeFiles, SameShape, Blank
<1>9. \A q \in Slots : piper'[q].at = "no"
  BY <1>1, <1>2 DEF Piping
<1>. QED
  BY <1>2, <1>7, <1>8, <1>9 DEF FilesNamed, ViewInv

LEMMA EndsNamed ==
  ASSUME ViewInv, CoverInv', NEW p \in Slots, PipeOpen(p) \/ PipeBad(p)
  PROVE  FilesNamed'
<1>1. /\ FilesTypeOK /\ FilesTypeOK' /\ npipes \in Nat
      /\ piper[p].at = "page" /\ MakeEnds(p) /\ Leave(p)
  BY DEF PipeOpen, PipeBad, ViewInv, CoverInv, FilesTypeOK
<1>2. PICK rf \in File, wf \in File : rf = piper[p].rf /\ wf = piper[p].wf
  BY <1>1 DEF ViewInv, CoverInv, LocalsOK
<1>3. /\ rf # wf /\ Holders(rf) = {} /\ Holders(wf) = {}
      /\ ftable[rf].ref >= 1 /\ ftable[wf].ref >= 1
      /\ \A q \in Slots : Piping(q) => q = p
  BY <1>1, <1>2 DEF ViewInv, CoverInv, Apart, ApartAt, Piping
<1>4. Blank(rf) /\ Blank(wf)
  BY <1>1, <1>2 DEF ViewInv, FilesNamed
<1>5. /\ npipes' = npipes + 1
      /\ ftable'[rf].type = "pipe" /\ ftable'[rf].pipe = npipes + 1
      /\ ftable'[rf].readable
      /\ ftable'[wf].type = "pipe" /\ ftable'[wf].pipe = npipes + 1
      /\ ftable'[wf].writable
      /\ \A f \in File : f \notin {rf, wf} => ftable'[f] = ftable[f]
  BY <1>1, <1>2, <1>3, EndsShapes
<1>6. \A f \in File : ftable'[f].ref = ftable[f].ref /\ ftable[f].ref \in Nat
  BY <1>1, <1>2, EndsEffect DEF FilesTypeOK, FileRecord
<1>7. ASSUME NEW f \in File, f \notin {rf, wf}
      PROVE  Holders(f)' \subseteq Holders(f)
  <2>1. CASE PipeOpen(p)
    <3>1. PICK r \in Fd, w \in Fd : ofile' = [ofile EXCEPT ![p][r] = rf, ![p][w] = wf]
      BY <2>1, <1>2 DEF PipeOpen, Closed
    <3>2. \A s \in Slots, d \in Fd : ofile'[s][d] \in {ofile[s][d], rf, wf}
      BY <3>1, <1>1 DEF FilesTypeOK
    <3>. QED  BY <3>2, <1>7 DEF Holders
  <2>2. CASE PipeBad(p)
    BY <2>2 DEF PipeBad, Holders
  <2>. QED  BY <2>1, <2>2
<1>8. ASSUME NEW f \in File
      PROVE  /\ ftable'[f].ref = 0 => Blank(f)'
             /\ Holders(f)' # {} => ftable'[f].readable \/ ftable'[f].writable
             /\ ftable'[f].type = "pipe" => ftable'[f].pipe \in 1 .. npipes'
  <2>1. CASE f \in {rf, wf}
    BY <2>1, <1>1, <1>3, <1>5, <1>6
  <2>2. CASE f \notin {rf, wf}
    <3>1. /\ ftable[f].ref = 0 => Blank(f)
          /\ Holders(f) # {} => ftable[f].readable \/ ftable[f].writable
          /\ ftable[f].type = "pipe" => ftable[f].pipe \in 1 .. npipes
      BY DEF ViewInv, FilesNamed
    <3>2. ftable[f].pipe \in Nat
      BY <1>1 DEF FilesTypeOK, FileRecord
    <3>. QED  BY <2>2, <3>1, <3>2, <1>1, <1>5, <1>7 DEF Blank
  <2>. QED  BY <2>1, <2>2
<1>9. npipes' <= Cardinality(PipeFiles')
  <2>1. rf \notin PipeFiles /\ PipeFiles \in SUBSET File
    BY <1>4 DEF PipeFiles, Blank
  <2>2. PICK T : T = PipeFiles \cup {rf}
    OBVIOUS
  <2>3. IsFiniteSet(PipeFiles) /\ Cardinality(PipeFiles) \in Nat
        /\ Cardinality(T) = Cardinality(PipeFiles) + 1
    BY <2>1, <2>2, PipeFilesBound, FS_AddElement
  <2>4. T \in SUBSET (PipeFiles') /\ PipeFiles' \in SUBSET File
    BY <2>2, <1>5 DEF PipeFiles
  <2>5. IsFiniteSet(PipeFiles') /\ Cardinality(PipeFiles') \in Nat
    BY <2>4, PipeFilesBound
  <2>6. Cardinality(T) <= Cardinality(PipeFiles')
    BY <2>4, <2>5, FS_Subset
  <2>. QED  BY <2>3, <2>5, <2>6, <1>1, <1>5 DEF ViewInv, FilesNamed
<1>10. \A q \in Slots : piper'[q].at = "no"
  BY <1>1, <1>3, PiperStarts DEF Leave, Piping, FilesTypeOK
<1>. QED  BY <1>8, <1>9, <1>10 DEF FilesNamed

LEMMA CallNamed ==
  ASSUME ViewInv, CoverInv', NEW p \in Slots,
         \/ PipeCall(p) \/ PipeSecond(p) \/ PipeTake(p)
         \/ PipeNoFile(p) \/ PipeNoPage(p)
  PROVE  FilesNamed'
<1>1. FilesTypeOK /\ FilesTypeOK' /\ LocalsOK /\ LocalsOK' /\ FilesNamed
  BY DEF ViewInv, CoverInv
<1>2. UNCHANGED ofile /\ npipes' = npipes
  BY DEF PipeCall, PipeSecond, PipeTake, PipeNoFile, PipeNoPage
<1>3. \A f \in File : SameShape(f) /\ ftable'[f].ref >= ftable[f].ref
  <2>1. CASE UNCHANGED ftable
    BY <2>1, <1>1 DEF SameShape, FilesTypeOK, FileRecord
  <2>2. CASE PipeTake(p)
    <3>1. PICK g \in File :
            /\ ftable' = [ftable EXCEPT ![g].ref = 1]
            /\ ftable[g].ref = 0
      BY <2>2 DEF PipeTake, ViewInv, CoverInv, LocalsOK, Apart, ApartAt, Piping
    <3>2. \A f \in File : ftable[f].ref \in Nat
                          /\ ftable'[f].ref = IF f = g THEN 1 ELSE ftable[f].ref
      BY <3>1, <1>1, TakeEffect DEF FilesTypeOK, FileRecord
    <3>3. \A f \in File : ftable'[f].ref >= ftable[f].ref
      BY <3>1, <3>2
    <3>4. \A f \in File : SameShape(f)
      BY <3>1, <1>1, TakeShapes
    <3>. QED  BY <3>3, <3>4
  <2>. QED  BY <2>1, <2>2 DEF PipeCall, PipeSecond, PipeNoFile, PipeNoPage
<1>4. ASSUME NEW q \in Slots
      PROVE  /\ piper'[q].at \in {"second", "wf", "page"} =>
                  piper'[q].rf \in File /\ Blank(piper'[q].rf)
             /\ piper'[q].at = "page" =>
                  piper'[q].wf \in File /\ Blank(piper'[q].wf)
  <2>1. /\ piper[q].at \in {"second", "wf", "page"} =>
             piper[q].rf \in File /\ Blank(piper[q].rf)
        /\ piper[q].at = "page" => piper[q].wf \in File /\ Blank(piper[q].wf)
    BY <1>1 DEF LocalsOK, FilesNamed
  <2>2. \A f \in File : ftable[f].ref = 0 => Blank(f)
    BY <1>1 DEF FilesNamed
  <2>3. CASE q # p
    BY <2>1, <2>3, <1>1 DEF PipeCall, PipeSecond, PipeTake, PipeNoFile,
                            PipeNoPage, Leave, FilesTypeOK
  <2>4. CASE q = p /\ (PipeCall(p) \/ PipeNoFile(p) \/ PipeNoPage(p))
    BY <2>4, <1>1 DEF PipeCall, PipeNoFile, PipeNoPage, Leave, NoCall, FilesTypeOK
  <2>5. CASE q = p /\ PipeSecond(p)
    <3>1. PICK f \in File : piper' = [piper EXCEPT ![p].at = "wf", ![p].wf = f]
      BY <2>5 DEF PipeSecond
    <3>2. piper[p] \in PiperRecord
      BY <1>1 DEF FilesTypeOK, PiperRecord
    <3>3. PICK r \in PiperRecord :
            /\ r = [piper[p] EXCEPT !.at = "wf", !.wf = f]
            /\ r.at = "wf" /\ r.rf = piper[p].rf /\ r.wf = f
      BY <3>2, PiperChooses
    <3>4. piper' = [piper EXCEPT ![p] = r] /\ piper'[p] = r
      BY <3>1, <3>3, <1>1 DEF FilesTypeOK
    <3>5. piper'[p].at = "wf" /\ piper'[p].rf = piper[p].rf
      BY <3>3, <3>4
    <3>. QED  BY <2>1, <2>5, <3>5 DEF PipeSecond
  <2>6. CASE q = p /\ PipeTake(p)
    <3>1. PICK a \in {"second", "page"} :
            /\ piper' = [piper EXCEPT ![p].at = a]
            /\ a = "second" => piper[p].at = "rf"
            /\ a = "page" => piper[p].at = "wf"
      BY <2>6 DEF PipeTake
    <3>2. PICK r : r = [piper[p] EXCEPT !.at = a]
      OBVIOUS
    <3>3. r.at = a /\ r.rf = piper[p].rf /\ r.wf = piper[p].wf
      BY <3>2, <1>1 DEF FilesTypeOK
    <3>4. piper'[p] = r
      BY <3>1, <3>2, <1>1 DEF FilesTypeOK
    <3>5. /\ piper[p].at = "rf" => piper[p].rf \in File /\ ftable[piper[p].rf].ref = 0
          /\ piper[p].at = "wf" => piper[p].wf \in File /\ ftable[piper[p].wf].ref = 0
      BY DEF ViewInv, CoverInv, LocalsOK, Apart, ApartAt, Piping
    <3>. QED  BY <2>1, <2>2, <2>6, <3>1, <3>3, <3>4, <3>5
  <2>. QED  BY <2>3, <2>4, <2>5, <2>6
<1>. QED  BY <1>1, <1>2, <1>3, <1>4, NamedStays

LEMMA ViewStep ==
  ASSUME Serial
  PROVE  ViewInv /\ [FilesNext]_allvars => ViewInv'
<1>. SUFFICES ASSUME ViewInv, [FilesNext]_allvars
              PROVE  ViewInv'
  OBVIOUS
<1>1. CoverInv' /\ TypeOK'
  BY CoverStep, FilesStepIsProcStep, TypeStep DEF ViewInv
<1>2. CASE UNCHANGED <<ftable, ofile, piper, npipes>>
  BY <1>1, <1>2 DEF ViewInv, FilesNamed, Blank, Holders, PipeFiles
<1>3. ASSUME NEW p \in Slots, At(p, "fork"), ForkFiles(p) \/ LostForkFiles(p)
      PROVE  ViewInv'
  BY <1>1, <1>3, ForkNamed DEF ViewInv
<1>4. ASSUME NEW p \in Slots, PipeCall(p) \/ PipeSteps(p)
      PROVE  ViewInv'
  BY <1>1, <1>4, CallNamed, EndsNamed DEF ViewInv, PipeSteps
<1>. QED
  BY <1>2, <1>3, <1>4
     DEF FilesNext, FilesHalt, FilesStop, FilesKernel, FilesCall, FilesFork,
         FilesWait, FilesForkCall, NoPipe, ForkDies, ForkFound, ForkCopyFails,
         Locks, allvars, files

LEMMA ViewInit == FilesInit => ViewInv
<1>. SUFFICES ASSUME FilesInit
              PROVE  ViewInv
  OBVIOUS
<1>1. TypeOK
  BY TypeInit DEF FilesInit
<1>2. CoverInv
  BY CoverInit
<1>3. /\ \A f \in File : ftable[f] = IF f = 0 THEN ConsoleOut(Unused)
                                     ELSE IF f = 1 THEN ConsoleIn(Unused)
                                     ELSE Unused
      /\ \A s \in Slots, d \in Fd : ofile[s][d] \in {0, 1, None}
      /\ \A p \in Slots : piper[p].at = "no"
      /\ npipes = 0
  BY TableFacts, NOFILEAssumption DEF FilesInit, WithConsole, Fd, NoCall
<1>4. ASSUME NEW f \in File
      PROVE  /\ ftable[f].ref = 0 => Blank(f)
             /\ Holders(f) # {} => ftable[f].readable \/ ftable[f].writable
             /\ ftable[f].type # "pipe"
  <2>1. Holders(f) # {} => f \in {0, 1}
    BY <1>3, TableFacts DEF Holders
  <2>2. PICK r, w : r = ConsoleOut(Unused) /\ w = ConsoleIn(Unused)
    OBVIOUS
  <2>3. CASE f = 0
    <3>1. r.ref = 1 /\ r.writable /\ r.type = "console"
      BY <2>2 DEF ConsoleOut, Unused
    <3>. QED  BY <2>2, <2>3, <3>1, <1>3
  <2>4. CASE f = 1
    <3>1. w.ref = 1 /\ w.readable /\ w.type = "console"
      BY <2>2 DEF ConsoleIn, Unused
    <3>. QED  BY <2>2, <2>4, <3>1, <1>3
  <2>5. CASE f \notin {0, 1}
    BY <2>1, <2>5, <1>3 DEF Unused, Blank
  <2>. QED  BY <2>3, <2>4, <2>5
<1>5. 0 <= Cardinality(PipeFiles)
  BY PipeFilesBound DEF PipeFiles
<1>. QED  BY <1>1, <1>2, <1>3, <1>4, <1>5 DEF ViewInv, FilesNamed

-------------------------------------------------------------------------
(* Files implements AbsFiles.                                              *)

\* A descriptor that is set can be read or written.
LEMMA OpenMeansSet ==
  ASSUME ViewInv, NEW p \in Slots, NEW d \in Fd
  PROVE  AbsF!Open(p, d) <=> ofile[p][d] # None
<1>1. Reads[p][d] = ReadFrom(p, d) /\ Writes[p][d] = WriteTo(p, d)
  BY DEF Reads, Writes
<1>2. PICK f : f = ofile[p][d]
  OBVIOUS
<1>3. f \in File \cup {None}
  BY <1>2 DEF ViewInv, CoverInv, FilesTypeOK
<1>4. CASE f = None
  BY <1>1, <1>2, <1>4 DEF ReadFrom, WriteTo, AbsF!Open, AbsF!Refused
<1>5. CASE f # None
  <2>1. p \in Holders(f)
    BY <1>2 DEF Holders
  <2>2. ftable[f].readable \/ ftable[f].writable
    BY <1>3, <1>5, <2>1 DEF ViewInv, FilesNamed
  <2>. QED
    BY <1>1, <1>2, <1>5, <2>2 DEF ReadFrom, WriteTo, AbsF!Open, AbsF!Refused
<1>. QED  BY <1>4, <1>5

\* A descriptor that does not change, of a file whose shape does not.
LEMMA SameView ==
  ASSUME NEW p \in Slots, NEW d \in Fd, NEW s \in Slots,
         ofile'[p][d] = ofile[s][d],
         ofile[s][d] # None => SameShape(ofile[s][d])
  PROVE  ReadFrom(p, d)' = ReadFrom(s, d) /\ WriteTo(p, d)' = WriteTo(s, d)
BY DEF ReadFrom, WriteTo, SameShape

\* What allocproc makes of a descriptor of slot c.
MadeRead(c, d)  == IF d = 0 THEN <<"console">> ELSE IF d = 1 THEN <<>>
                   ELSE ReadFrom(c, d)
MadeWrite(c, d) == IF d = 0 THEN <<>> ELSE IF d = 1 THEN <<"console">>
                   ELSE WriteTo(c, d)

\* What fork does to the views, when it copies the parent's descriptors and
\* when it fails before that.
ForkViews(p, c, copies) ==
  /\ \A s \in Slots, d \in Fd :
       s # c => ReadFrom(s, d)' = ReadFrom(s, d) /\ WriteTo(s, d)' = WriteTo(s, d)
  /\ \A d \in Fd :
       IF copies /\ ofile[p][d] # None
       THEN ReadFrom(c, d)' = ReadFrom(p, d) /\ WriteTo(c, d)' = WriteTo(p, d)
       ELSE /\ ReadFrom(c, d)' = MadeRead(c, d)
            /\ WriteTo(c, d)' = MadeWrite(c, d)

LEMMA ForkChangesViews ==
  ASSUME ViewInv, NEW p \in Slots, NEW c \in Slots, c = cur[p],
         NEW copies \in BOOLEAN,
         IF copies THEN ForkFiles(p) ELSE LostForkFiles(p)
  PROVE  ForkViews(p, c, copies)
<1>2. PICK out \in Free, in \in Free :
        /\ TwoLowest(Free, out, in)
        /\ \/ /\ copies
              /\ ftable' = CopyCounts(WithConsole(ftable, out, in), p)
              /\ ofile' = [ofile EXCEPT ![c] =
                             CopyOfile(AllocOfile(c, out, in), p)]
           \/ /\ ~ copies
              /\ ftable' = WithConsole(ftable, out, in)
              /\ ofile' = [ofile EXCEPT ![c] = AllocOfile(c, out, in)]
  BY DEF ForkFiles, LostForkFiles
<1>3. /\ out \in File /\ Blank(out) /\ Holders(out) = {}
      /\ in \in File /\ Blank(in) /\ Holders(in) = {}
  BY FreeBlank
<1>4. out # in
  BY <1>2, <1>3 DEF TwoLowest, File
<1>5. FilesTypeOK
  BY DEF ViewInv, CoverInv
<1>6. /\ ftable'[out].type = "console" /\ ftable'[out].writable
      /\ ftable'[out].readable = ftable[out].readable
      /\ ftable'[in].type = "console" /\ ftable'[in].readable
      /\ ftable'[in].writable = ftable[in].writable
      /\ \A f \in File : f \notin {out, in} => SameShape(f)
  BY <1>2, <1>4, <1>5, ForkShapes
<1>7. ASSUME NEW s \in Slots, NEW d \in Fd, ofile[s][d] # None
      PROVE  /\ ofile[s][d] \in File /\ ftable[ofile[s][d]].ref > 0
             /\ SameShape(ofile[s][d])
  <2>1. PICK g \in File : g = ofile[s][d]
    BY <1>5, <1>7 DEF FilesTypeOK
  <2>2. Holders(g) # {}
    BY <2>1 DEF Holders
  <2>3. ftable[g].ref \in Nat
    BY <1>5 DEF FilesTypeOK, FileRecord
  <2>4. g \notin Free
    BY <2>2, FreeBlank
  <2>. QED  BY <2>1, <2>2, <2>3, <2>4, <1>3, <1>6 DEF Free
<1>8. PICK tab : tab = AllocOfile(c, out, in)
  OBVIOUS
<1>9. \A d \in Fd : tab[d] = IF d = 0 THEN in ELSE IF d = 1 THEN out
                             ELSE ofile[c][d]
  <2>1. PICK o \in [Fd -> File \cup {None}] : o = ofile[c]
    BY <1>5 DEF FilesTypeOK
  <2>2. tab = [o EXCEPT ![0] = in, ![1] = out]
    BY <1>8, <2>1 DEF AllocOfile
  <2>. QED  BY <2>1, <2>2, TableFacts
<1>10. ASSUME NEW d \in Fd, ofile'[c][d] = tab[d]
       PROVE  ReadFrom(c, d)' = MadeRead(c, d) /\ WriteTo(c, d)' = MadeWrite(c, d)
  <2>1. CASE d = 0
    BY <2>1, <1>3, <1>6, <1>9, <1>10, TableFacts
       DEF ReadFrom, WriteTo, MadeRead, MadeWrite, Blank
  <2>2. CASE d = 1
    BY <2>2, <1>3, <1>6, <1>9, <1>10, TableFacts
       DEF ReadFrom, WriteTo, MadeRead, MadeWrite, Blank
  <2>3. CASE d # 0 /\ d # 1
    BY <2>3, <1>7, <1>9, <1>10, SameView DEF MadeRead, MadeWrite
  <2>. QED  BY <2>1, <2>2, <2>3
<1>11. ASSUME NEW s \in Slots, NEW d \in Fd, s # c
       PROVE  ReadFrom(s, d)' = ReadFrom(s, d) /\ WriteTo(s, d)' = WriteTo(s, d)
  <2>1. ofile'[s][d] = ofile[s][d]
    BY <1>2, <1>5, <1>11 DEF FilesTypeOK
  <2>. QED  BY <2>1, <1>7, SameView
<1>12. ASSUME NEW d \in Fd
       PROVE  IF copies /\ ofile[p][d] # None
              THEN /\ ReadFrom(c, d)' = ReadFrom(p, d)
                   /\ WriteTo(c, d)' = WriteTo(p, d)
              ELSE /\ ReadFrom(c, d)' = MadeRead(c, d)
                   /\ WriteTo(c, d)' = MadeWrite(c, d)
  <2>1. CASE ~ copies /\ ofile' = [ofile EXCEPT ![c] = tab]
    <3>1. ofile'[c][d] = tab[d]
      BY <2>1, <1>5 DEF FilesTypeOK
    <3>. QED  BY <2>1, <3>1, <1>10
  <2>2. CASE copies /\ ofile' = [ofile EXCEPT ![c] = CopyOfile(tab, p)]
    <3>1. ofile'[c][d] = IF \E f \in File : d \in Copied(p, f) THEN ofile[p][d]
                         ELSE tab[d]
      BY <2>2, <1>5 DEF FilesTypeOK, CopyOfile
    <3>2. CASE ofile[p][d] = None
      <4>1. ~ \E f \in File : d \in Copied(p, f)
        BY <3>2, TableFacts DEF Copied
      <4>. QED  BY <3>1, <3>2, <4>1, <1>10
    <3>3. CASE ofile[p][d] # None
      <4>1. \E f \in File : d \in Copied(p, f)
        BY <3>3, <1>7 DEF Copied
      <4>2. ofile'[c][d] = ofile[p][d]
        BY <3>1, <4>1
      <4>. QED  BY <3>3, <4>2, <2>2, <1>7, SameView
    <3>. QED  BY <3>2, <3>3
  <2>3. \/ ~ copies /\ ofile' = [ofile EXCEPT ![c] = tab]
        \/ copies /\ ofile' = [ofile EXCEPT ![c] = CopyOfile(tab, p)]
    BY <1>2, <1>8
  <2>. QED  BY <2>1, <2>2, <2>3
<1>. QED  BY <1>11, <1>12 DEF ForkViews

\* The views, slot by slot and descriptor by descriptor.
ViewFacts ==
  /\ Taken  = [s \in Slots |-> status[s] # "FREE"]
  /\ Reads  = [s \in Slots |-> Reads[s]]
  /\ Writes = [s \in Slots |-> Writes[s]]
  /\ \A s \in Slots :
       /\ Reads[s]  = [d \in Fd |-> Reads[s][d]]
       /\ Writes[s] = [d \in Fd |-> Writes[s][d]]
       /\ \A d \in Fd : /\ Reads[s][d] = ReadFrom(s, d)
                        /\ Writes[s][d] = WriteTo(s, d)

LEMMA ViewValue == ViewFacts
BY DEF ViewFacts, Taken, Reads, Writes

LEMMA NextViewValue == ViewFacts'
BY ViewValue, PTL

\* Steps that change no descriptor and no file that somebody holds.
LEMMA SameViews ==
  ASSUME ViewInv, UNCHANGED ofile,
         \A f \in File : Holders(f) # {} => SameShape(f)
  PROVE  UNCHANGED <<Reads, Writes>>
<1>1. ViewFacts /\ ViewFacts'
  BY ViewValue, NextViewValue
<1>2. ASSUME NEW s \in Slots, NEW d \in Fd
      PROVE  ReadFrom(s, d)' = ReadFrom(s, d) /\ WriteTo(s, d)' = WriteTo(s, d)
  <2>1. ofile[s][d] # None => ofile[s][d] \in File
    BY DEF ViewInv, CoverInv, FilesTypeOK
  <2>2. ofile[s][d] # None => SameShape(ofile[s][d])
    BY <2>1 DEF Holders
  <2>. QED  BY <2>2, SameView
<1>3. \A s \in Slots : Reads'[s] = Reads[s] /\ Writes'[s] = Writes[s]
  BY <1>1, <1>2 DEF ViewFacts
<1>. QED  BY <1>1, <1>3 DEF ViewFacts

\* A view after fork, from what it is in each slot.
ForkedView(view, new, c) ==
  /\ new = [s \in Slots |-> new[s]]
  /\ \A s \in Slots : new[s] = [d \in Fd |-> new[s][d]]
  /\ \A s \in Slots \ {c} : \A d \in Fd : new[s][d] = view[s][d]
  /\ view = [s \in Slots |-> view[s]]
  /\ \A s \in Slots : view[s] = [d \in Fd |-> view[s][d]]

LEMMA ForkedViewEqual ==
  ASSUME NEW view, NEW new, NEW c \in Slots, ForkedView(view, new, c),
         NEW made, made = [d \in Fd |-> made[d]],
         \A d \in Fd : new[c][d] = made[d]
  PROVE  new = [view EXCEPT ![c] = made]
<1>1. \A s \in Slots \ {c} : new[s] = view[s]
  BY DEF ForkedView
<1>2. new[c] = made
  BY DEF ForkedView
<1>. QED  BY <1>1, <1>2 DEF ForkedView

LEMMA ForkRefinesFiles ==
  ASSUME ViewInv, NEW p \in Slots, ForkFound(p), ForkFiles(p)
  PROVE  \E q, c \in Slots : Taken[q] /\ AbsF!Fork(q, c)
<1>1. PICK c \in Slots : c = cur[p]
  BY DEF ViewInv, TypeOK
<1>2. ViewFacts /\ ViewFacts' /\ ForkViews(p, c, TRUE)
  BY <1>1, ViewValue, NextViewValue, ForkChangesViews
<1>3. /\ status[p] = "LIVE" /\ status[c] = "FREE"
      /\ status' = [status EXCEPT ![c] = "LIVE"]
      /\ status \in [Slots -> {"FREE", "ALLOCATED", "LIVE", "ZOMBIE"}]
  BY <1>1 DEF ForkFound, At, Locks, ViewInv, TypeOK
<1>4. Taken[p] /\ ~ Taken[c] /\ Taken' = [Taken EXCEPT ![c] = TRUE]
  BY <1>2, <1>3 DEF ViewFacts
<1>5. PICK mr, mw : /\ mr = [d \in Fd |-> IF AbsF!Open(p, d) THEN Reads[p][d]
                                          ELSE AbsF!MadeReads(c)[d]]
                    /\ mw = [d \in Fd |-> IF AbsF!Open(p, d) THEN Writes[p][d]
                                          ELSE AbsF!MadeWrites(c)[d]]
  OBVIOUS
<1>6. \A d \in Fd : /\ AbsF!MadeReads(c)[d] = MadeRead(c, d)
                    /\ AbsF!MadeWrites(c)[d] = MadeWrite(c, d)
  BY <1>2, TableFacts DEF AbsF!MadeReads, AbsF!MadeWrites, MadeRead, MadeWrite,
                          ViewFacts, AbsF!Console, AbsF!Refused
<1>7. ASSUME NEW d \in Fd
      PROVE  Reads'[c][d] = mr[d] /\ Writes'[c][d] = mw[d]
  <2>1. AbsF!Open(p, d) <=> ofile[p][d] # None
    BY OpenMeansSet
  <2>2. /\ Reads'[c][d] = IF ofile[p][d] # None THEN Reads[p][d]
                          ELSE MadeRead(c, d)
        /\ Writes'[c][d] = IF ofile[p][d] # None THEN Writes[p][d]
                           ELSE MadeWrite(c, d)
    BY <1>2 DEF ForkViews, ViewFacts
  <2>3. /\ mr[d] = IF AbsF!Open(p, d) THEN Reads[p][d] ELSE MadeRead(c, d)
        /\ mw[d] = IF AbsF!Open(p, d) THEN Writes[p][d] ELSE MadeWrite(c, d)
    BY <1>5, <1>6
  <2>. QED  BY <2>1, <2>2, <2>3
<1>8. ForkedView(Reads, Reads', c) /\ ForkedView(Writes, Writes', c)
  BY <1>2 DEF ForkedView, ForkViews, ViewFacts
<1>9. Reads' = [Reads EXCEPT ![c] = mr] /\ Writes' = [Writes EXCEPT ![c] = mw]
  BY <1>5, <1>7, <1>8, ForkedViewEqual
<1>10. AbsF!Fork(p, c)
  BY <1>4, <1>5, <1>9 DEF AbsF!Fork, AbsF!Take
<1>. QED  BY <1>4, <1>10

LEMMA LostRefinesFiles ==
  ASSUME ViewInv, NEW p \in Slots, ForkCopyFails(p), LostForkFiles(p)
  PROVE  \E c \in Slots : AbsF!ForkFails(c)
<1>1. PICK c \in Slots : c = cur[p]
  BY DEF ViewInv, TypeOK
<1>2. ViewFacts /\ ViewFacts' /\ ForkViews(p, c, FALSE)
  BY <1>1, ViewValue, NextViewValue, ForkChangesViews
<1>3. /\ status[c] = "FREE"
      /\ status' = [status EXCEPT ![c] = "ALLOCATED"]
      /\ status \in [Slots -> {"FREE", "ALLOCATED", "LIVE", "ZOMBIE"}]
  BY <1>1 DEF ForkCopyFails, ViewInv, TypeOK
<1>4. ~ Taken[c] /\ Taken' = [Taken EXCEPT ![c] = TRUE]
  BY <1>2, <1>3 DEF ViewFacts
<1>5. PICK mr, mw : mr = AbsF!MadeReads(c) /\ mw = AbsF!MadeWrites(c)
  OBVIOUS
<1>6. /\ mr = [d \in Fd |-> mr[d]] /\ mw = [d \in Fd |-> mw[d]]
      /\ \A d \in Fd : mr[d] = MadeRead(c, d) /\ mw[d] = MadeWrite(c, d)
  <2>1. PICK r, w : /\ r = Reads[c] /\ r = [d \in Fd |-> r[d]]
                    /\ w = Writes[c] /\ w = [d \in Fd |-> w[d]]
                    /\ \A d \in Fd : r[d] = ReadFrom(c, d) /\ w[d] = WriteTo(c, d)
    BY <1>2 DEF ViewFacts
  <2>2. /\ mr = [r EXCEPT ![0] = <<"console">>, ![1] = <<>>]
        /\ mw = [w EXCEPT ![0] = <<>>, ![1] = <<"console">>]
    BY <1>5, <2>1 DEF AbsF!MadeReads, AbsF!MadeWrites, AbsF!Console, AbsF!Refused
  <2>3. \A d \in Fd : /\ mr[d] = IF d = 0 THEN <<"console">>
                                 ELSE IF d = 1 THEN <<>> ELSE r[d]
                      /\ mw[d] = IF d = 0 THEN <<>>
                                 ELSE IF d = 1 THEN <<"console">> ELSE w[d]
    BY <2>1, <2>2, TableFacts
  <2>4. mr = [d \in Fd |-> mr[d]] /\ mw = [d \in Fd |-> mw[d]]
    BY <2>1, <2>2
  <2>. QED  BY <2>1, <2>3, <2>4 DEF MadeRead, MadeWrite
<1>7. \A d \in Fd : Reads'[c][d] = mr[d] /\ Writes'[c][d] = mw[d]
  BY <1>2, <1>6 DEF ForkViews, ViewFacts
<1>8. ForkedView(Reads, Reads', c) /\ ForkedView(Writes, Writes', c)
  BY <1>2 DEF ForkedView, ForkViews, ViewFacts
<1>9. Reads' = [Reads EXCEPT ![c] = mr] /\ Writes' = [Writes EXCEPT ![c] = mw]
  BY <1>6, <1>7, <1>8, ForkedViewEqual
<1>. QED  BY <1>4, <1>5, <1>9 DEF AbsF!ForkFails, AbsF!Take

\* A view in which one entry changes.
LEMMA OpenedViewEqual ==
  ASSUME NEW view, NEW new, NEW p \in Slots, NEW r \in Fd, NEW x,
         ForkedView(view, new, p),
         \A d \in Fd : new[p][d] = IF d = r THEN x ELSE view[p][d]
  PROVE  new = [view EXCEPT ![p][r] = x]
<1>1. PICK made : made = [view[p] EXCEPT ![r] = x]
  OBVIOUS
<1>2. made = [d \in Fd |-> IF d = r THEN x ELSE view[p][d]]
  BY <1>1 DEF ForkedView
<1>3. new = [view EXCEPT ![p] = made]
  BY <1>2, ForkedViewEqual
<1>. QED  BY <1>1, <1>3

\* The names of pipes are those of earlier ones.
LEMMA NameFresh ==
  ASSUME ViewInv, NEW s \in Slots, NEW d \in Fd
  PROVE  /\ ReadFrom(s, d) # <<"pipe", npipes + 1>>
         /\ WriteTo(s, d) # <<"pipe", npipes + 1>>
<1>1. PICK f : f = ofile[s][d]
  OBVIOUS
<1>2. f \in File \cup {None} /\ npipes \in Nat
  BY <1>1 DEF ViewInv, CoverInv, FilesTypeOK
<1>3. PICK k : k = ftable[f].pipe
  OBVIOUS
<1>4. f # None /\ ftable[f].type = "pipe" => k \in 1 .. npipes
  BY <1>2, <1>3 DEF ViewInv, FilesNamed
<1>5. f # None /\ ftable[f].type = "pipe" => k # npipes + 1
  BY <1>2, <1>4
<1>6. PICK n : n = npipes + 1
  OBVIOUS
<1>. QED  BY <1>1, <1>3, <1>5, <1>6 DEF ReadFrom, WriteTo

LEMMA EndsKeepHeld ==
  ASSUME ViewInv, NEW p \in Slots, piper[p].at = "page", MakeEnds(p)
  PROVE  \A f \in File : Holders(f) # {} => SameShape(f)
<1>1. FilesTypeOK
  BY DEF ViewInv, CoverInv
<1>2. PICK rf \in File, wf \in File : rf = piper[p].rf /\ wf = piper[p].wf
  BY DEF ViewInv, CoverInv, LocalsOK
<1>3. rf # wf /\ Holders(rf) = {} /\ Holders(wf) = {}
  BY <1>2 DEF ViewInv, CoverInv, Apart, ApartAt, Piping
<1>4. \A f \in File : f \notin {rf, wf} => ftable'[f] = ftable[f]
  BY <1>1, <1>2, <1>3, EndsShapes
<1>. QED  BY <1>3, <1>4 DEF SameShape

LEMMA OpenRefinesFiles ==
  ASSUME ViewInv, ViewInv', NEW p \in Slots, PipeOpen(p)
  PROVE  AbsF!OpenPipe(p)
<1>1. /\ FilesTypeOK /\ piper[p].at = "page" /\ MakeEnds(p) /\ UNCHANGED status
      /\ npipes \in Nat
  BY DEF PipeOpen, vars, ViewInv, CoverInv, FilesTypeOK
<1>2. PICK rf \in File, wf \in File : rf = piper[p].rf /\ wf = piper[p].wf
  BY <1>1 DEF ViewInv, CoverInv, LocalsOK
<1>3. PICK r \in Fd, w \in Fd :
        /\ TwoLowest(Closed(p), r, w)
        /\ ofile' = [ofile EXCEPT ![p][r] = rf, ![p][w] = wf]
  BY <1>2 DEF PipeOpen, Closed
<1>4. /\ ofile[p][r] = None /\ ofile[p][w] = None /\ r < w /\ r # w
      /\ \A d \in Fd : d <= w => (ofile[p][d] = None <=> d \in {r, w})
  BY <1>3, NOFILEAssumption DEF TwoLowest, Closed, Fd
<1>5. rf # wf /\ rf # None /\ wf # None
  BY <1>1, <1>2, TableFacts DEF ViewInv, CoverInv, Apart, ApartAt, Piping
<1>6. PICK k : k = npipes + 1
  OBVIOUS
<1>7. /\ npipes' = k
      /\ ftable'[rf].type = "pipe" /\ ftable'[rf].pipe = k
      /\ ftable'[rf].readable /\ ~ ftable'[rf].writable
      /\ ftable'[wf].type = "pipe" /\ ftable'[wf].pipe = k
      /\ ~ ftable'[wf].readable /\ ftable'[wf].writable
  BY <1>1, <1>2, <1>5, <1>6, EndsShapes
<1>8. k \in 1 .. NFILE
  <2>1. npipes' <= Cardinality(PipeFiles')
    BY DEF ViewInv, FilesNamed
  <2>2. PipeFiles' \in SUBSET File
    BY DEF PipeFiles
  <2>3. Cardinality(PipeFiles') \in Nat /\ Cardinality(PipeFiles') <= NFILE
    BY <2>2, PipeFilesBound
  <2>. QED  BY <2>1, <2>3, <1>1, <1>6, <1>7, NFILEAssumption
<1>9. ViewFacts /\ ViewFacts'
  BY ViewValue, NextViewValue
<1>10. \A s \in Slots, d \in Fd :
         ofile'[s][d] = IF s = p /\ d = r THEN rf
                        ELSE IF s = p /\ d = w THEN wf ELSE ofile[s][d]
  BY <1>1, <1>3, <1>4 DEF FilesTypeOK
<1>11. ASSUME NEW s \in Slots, NEW d \in Fd, ~ (s = p /\ d \in {r, w})
       PROVE  /\ ReadFrom(s, d)' = ReadFrom(s, d)
              /\ WriteTo(s, d)' = WriteTo(s, d)
  <2>1. ofile'[s][d] = ofile[s][d]
    BY <1>10, <1>11
  <2>2. ofile[s][d] # None => ofile[s][d] \in File
    BY <1>1 DEF FilesTypeOK
  <2>3. ofile[s][d] # None => SameShape(ofile[s][d])
    BY <2>2, <1>1, EndsKeepHeld DEF Holders
  <2>. QED  BY <2>1, <2>3, SameView
<1>12. /\ ReadFrom(p, r) = <<>> /\ WriteTo(p, r) = <<>>
       /\ ReadFrom(p, w) = <<>> /\ WriteTo(p, w) = <<>>
  BY <1>4 DEF ReadFrom, WriteTo
<1>13. /\ ReadFrom(p, r)' = <<"pipe", k>> /\ WriteTo(p, r)' = <<>>
       /\ ReadFrom(p, w)' = <<>> /\ WriteTo(p, w)' = <<"pipe", k>>
  BY <1>4, <1>5, <1>7, <1>10 DEF ReadFrom, WriteTo
<1>14. ForkedView(Reads, Reads', p) /\ ForkedView(Writes, Writes', p)
  BY <1>9, <1>11 DEF ForkedView, ViewFacts
<1>15. ASSUME NEW d \in Fd
       PROVE  /\ Reads'[p][d] = IF d = r THEN <<"pipe", k>> ELSE Reads[p][d]
              /\ Writes'[p][d] = IF d = w THEN <<"pipe", k>> ELSE Writes[p][d]
  <2>1. CASE d = r
    BY <2>1, <1>4, <1>9, <1>12, <1>13 DEF ViewFacts
  <2>2. CASE d = w
    BY <2>2, <1>4, <1>9, <1>12, <1>13 DEF ViewFacts
  <2>3. CASE d \notin {r, w}
    BY <2>3, <1>9, <1>11 DEF ViewFacts
  <2>. QED  BY <2>1, <2>2, <2>3
<1>16. /\ Reads' = [Reads EXCEPT ![p][r] = <<"pipe", k>>]
       /\ Writes' = [Writes EXCEPT ![p][w] = <<"pipe", k>>]
  <2>1. PICK x : x = <<"pipe", k>>
    OBVIOUS
  <2>2. \A d \in Fd : /\ Reads'[p][d] = IF d = r THEN x ELSE Reads[p][d]
                      /\ Writes'[p][d] = IF d = w THEN x ELSE Writes[p][d]
    BY <2>1, <1>15
  <2>3. Reads' = [Reads EXCEPT ![p][r] = x]
    BY <2>2, <1>14, OpenedViewEqual
  <2>4. Writes' = [Writes EXCEPT ![p][w] = x]
    BY <2>2, <1>14, OpenedViewEqual
  <2>. QED  BY <2>1, <2>3, <2>4
<1>17. \A s \in Slots, d \in Fd :
         <<"pipe", k>> \notin {Reads[s][d], Writes[s][d]}
  <2>1. ASSUME NEW s \in Slots, NEW d \in Fd
        PROVE  Reads[s][d] # <<"pipe", k>> /\ Writes[s][d] # <<"pipe", k>>
    <3>1. /\ ReadFrom(s, d) # <<"pipe", npipes + 1>>
          /\ WriteTo(s, d) # <<"pipe", npipes + 1>>
      BY NameFresh
    <3>2. ReadFrom(s, d) = Reads[s][d] /\ WriteTo(s, d) = Writes[s][d]
      BY <1>9 DEF ViewFacts
    <3>. QED  BY <3>1, <3>2, <1>6
  <2>. QED  BY <2>1
<1>18. \A d \in Fd : AbsF!Open(p, d) <=> ofile[p][d] # None
  BY OpenMeansSet
<1>19. UNCHANGED Taken
  BY <1>1 DEF Taken
<1>20. Reads'[p][r] = <<"pipe", k>> /\ <<"pipe", k>> # <<>>
  BY <1>15
<1>21. /\ ~ AbsF!Open(p, r)
       /\ \A d \in Fd : d <= w => (~ AbsF!Open(p, d) <=> d \in {r, w})
  BY <1>4, <1>18
<1>22. r < w
  BY <1>4
<1>. QED
  BY <1>8, <1>16, <1>17, <1>19, <1>20, <1>21, <1>22
     DEF AbsF!OpenPipe, AbsF!Pipe, AbsF!Refused

\* Steps of Files that AbsFiles does not see.
LEMMA QuietRefines ==
  ASSUME ViewInv, UNCHANGED <<ofile, Taken>>,
         \/ UNCHANGED ftable
         \/ \E g \in File : ftable[g].ref = 0 /\ ftable' = [ftable EXCEPT ![g].ref = 1]
         \/ \E p \in Slots : piper[p].at = "page" /\ MakeEnds(p)
  PROVE  UNCHANGED <<Taken, Reads, Writes>>
<1>1. FilesTypeOK
  BY DEF ViewInv, CoverInv
<1>2. CASE UNCHANGED ftable
  BY <1>2, SameViews DEF SameShape
<1>3. ASSUME NEW g \in File, ftable' = [ftable EXCEPT ![g].ref = 1]
      PROVE  UNCHANGED <<Reads, Writes>>
  BY <1>1, <1>3, TakeShapes, SameViews
<1>4. ASSUME NEW p \in Slots, piper[p].at = "page", MakeEnds(p)
      PROVE  UNCHANGED <<Reads, Writes>>
  BY <1>4, EndsKeepHeld, SameViews
<1>. QED  BY <1>2, <1>3, <1>4

LEMMA ReapRefinesFiles ==
  ASSUME ViewInv, NEW p \in Slots, WaitReap(p), UNCHANGED files
  PROVE  \E c \in Slots : AbsF!Reap(c)
<1>1. PICK c \in Slots : c = cur[p]
  BY DEF ViewInv, TypeOK
<1>2. /\ status[c] = "ZOMBIE" /\ status' = [status EXCEPT ![c] = "FREE"]
      /\ status \in [Slots -> {"FREE", "ALLOCATED", "LIVE", "ZOMBIE"}]
  BY <1>1 DEF WaitReap, ViewInv, TypeOK
<1>3. Taken[c] /\ Taken' = [Taken EXCEPT ![c] = FALSE]
  BY <1>2 DEF Taken
<1>4. UNCHANGED <<Reads, Writes>>
  BY SameViews DEF files, SameShape
<1>. QED  BY <1>3, <1>4 DEF AbsF!Reap

LEMMA FilesStepRefines ==
  ViewInv /\ ViewInv' /\ [FilesNext]_allvars => [AbsF!AbsNext]_(AbsF!AbsVars)
<1>. SUFFICES ASSUME ViewInv, ViewInv', [FilesNext]_allvars
              PROVE  [AbsF!AbsNext]_(AbsF!AbsVars)
  OBVIOUS
<1>. DEFINE Quiet == UNCHANGED <<Taken, Reads, Writes>>
<1>1. Quiet => UNCHANGED AbsF!AbsVars
  BY DEF AbsF!AbsVars
<1>2. CASE UNCHANGED <<status, ofile, ftable>>
  BY <1>1, <1>2, QuietRefines DEF Taken
<1>3. ASSUME NEW p \in Slots, PipeCall(p) \/ PipeSteps(p)
      PROVE  PipeOpen(p) \/ Quiet
  <2>1. UNCHANGED Taken
    BY <1>3 DEF PipeCall, PipeSteps, PipeSecond, PipeNoFile, PipeTake, PipeNoPage,
                PipeOpen, PipeBad, vars, Taken
  <2>2. CASE PipeTake(p)
    <3>1. \E g \in File : ftable[g].ref = 0 /\ ftable' = [ftable EXCEPT ![g].ref = 1]
      BY <2>2 DEF PipeTake, ViewInv, CoverInv, LocalsOK, Apart, ApartAt, Piping
    <3>. QED  BY <2>1, <2>2, <3>1, QuietRefines DEF PipeTake
  <2>3. CASE PipeBad(p)
    BY <2>1, <2>3, QuietRefines DEF PipeBad
  <2>4. CASE UNCHANGED <<ftable, ofile>>
    BY <2>1, <2>4, QuietRefines
  <2>. QED
    BY <1>3, <2>2, <2>3, <2>4
       DEF PipeCall, PipeSteps, PipeSecond, PipeNoFile, PipeNoPage
<1>4. ASSUME NEW p \in Slots, PipeOpen(p)
      PROVE  AbsF!AbsNext
  BY <1>4, OpenRefinesFiles DEF AbsF!AbsNext
<1>5. ASSUME NEW p \in Slots, FilesFork(p)
      PROVE  AbsF!AbsNext \/ UNCHANGED <<status, ofile, ftable>>
  <2>1. CASE ForkFound(p) /\ ForkFiles(p)
    BY <2>1, ForkRefinesFiles DEF AbsF!AbsNext
  <2>2. CASE ForkCopyFails(p) /\ LostForkFiles(p)
    BY <2>2, LostRefinesFiles DEF AbsF!AbsNext
  <2>. QED
    BY <1>5, <2>1, <2>2
       DEF FilesFork, ForkSkip, ForkFull, ForkNoPage, ForkNoTable, files
<1>6. ASSUME NEW p \in Slots, FilesWait(p)
      PROVE  AbsF!AbsNext \/ UNCHANGED <<status, ofile, ftable>>
  BY <1>6, ReapRefinesFiles DEF FilesWait, WaitPass, files, AbsF!AbsNext
<1>7. ASSUME NEW p \in Slots, Exit(p), UNCHANGED files
      PROVE  Quiet
  <2>1. status[p] = "LIVE" /\ status' = [status EXCEPT ![p] = "ZOMBIE"]
        /\ status \in [Slots -> {"FREE", "ALLOCATED", "LIVE", "ZOMBIE"}]
    BY <1>7 DEF Exit, At, ViewInv, TypeOK
  <2>2. UNCHANGED Taken
    BY <2>1 DEF Taken
  <2>. QED  BY <1>7, <2>2, QuietRefines DEF files
<1>8. ASSUME NEW p \in Slots, FilesForkCall(p) \/ (WaitCall(p) /\ NoPipe(p))
      PROVE  UNCHANGED <<status, ofile, ftable>>
  BY <1>8 DEF FilesForkCall, ForkCall, WaitCall, NoPipe, files
<1>9. ASSUME NEW p \in Slots, ForkDies(p)
      PROVE  UNCHANGED <<status, ofile, ftable>>
  BY <1>9 DEF ForkDies, vars
<1>10. FilesStop \/ UNCHANGED allvars => UNCHANGED <<status, ofile, ftable>>
  BY DEF FilesStop, Stop, allvars, vars, files
<1>. QED
  <2>1. ASSUME NEW p \in Slots, FilesCall(p)
        PROVE  AbsF!AbsNext \/ Quiet \/ UNCHANGED <<status, ofile, ftable>>
    BY <2>1, <1>3, <1>4, <1>7, <1>8 DEF FilesCall, NoPipe
  <2>2. ASSUME NEW p \in Slots, FilesKernel(p)
        PROVE  AbsF!AbsNext \/ Quiet \/ UNCHANGED <<status, ofile, ftable>>
    BY <2>2, <1>3, <1>4, <1>5, <1>6, <1>9 DEF FilesKernel
  <2>3. CASE FilesNext
    BY <2>1, <2>2, <2>3, <1>1, <1>2, <1>10 DEF FilesNext, FilesHalt
  <2>. QED  BY <2>3, <1>2, <1>10

LEMMA FilesInitRefines == FilesInit => AbsF!AbsInit
<1>. SUFFICES ASSUME FilesInit
              PROVE  AbsF!AbsInit
  OBVIOUS
<1>1. \A s \in Slots, d \in Fd :
        ofile[s][d] = IF s = 0 /\ d = 0 THEN 1
                      ELSE IF s = 0 /\ d = 1 THEN 0 ELSE None
  <2>1. ASSUME NEW s \in Slots, NEW d \in Fd
        PROVE  ofile[s][d] = IF s = 0 /\ d < 2 THEN 1 - d ELSE None
    BY DEF FilesInit
  <2>2. ASSUME NEW d \in Fd
        PROVE  d \in Nat /\ (d < 2 <=> d \in {0, 1})
    BY NOFILEAssumption DEF Fd
  <2>. QED  BY <2>1, <2>2
<1>2. PICK r, w : r = ConsoleIn(Unused) /\ w = ConsoleOut(Unused)
  OBVIOUS
<1>3. /\ r.type = "console" /\ r.readable /\ ~ r.writable
      /\ w.type = "console" /\ w.writable /\ ~ w.readable
  BY <1>2 DEF ConsoleIn, ConsoleOut, Unused
<1>4. ftable[0] = w /\ ftable[1] = r
  BY <1>2, TableFacts DEF FilesInit, WithConsole
<1>5. \A s \in Slots, d \in Fd :
        /\ ReadFrom(s, d) = IF s = 0 /\ d = 0 THEN <<"console">> ELSE <<>>
        /\ WriteTo(s, d) = IF s = 0 /\ d = 1 THEN <<"console">> ELSE <<>>
  BY <1>1, <1>3, <1>4 DEF ReadFrom, WriteTo, None
<1>6. /\ Reads = [s \in Slots |-> [d \in Fd |->
                    IF s = 0 /\ d = 0 THEN <<"console">> ELSE <<>>]]
      /\ Writes = [s \in Slots |-> [d \in Fd |->
                    IF s = 0 /\ d = 1 THEN <<"console">> ELSE <<>>]]
  BY <1>5 DEF Reads, Writes
<1>7. Taken = [s \in Slots |-> s = 0]
  BY DEF Taken, FilesInit, Init
<1>. QED  BY <1>6, <1>7 DEF AbsF!AbsInit, AbsF!Console, AbsF!Refused

\* What a read from a descriptor and a write to it reach is changed by its own
\* process's pipe and birth only, whatever the others do to the one table of
\* files, for every size of the tables; as long as programs call pipe apart
\* from other pipes and forks (filealloc, kfork, sys_pipe, freeproc).
THEOREM FilesRefinement ==
  ASSUME Serial
  PROVE  FilesSpec => ImplementsAbsFiles
<1>1. FilesSpec => []ViewInv
  BY ViewInit, ViewStep, PTL DEF FilesSpec
<1>. QED
  BY <1>1, FilesInitRefines, FilesStepRefines, PTL
     DEF FilesSpec, ImplementsAbsFiles, AbsF!AbsSpec

=========================================================================
