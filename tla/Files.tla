------------------------------ MODULE Files ------------------------------
(***************************************************************************)
(* Open files (kernel/fs/file.c, kernel/syscall/sysfile.c) across the      *)
(* process system calls of Proc: the table of files, the descriptors of    *)
(* each slot, and what fork, exit and wait do to them.                     *)
(*                                                                         *)
(* Nothing locks the table.  fork takes its files with interrupts off,     *)
(* sys_pipe with interrupts on: its test of ref and the store after it are *)
(* two steps.  A file's ref never returns to 0 (fileclose is empty), so    *)
(* filealloc's scan finds the lowest free file at the time of its last     *)
(* test.                                                                   *)
(* A definition whose comment begins "A mutation" is not part of the       *)
(* model (see Sched).                                                      *)
(***************************************************************************)
EXTENDS Proc

CONSTANTS
  NOFILE,  \* descriptors of a process
  NFILE,   \* entries of ftable
  Serial   \* do programs let sys_pipe run apart from other pipes and forks

ASSUME NOFILEAssumption == NOFILE \in Nat /\ NOFILE >= 2
ASSUME NFILEAssumption  == NFILE \in Nat /\ NFILE >= 2
ASSUME SerialAssumption == Serial \in BOOLEAN

File == 0 .. NFILE - 1
Fd   == 0 .. NOFILE - 1

\* A struct file; pipe tells one pipe's buffer from another's, 0 is none.
FileRecord == [ref : Nat, type : {"none", "console", "pipe"},
               readable : BOOLEAN, writable : BOOLEAN, pipe : Nat]

VARIABLES
  ftable,  \* ftable.files
  ofile,   \* p->ofile; None is the null pointer
  piper,   \* where each process is in sys_pipe, and its rf and wf
  npipes,  \* how many buffers pipealloc was given
  dead     \* has the kernel written through a null file

files   == <<ftable, ofile, piper, npipes, dead>>
allvars == <<vars, files>>

Lowest(S, i) == i \in S /\ \A j \in S : i <= j

\* i and j are the two lowest members of S.
TwoLowest(S, i, j) ==
  i \in S /\ j \in S /\ i < j /\ \A k \in S : k \in {i, j} \/ j < k

Free == {f \in File : ftable[f].ref = 0}

NoCall == [at |-> "no", rf |-> None, wf |-> None]

Unused == [ref |-> 0, type |-> "none", readable |-> FALSE,
           writable |-> FALSE, pipe |-> 0]

\* The end of allocproc() makes out and in the child's console files.
ConsoleOut(r) == [r EXCEPT !.ref = 1, !.type = "console", !.writable = TRUE]
ConsoleIn(r)  == [r EXCEPT !.ref = 1, !.type = "console", !.readable = TRUE]

WithConsole(t, out, in) ==
  [t EXCEPT ![out] = ConsoleOut(@), ![in] = ConsoleIn(@)]

\* userinit(), through allocproc().
FilesInit ==
  /\ Init
  /\ ftable = WithConsole([f \in File |-> Unused], 0, 1)
  /\ ofile  = [p \in Slots |->
                 [d \in Fd |-> IF p = 0 /\ d < 2 THEN 1 - d ELSE None]]
  /\ piper  = [p \in Slots |-> NoCall]
  /\ npipes = 0
  /\ dead   = FALSE

-------------------------------------------------------------------------
\* allocproc() and kfork()

\* What the slot's descriptors are when allocproc returns: those of the
\* process that had the slot before, with the console on 0 and 1.
AllocOfile(c, out, in) == [ofile[c] EXCEPT ![0] = in, ![1] = out]

\* kfork's loop takes a reference to f for each descriptor it copies.
Copied(p, f) == {d \in Fd : ofile[p][d] = f /\ ftable[f].ref > 0}

\* A mutation: the copied descriptors are not counted.
CopyCountsNone(t, p) == t

CopyCounts(t, p) ==
  [f \in File |-> [t[f] EXCEPT !.ref = @ + Cardinality(Copied(p, f))]]

CopyOfile(tab, p) ==
  [d \in Fd |-> IF \E f \in File : d \in Copied(p, f) THEN ofile[p][d]
                ELSE tab[d]]

ForkFiles(p) ==
  \E out, in \in Free :
    /\ TwoLowest(Free, out, in)
    /\ ftable' = CopyCounts(WithConsole(ftable, out, in), p)
    /\ ofile'  = [ofile EXCEPT ![cur[p]] =
                    CopyOfile(AllocOfile(cur[p], out, in), p)]
    /\ UNCHANGED <<piper, npipes, dead>>

\* uvmcopy fails after allocproc has taken the files of the child.
LostForkFiles(p) ==
  \E out, in \in Free :
    /\ TwoLowest(Free, out, in)
    /\ ftable' = WithConsole(ftable, out, in)
    /\ ofile'  = [ofile EXCEPT ![cur[p]] = AllocOfile(cur[p], out, in)]
    /\ UNCHANGED <<piper, npipes, dead>>

\* filealloc returns 0 to allocproc, which stores through it.
ForkDies(p) ==
  /\ Locks(p, "fork")
  /\ status[cur[p]] = "FREE"
  /\ Cardinality(Free) < 2
  /\ dead' = TRUE
  /\ UNCHANGED <<vars, ftable, ofile, piper, npipes>>

-------------------------------------------------------------------------
\* sys_pipe(), pipealloc() and filealloc()

Piping(p) == piper[p].at # "no"

Leave(p) == piper' = [piper EXCEPT ![p] = NoCall]

\* filealloc's last test, in sys_pipe's first or second call of it.
PipeCall(p) ==
  /\ At(p, "user") /\ ~ Piping(p)
  /\ Serial => \A q \in Slots : ~ Piping(q) /\ ~ At(q, "fork")
  /\ \E f \in File :
       /\ Lowest(Free, f)
       /\ piper' = [piper EXCEPT ![p] = [at |-> "rf", rf |-> f, wf |-> None]]
  /\ UNCHANGED <<vars, ftable, ofile, npipes, dead>>

PipeSecond(p) ==
  /\ piper[p].at = "second"
  /\ \E f \in File :
       /\ Lowest(Free, f)
       /\ piper' = [piper EXCEPT ![p].at = "wf", ![p].wf = f]
  /\ UNCHANGED <<vars, ftable, ofile, npipes, dead>>

\* A mutation: the scan looks at one entry more than the table has.
PipeNoFilePastEnd(p) ==
  /\ piper[p].at = "second"
  /\ Free = {}
  /\ piper' = [piper EXCEPT ![p].at = "wf", ![p].wf = NFILE]
  /\ UNCHANGED <<vars, ftable, ofile, npipes, dead>>

\* The first file is not given back.
PipeNoFile(p) ==
  /\ piper[p].at = "second"
  /\ Free = {}
  /\ Leave(p)
  /\ UNCHANGED <<vars, ftable, ofile, npipes, dead>>

\* filealloc's store.
PipeTake(p) ==
  /\ \/ /\ piper[p].at = "rf"
        /\ ftable' = [ftable EXCEPT ![piper[p].rf].ref = 1]
        /\ piper'  = [piper EXCEPT ![p].at = "second"]
     \/ /\ piper[p].at = "wf"
        /\ ftable' = [ftable EXCEPT ![piper[p].wf].ref = 1]
        /\ piper'  = [piper EXCEPT ![p].at = "page"]
  /\ UNCHANGED <<vars, ofile, npipes, dead>>

\* kalloc returns 0: neither file is given back.
PipeNoPage(p) ==
  /\ piper[p].at = "page"
  /\ Leave(p)
  /\ UNCHANGED <<vars, ftable, ofile, npipes, dead>>

\* pipealloc's stores into its two files.
MakeEnds(p) ==
  /\ npipes' = npipes + 1
  /\ ftable' = [ftable EXCEPT
       ![piper[p].rf] = [@ EXCEPT !.type = "pipe", !.pipe = npipes + 1,
                                  !.readable = TRUE, !.writable = FALSE],
       ![piper[p].wf] = [@ EXCEPT !.type = "pipe", !.pipe = npipes + 1,
                                  !.readable = FALSE, !.writable = TRUE]]

Closed(p) == {d \in Fd : ofile[p][d] = None}

\* fdalloc twice, and copyout.
PipeOpen(p) ==
  /\ piper[p].at = "page"
  /\ MakeEnds(p)
  /\ \E r, w \in Closed(p) :
       /\ TwoLowest(Closed(p), r, w)
       /\ ofile' = [ofile EXCEPT ![p][r] = piper[p].rf, ![p][w] = piper[p].wf]
  /\ Leave(p)
  /\ UNCHANGED <<vars, dead>>

\* A mutation: the first descriptor stays set when there is no second one.
PipeNoFdKeepsFirst(p) ==
  /\ piper[p].at = "page"
  /\ MakeEnds(p)
  /\ IF Closed(p) = {} THEN UNCHANGED ofile
     ELSE \E d \in Closed(p) :
            Lowest(Closed(p), d) /\ ofile' = [ofile EXCEPT ![p][d] = piper[p].rf]
  /\ Leave(p)
  /\ UNCHANGED <<vars, dead>>

\* There are not two descriptors, or copyout fails: those that were set are
\* cleared again, the files and the buffer stay taken.
PipeBad(p) ==
  /\ piper[p].at = "page"
  /\ MakeEnds(p)
  /\ Leave(p)
  /\ UNCHANGED <<vars, ofile, dead>>

-------------------------------------------------------------------------
\* The process system calls, and what they do to files.

NoPipe(p) == ~ Piping(p) /\ UNCHANGED files

FilesForkCall(p) ==
  ForkCall(p) /\ NoPipe(p) /\ (Serial => \A q \in Slots : ~ Piping(q))

FilesFork(p) ==
  \/ (ForkSkip(p) \/ ForkFull(p) \/ ForkNoPage(p) \/ ForkNoTable(p))
     /\ UNCHANGED files
  \/ ForkFound(p) /\ ForkFiles(p)
  \/ ForkCopyFails(p) /\ LostForkFiles(p)

\* freeproc leaves the descriptors in the slot.
FilesWait(p) == (WaitReap(p) \/ WaitPass(p)) /\ UNCHANGED files

PipeSteps(p) == PipeSecond(p) \/ PipeNoFile(p) \/ PipeTake(p) \/ PipeNoPage(p)
                \/ PipeOpen(p) \/ PipeBad(p)

FilesKernel(p) ==
  /\ ~ dead /\ ~ stopped
  /\ FilesFork(p) \/ FilesWait(p) \/ ForkDies(p) \/ PipeSteps(p)

FilesCall(p) ==
  /\ ~ dead
  /\ \/ FilesForkCall(p)
     \/ PipeCall(p)
     \/ WaitCall(p) /\ NoPipe(p)
     \/ Exit(p) /\ NoPipe(p)

FilesStop == ~ dead /\ Stop /\ UNCHANGED files

\* A null store in the kernel ends in the panic of sys_trap_handler.
FilesHalt == (dead \/ stopped) /\ UNCHANGED allvars

FilesNext == \/ FilesStop \/ FilesHalt
             \/ \E p \in Slots : FilesCall(p) \/ FilesKernel(p)

FilesSpec == FilesInit /\ [][FilesNext]_allvars

\* Every process in the kernel keeps executing, or a leaked lock stops the
\* kernel: Sched shows that a READY process is dispatched again and again unless
\* the kernel stops.  Programs owe nothing.
FilesFairSpec ==
  FilesSpec /\ \A p \in Slots : WF_allvars(FilesKernel(p) \/ FilesStop)

-------------------------------------------------------------------------
\* fileread() and filewrite(): where the data comes from and goes to.

ReadFrom(p, d) ==
  LET f == ofile[p][d] IN
  IF f = None \/ ~ ftable[f].readable THEN <<>>
  ELSE IF ftable[f].type = "pipe" THEN <<"pipe", ftable[f].pipe>>
  ELSE IF ftable[f].type = "console" THEN <<"console">>
  ELSE <<"nowhere">>

WriteTo(p, d) ==
  LET f == ofile[p][d] IN
  IF f = None \/ ~ ftable[f].writable THEN <<>>
  ELSE IF ftable[f].type = "pipe" THEN <<"pipe", ftable[f].pipe>>
  ELSE IF d = 1 THEN <<"console">>
  ELSE <<"nowhere">>

-------------------------------------------------------------------------
FilesTypeOK ==
  /\ ftable \in [File -> FileRecord]
  /\ ofile  \in [Slots -> [Fd -> File \cup {None}]]
  /\ piper  \in [Slots -> [at : {"no", "rf", "second", "wf", "page"},
                          rf : File \cup {None}, wf : File \cup {None}]]
  /\ npipes \in Nat
  /\ dead   \in BOOLEAN

Holders(f) == {s \in Slots : \E d \in Fd : ofile[s][d] = f}

\* A file's ref covers every slot that has a descriptor for it, dead
\* processes and failed forks included, so filealloc gives out no file that
\* somebody can still reach.
RefCovers == \A f \in File : Cardinality(Holders(f)) <= ftable[f].ref

\* filealloc fails only while NFILE files are open in processes.
FullOnlyWhenOpen ==
  dead => \A f \in File : \E s \in Slots, d \in Fd :
                             Exists(s) /\ ofile[s][d] = f

\* The view of AbsFiles.
Taken  == [p \in Slots |-> status[p] # "FREE"]
Reads  == [p \in Slots |-> [d \in Fd |-> ReadFrom(p, d)]]
Writes == [p \in Slots |-> [d \in Fd |-> WriteTo(p, d)]]

AbsF == INSTANCE AbsFiles WITH
          Slot <- Slots, Fd <- Fd, PipeName <- 1 .. NFILE,
          taken <- Taken, reads <- Reads, writes <- Writes

\* What a process reads from and writes to changes only by its own pipe calls
\* and its birth, whatever the others do to the shared table.
ImplementsAbsFiles == AbsF!AbsSpec

\* A process in kwait that has a zombie child returns, unless the kernel dies
\* first of a full file table or stops at a lock that a failing fork leaked.
WaitReturns ==
  [](\A p \in Slots :
       pc[p] = "wait" /\ (\E q \in Slots : ChildOf(p, q) /\ status[q] = "ZOMBIE")
         => <>(pc[p] # "wait" \/ dead \/ stopped))

=========================================================================
