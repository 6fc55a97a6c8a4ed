-------------------------------- MODULE Pipe --------------------------------
(***************************************************************************)
(* One pipe of kernel/pipe.c, from pipealloc() to its release, and the     *)
(* processes that hold its two files (kernel/file.c): fork, close, kill,   *)
(* and reads and writes that block.                                        *)
(*                                                                         *)
(* Granularity.  pi->lock is a variable, and one action is one iteration   *)
(* of a loop under it, so that a kill, which does not take it, can fall    *)
(* between any two iterations and between the check of killed() and the    *)
(* sleep().  Both counters are unsigned and wrap at UINT.                  *)
(***************************************************************************)
EXTENDS Integers, Sequences, FiniteSets

CONSTANTS
  Procs, Creator,   \* processes; the one that called pipe()
  None,             \* nobody holds the lock
  Bytes, Junk,      \* bytes; what kalloc() leaves in the page
  PIPESIZE,
  UINT,             \* 2^32
  MaxLen,           \* bound: the largest n of a read() or write()
  Mortal            \* bound: the processes that may be killed

ASSUME ProcsAssumption ==
  IsFiniteSet(Procs) /\ Creator \in Procs /\ None \notin Procs /\ Mortal \subseteq Procs

ASSUME SizeAssumption ==
  /\ Junk \in Bytes /\ MaxLen \in Nat
  /\ PIPESIZE \in Nat \ {0} /\ UINT \in Nat /\ PIPESIZE < UINT /\ UINT % PIPESIZE = 0

Sides == {"r", "w"}

WritePCs == {"wcall", "wloop", "wfull", "wsleep"}
ReadPCs  == {"rcall", "rwait", "rblock", "rsleep", "rcopy"}
LockPCs  == {"wloop", "wfull", "rwait", "rblock", "rcopy"}
PCs      == {"unborn", "idle", "close_r", "close_w"} \cup WritePCs \cup ReadPCs

VARIABLES
  data, nread, nwrite, readopen, writeopen, lock,  \* struct pipe
  freed,          \* whether the page of the pipe was given back
  ref,            \* f->ref of the file of each side
  fd,             \* the sides each process has open
  killed,
  pc, idx, len    \* where a process is; i and n of its read() or write()

pipe  == <<data, nread, nwrite, readopen, writeopen>>
files == <<freed, ref, fd>>
call  == <<idx, len>>
vars  == <<pipe, lock, files, killed, pc, call>>

-----------------------------------------------------------------------------

\* pipealloc(), called by Creator.
Init ==
  /\ data = [k \in 0 .. PIPESIZE - 1 |-> Junk] /\ nread = 0 /\ nwrite = 0
  /\ readopen = TRUE /\ writeopen = TRUE /\ lock = None
  /\ freed = FALSE /\ ref = [s \in Sides |-> 1]
  /\ fd = [p \in Procs |-> IF p = Creator THEN Sides ELSE {}]
  /\ killed = [p \in Procs |-> FALSE]
  /\ pc = [p \in Procs |-> IF p = Creator THEN "idle" ELSE "unborn"]
  /\ idx = [p \in Procs |-> 0] /\ len = [p \in Procs |-> 0]

Goto(p, where) == pc' = [pc EXCEPT ![p] = where]

WokenNoReader(chan) == IF chan = "nread" THEN "nobody" ELSE "wsleep"  \* mutant

\* wakeup(&pi->nread) and wakeup(&pi->nwrite), by p, which goes on at where.
Woken(chan) == IF chan = "nread" THEN "rsleep" ELSE "wsleep"
Recall(q)   == IF pc[q] = "rsleep" THEN "rcall" ELSE "wcall"

wakeup(chan, p, where) ==
  pc' = [q \in Procs |-> IF q = p THEN where
                         ELSE IF pc[q] = Woken(chan) THEN Recall(q) ELSE pc[q]]

\* A read() or write() by p returns: the lock is free, i and n are gone.
Release(p) == lock' = None /\ idx' = [idx EXCEPT ![p] = 0] /\ len' = [len EXCEPT ![p] = 0]

Empty == nread = nwrite

Full == nwrite = (nread + PIPESIZE) % UINT

-----------------------------------------------------------------------------
(* Processes: fork, system calls, close, kill *)

\* kfork() duplicates every open file.
Fork(p, q) ==
  /\ pc[p] = "idle" /\ ~killed[p] /\ pc[q] = "unborn"
  /\ Goto(q, "idle")
  /\ fd' = [fd EXCEPT ![q] = fd[p]]
  /\ ref' = [s \in Sides |-> IF s \in fd[p] THEN ref[s] + 1 ELSE ref[s]]
  /\ UNCHANGED <<pipe, lock, freed, killed, call>>

\* filewrite() and fileread() call pipewrite() and piperead().
Write(p, n) ==
  /\ pc[p] = "idle" /\ ~killed[p] /\ "w" \in fd[p]
  /\ Goto(p, "wcall")
  /\ len' = [len EXCEPT ![p] = n]
  /\ UNCHANGED <<pipe, lock, files, killed, idx>>

Read(p, n) ==
  /\ pc[p] = "idle" /\ ~killed[p] /\ "r" \in fd[p]
  /\ Goto(p, "rcall")
  /\ len' = [len EXCEPT ![p] = n]
  /\ UNCHANGED <<pipe, lock, files, killed, idx>>

\* mutant: the last reference is not waited for
LastRefEager(s) == TRUE

LastRef(s) == ref[s] - 1 = 0

\* sys_close(), or kexit() by a process that ends: fileclose() up to the
\* release of ftable.lock.
fileclose(p, s) ==
  /\ pc[p] = "idle" /\ s \in fd[p]
  /\ fd' = [fd EXCEPT ![p] = @ \ {s}]
  /\ ref' = [ref EXCEPT ![s] = @ - 1]
  /\ IF LastRef(s) THEN Goto(p, IF s = "w" THEN "close_w" ELSE "close_r") ELSE UNCHANGED pc
  /\ UNCHANGED <<pipe, lock, freed, killed, call>>

\* pipeclose(pi, 1), pipeclose(pi, 0)
PipecloseWrite(p) ==
  /\ pc[p] = "close_w" /\ lock = None
  /\ writeopen' = FALSE
  /\ wakeup("nread", p, "idle")
  /\ freed' = (freed \/ ~readopen)
  /\ UNCHANGED <<data, nread, nwrite, readopen, lock, ref, fd, killed, call>>

PipecloseRead(p) ==
  /\ pc[p] = "close_r" /\ lock = None
  /\ readopen' = FALSE
  /\ wakeup("nwrite", p, "idle")
  /\ freed' = (freed \/ ~writeopen)
  /\ UNCHANGED <<data, nread, nwrite, writeopen, lock, ref, fd, killed, call>>

\* kkill(): the flag, and a wakeup if the process is asleep at that moment.
kkill(p) ==
  /\ p \in Mortal /\ pc[p] # "unborn"
  /\ killed' = [killed EXCEPT ![p] = TRUE]
  /\ IF pc[p] \in {"rsleep", "wsleep"} THEN Goto(p, Recall(p)) ELSE UNCHANGED pc
  /\ UNCHANGED <<pipe, lock, files, call>>

\* acquire(&pi->lock), at the start of a call and in sleep() after a wakeup.
Acquire(p) ==
  /\ pc[p] \in {"wcall", "rcall"} /\ lock = None
  /\ lock' = p
  /\ Goto(p, IF pc[p] = "wcall" THEN "wloop" ELSE "rwait")
  /\ UNCHANGED <<pipe, files, killed, call>>

-----------------------------------------------------------------------------
(* pipewrite() *)

\* The loop goes on, and the checks at its head.
Writing(p)  == pc[p] = "wloop" /\ idx[p] < len[p]
Hopeless(p) == ~readopen \/ killed[p]

\* return -1: no wakeup, even if this call has written bytes.
WriteFail(p) ==
  /\ Writing(p) /\ Hopeless(p)
  /\ Release(p) /\ Goto(p, "idle")
  /\ UNCHANGED <<pipe, files, killed>>

\* mutant: the writer spins under the lock instead of waking the readers
WriteFullSpins(p) ==
  /\ Writing(p) /\ ~Hopeless(p) /\ Full
  /\ UNCHANGED vars

\* DOC: pipewrite-full
WriteFull(p) ==
  /\ Writing(p) /\ ~Hopeless(p) /\ Full
  /\ wakeup("nread", p, "wfull")
  /\ UNCHANGED <<pipe, lock, files, killed, call>>

\* sleep(&pi->nwrite, &pi->lock)
WriteSleep(p) ==
  /\ pc[p] = "wfull"
  /\ lock' = None /\ Goto(p, "wsleep")
  /\ UNCHANGED <<pipe, files, killed, call>>

WriteSlotNext == ((nwrite + 1) % UINT) % PIPESIZE                     \* mutant

WriteSlot == nwrite % PIPESIZE

WriteByte(p, b) ==
  /\ Writing(p) /\ ~Hopeless(p) /\ ~Full
  /\ data' = [data EXCEPT ![WriteSlot] = b]
  /\ nwrite' = (nwrite + 1) % UINT
  /\ idx' = [idx EXCEPT ![p] = @ + 1]
  /\ UNCHANGED <<nread, readopen, writeopen, lock, files, killed, pc, len>>

\* The end of pipewrite(): all is written, or copyin() failed.
WriteDone(p) ==
  /\ pc[p] = "wloop"
  /\ idx[p] >= len[p] \/ (~Hopeless(p) /\ ~Full)
  /\ Release(p) /\ wakeup("nread", p, "idle")
  /\ UNCHANGED <<pipe, files, killed>>

-----------------------------------------------------------------------------
(* piperead() *)

\* DOC: pipe-empty
Waiting(p) == pc[p] = "rwait" /\ Empty /\ writeopen

ReadFail(p) ==
  /\ Waiting(p) /\ killed[p]
  /\ Release(p) /\ Goto(p, "idle")
  /\ UNCHANGED <<pipe, files, killed>>

ReadBlock(p) ==
  /\ Waiting(p) /\ ~killed[p]
  /\ Goto(p, "rblock")
  /\ UNCHANGED <<pipe, lock, files, killed, call>>

\* sleep(&pi->nread, &pi->lock)
ReadSleep(p) ==
  /\ pc[p] = "rblock"
  /\ lock' = None /\ Goto(p, "rsleep")
  /\ UNCHANGED <<pipe, files, killed, call>>

ReadStart(p) ==
  /\ pc[p] = "rwait" /\ ~(Empty /\ writeopen)
  /\ Goto(p, "rcopy")
  /\ UNCHANGED <<pipe, lock, files, killed, call>>

ReadByte(p) ==
  /\ pc[p] = "rcopy" /\ idx[p] < len[p] /\ ~Empty
  /\ nread' = (nread + 1) % UINT
  /\ idx' = [idx EXCEPT ![p] = @ + 1]
  /\ UNCHANGED <<data, nwrite, readopen, writeopen, lock, files, killed, pc, len>>

\* The end of piperead(): n bytes, an empty pipe, or copyout() failed.
ReadDone(p) ==
  /\ pc[p] = "rcopy"
  /\ Release(p) /\ wakeup("nwrite", p, "idle")
  /\ UNCHANGED <<pipe, files, killed>>

-----------------------------------------------------------------------------
(* Specification *)

\* The steps of a process that holds pi->lock.
Locked(p) ==
  \/ WriteFail(p) \/ WriteFull(p) \/ WriteSleep(p) \/ WriteDone(p)
  \/ \E b \in Bytes : WriteByte(p, b)
  \/ ReadFail(p) \/ ReadBlock(p) \/ ReadSleep(p) \/ ReadStart(p) \/ ReadByte(p) \/ ReadDone(p)

Next ==
  \E p \in Procs :
    \/ \E q \in Procs : Fork(p, q)
    \/ \E n \in 0 .. MaxLen : Write(p, n) \/ Read(p, n)
    \/ \E s \in Sides : fileclose(p, s)
    \/ PipecloseWrite(p) \/ PipecloseRead(p)
    \/ kkill(p) \/ Acquire(p) \/ Locked(p)

Spec == Init /\ [][Next]_vars

\* A process that holds a spin lock runs with interrupts off, so it goes on.
FairSpec == Spec /\ \A p \in Procs : WF_vars(Locked(p))

-----------------------------------------------------------------------------
(* Properties *)

\* The bytes in the pipe.
Count == (nwrite - nread) % UINT

\* The state keeps its types: the counters stay within an unsigned int, and
\* never more than PIPESIZE bytes are in the pipe, also when they have wrapped.
TypeOK ==
  /\ data \in [0 .. PIPESIZE - 1 -> Bytes]
  /\ nread \in 0 .. UINT - 1 /\ nwrite \in 0 .. UINT - 1
  /\ Count \in 0 .. PIPESIZE
  /\ readopen \in BOOLEAN /\ writeopen \in BOOLEAN /\ freed \in BOOLEAN
  /\ lock \in Procs \cup {None}
  /\ ref \in [Sides -> Nat] /\ fd \in [Procs -> SUBSET Sides]
  /\ killed \in [Procs -> BOOLEAN]
  /\ pc \in [Procs -> PCs] /\ idx \in [Procs -> Nat] /\ len \in [Procs -> Nat]

\* The n bytes from counter r on, and those that the pipe holds.
Buffered(d, r, n) == [k \in 1 .. n |-> d[((r + (k - 1)) % UINT) % PIPESIZE]]
Queue == Buffered(data, nread, Count)

Bytewise == INSTANCE BytePipe WITH
              Size <- PIPESIZE, queue <- Queue, ropen <- readopen, wopen <- writeopen

\* The pipe implements BytePipe: bytes come out once each, in the order in
\* which pipewrite() put them in, whatever the number of readers and writers.
Fifo == Bytewise!PipeSpec

\* Nobody uses the pipe, or waits for its lock, once pipeclose() has freed it.
NoUseAfterFree ==
  freed => \A p \in Procs : pc[p] \in {"unborn", "idle"} /\ fd[p] = {}

\* A reader and a writer never both sleep, each waiting for the other.
NoMutualWait ==
  ~\E p, q \in Procs : pc[p] = "rsleep" /\ pc[q] = "wsleep"

\* A writer asleep in a pipe with room, or with no reader left, is about to be
\* woken by the reader that holds the lock.
WriterNotForgotten ==
  \A p \in Procs : pc[p] = "wsleep" /\ (~Full \/ ~readopen) =>
    readopen /\ \E q \in Procs : pc[q] = "rcopy"

\* No reader sleeps once the write end is closed; one that sleeps while there
\* are bytes is about to be woken by the writer that holds the lock, unless a
\* process was killed (pipewrite() returns -1 without a wakeup).
ReaderNotForgotten ==
  \A p \in Procs : pc[p] = "rsleep" =>
    /\ writeopen
    /\ Empty \/ (\E q \in Procs : pc[q] = "wloop") \/ \E q \in Procs : killed[q]

\* Nobody sleeps on in a pipe that has what it waits for: the wakeups of
\* pipewrite(), piperead() and pipeclose() reach every sleeper they should.
SleepersNotForgotten == NoMutualWait /\ WriterNotForgotten /\ ReaderNotForgotten

\* Where nobody is killed, a reader asleep while there are bytes wakes up, and
\* a writer asleep while there is room does too.
SleepersWake ==
  \A p \in Procs :
    /\ (pc[p] = "rsleep" /\ ~Empty /\ \A q \in Procs : ~killed[q])
         ~> (pc[p] # "rsleep" \/ \E q \in Procs : killed[q])
    /\ (pc[p] = "wsleep" /\ ~Full) ~> pc[p] # "wsleep"
-----------------------------------------------------------------------------
(* The inductive invariant behind the theorems of PipeProofs *)

Holders(s)  == {p \in Procs : s \in fd[p]}
Closing(s)  == IF s = "w" THEN "close_w" ELSE "close_r"
Open(s)     == IF s = "w" THEN writeopen ELSE readopen

\* f->ref counts the descriptors, and a process uses only a side it holds.
RefInv ==
  /\ \A s \in Sides : ref[s] = Cardinality(Holders(s))
  /\ \A p \in Procs : /\ pc[p] \in WritePCs => "w" \in fd[p]
                      /\ pc[p] \in ReadPCs => "r" \in fd[p]
                      /\ pc[p] = "unborn" => fd[p] = {}

\* An end is open as long as its file is, and until its one pipeclose().
EndsInv ==
  /\ \A s \in Sides :
       /\ ref[s] > 0 => Open(s)
       /\ \A p \in Procs : pc[p] = Closing(s) => ref[s] = 0 /\ Open(s)
       /\ \A p, q \in Procs : pc[p] = Closing(s) /\ pc[q] = Closing(s) => p = q
  /\ freed => ~readopen /\ ~writeopen

LockInv == \A p \in Procs : pc[p] \in LockPCs <=> lock = p

\* What a process that is about to sleep knows.
SleepInv ==
  \A p \in Procs :
    /\ pc[p] = "wfull" => Full /\ readopen /\ \A q \in Procs : pc[q] # "rsleep"
    /\ pc[p] = "rblock" => Empty /\ writeopen

WakeInv == NoMutualWait /\ WriterNotForgotten /\ ReaderNotForgotten /\ SleepInv

PipeInv == TypeOK /\ RefInv /\ EndsInv /\ LockInv /\ WakeInv
=============================================================================
