-------------------------------- MODULE Log --------------------------------
(***************************************************************************)
(* The redo log of kernel/log.c, over a disk whose unit of writing is one  *)
(* block, with a crash possible between any two steps.                     *)
(*                                                                         *)
(* Granularity.  One action is one critical section of log.lock, or one    *)
(* disk block written by commit() or by recovery.  The in-memory copy of a *)
(* block is cache[b]: what bread() returns.  A buffer that the log has not *)
(* pinned may be recycled at any time and is then read from the disk again *)
(* (Recycle).  Log blocks and the header are written through, so only      *)
(* their disk contents are kept.                                           *)
(***************************************************************************)
EXTENDS Integers, FiniteSets

CONSTANTS
  Procs,        \* processes that make file system calls
  Blocks,       \* home blocks
  Values, Zero, \* contents of a block, and what mkfs writes
  LOGBLOCKS,    \* data blocks of the on-disk log
  MAXOPBLOCKS   \* blocks an operation may write

ASSUME LogAssumption ==
  /\ IsFiniteSet(Procs)
  /\ Zero \in Values
  /\ MAXOPBLOCKS \in Nat \ {0} /\ LOGBLOCKS \in Nat /\ MAXOPBLOCKS <= LOGBLOCKS

ASSUME BlocksAssumption == IsFiniteSet(Blocks) /\ Blocks # {}

Slots == 0 .. LOGBLOCKS - 1

CommitPCs == {"write_log", "write_head", "install", "erase", "done"}
ProcPCs   == {"out", "begin", "sleep", "op", "panic"} \cup CommitPCs
BootPCs   == {"read_head", "install", "erase", "up"}

VARIABLES
  home, logdata, head,            \* the disk
  cache, pins,                    \* the buffer cache
  lh, outstanding, committing,    \* struct log
  pc, tail, wrote,                \* each process: where it is, commit()'s index,
                                  \* the blocks its operation has written
  boot, btail                     \* initlog(): where it is, its index

disk    == <<home, logdata, head>>
buffers == <<cache, pins>>
log     == <<lh, outstanding, committing>>
procs   == <<pc, tail, wrote>>
vars    == <<disk, buffers, log, procs, boot, btail>>

-----------------------------------------------------------------------------

Logged(h) == {h.block[i] : i \in 0 .. h.n - 1}

\* A header without entries.  Entries at and beyond n are never read, so
\* headers are kept in the form in which these are all the same.
NoHeader == [n |-> 0, block |-> [i \in Slots |-> CHOOSE b \in Blocks : TRUE]]

\* A machine that has just been switched on: nothing is cached, so bread()
\* would read the home block, and the static data is zero.
PowerOn ==
  /\ pins' = [b \in Blocks |-> 0]
  /\ lh' = NoHeader /\ outstanding' = 0 /\ committing' = FALSE
  /\ pc' = [p \in Procs |-> "out"] /\ tail' = [p \in Procs |-> 0]
  /\ wrote' = [p \in Procs |-> {}]
  /\ boot' = "read_head" /\ btail' = 0

Init ==
  /\ home = [b \in Blocks |-> Zero] /\ logdata = [i \in Slots |-> Zero]
  /\ head = NoHeader
  /\ cache = home
  /\ pins = [b \in Blocks |-> 0]
  /\ lh = NoHeader /\ outstanding = 0 /\ committing = FALSE
  /\ pc = [p \in Procs |-> "out"] /\ tail = [p \in Procs |-> 0]
  /\ wrote = [p \in Procs |-> {}]
  /\ boot = "read_head" /\ btail = 0

Goto(p, where) == pc' = [pc EXCEPT ![p] = where]

WakeNone(p, where) == Goto(p, where)                              \* mutant

\* wakeup(&log), by p, which goes on at where.
WakeAll(p, where) ==
  pc' = [q \in Procs |-> IF q = p THEN where
                         ELSE IF pc[q] = "sleep" THEN "begin" ELSE pc[q]]

-----------------------------------------------------------------------------
(* File system calls *)

NoRoomOffByOne == lh.n + outstanding * MAXOPBLOCKS > LOGBLOCKS    \* mutant

NoRoom == lh.n + (outstanding + 1) * MAXOPBLOCKS > LOGBLOCKS

begin_op(p) ==
  /\ boot = "up" /\ pc[p] \in {"out", "begin"}
  /\ ~committing /\ ~NoRoom
  /\ outstanding' = outstanding + 1
  /\ Goto(p, "op")
  /\ wrote' = [wrote EXCEPT ![p] = {}]
  /\ UNCHANGED <<disk, buffers, lh, committing, tail, boot, btail>>

BeginSleep(p) ==
  /\ boot = "up" /\ pc[p] \in {"out", "begin"}
  /\ committing \/ NoRoom
  /\ Goto(p, "sleep")
  /\ UNCHANGED <<disk, buffers, log, tail, wrote, boot, btail>>

\* kkill() takes a process out of its sleep(); begin_op() looks again.
kkill(p) ==
  /\ pc[p] = "sleep"
  /\ Goto(p, "begin")
  /\ UNCHANGED <<disk, buffers, log, tail, wrote, boot, btail>>

PinnedNever(h, b) == UNCHANGED pins                               \* mutant

\* bpin(b), when block b is new to the log h.
Pinned(h, b) ==
  pins' = IF b \in Logged(h) THEN pins ELSE [pins EXCEPT ![b] = @ + 1]

\* The caller changes the data of a buffer it holds locked, then calls
\* log_write(); nobody sees the buffer in between.  An operation that has
\* written MAXOPBLOCKS blocks writes no more: see begin_op()'s reservation.
log_write(p, b, v) ==
  /\ pc[p] = "op"
  /\ Cardinality(wrote[p]) < MAXOPBLOCKS
  /\ IF lh.n >= LOGBLOCKS \/ outstanding < 1
     THEN Goto(p, "panic") /\ UNCHANGED <<buffers, lh, wrote>>
     ELSE /\ cache' = [cache EXCEPT ![b] = v]
          /\ lh' = IF b \in Logged(lh) THEN lh       \* log absorption
                   ELSE [n |-> lh.n + 1, block |-> [lh.block EXCEPT ![lh.n] = b]]
          /\ Pinned(lh, b)
          /\ wrote' = [wrote EXCEPT ![p] = @ \cup {b}]
          /\ UNCHANGED pc
  /\ UNCHANGED <<disk, outstanding, committing, tail, boot, btail>>

\* mutant: the operations still running are not waited for
LastOpEager(n) == TRUE

\* Whether end_op() commits, n being log.outstanding after the decrement.
LastOp(n) == n = 0

CommitStartOffByOne == IF lh.n > 1 THEN "write_log" ELSE "done"   \* mutant

\* mutant: the header is written before the log blocks it speaks of
CommitStartHeadFirst == IF lh.n > 0 THEN "write_head" ELSE "done"

\* commit() has nothing to do for an empty log.
CommitStart == IF lh.n > 0 THEN "write_log" ELSE "done"

\* end_op() up to its first release of log.lock.
end_op(p) ==
  /\ pc[p] = "op"
  /\ outstanding' = outstanding - 1
  /\ wrote' = [wrote EXCEPT ![p] = {}]
  /\ \/ /\ committing
        /\ Goto(p, "panic") /\ UNCHANGED <<committing, tail>>
     \/ /\ ~committing /\ LastOp(outstanding - 1)
        /\ committing' = TRUE
        /\ Goto(p, CommitStart)
        /\ tail' = [tail EXCEPT ![p] = 0]
     \/ /\ ~committing /\ ~LastOp(outstanding - 1)
        /\ WakeAll(p, "out") /\ UNCHANGED <<committing, tail>>
  /\ UNCHANGED <<disk, buffers, lh, boot, btail>>

-----------------------------------------------------------------------------
(* commit(), run by the last operation *)

write_log(p) ==
  LET t == tail[p]
  IN  /\ pc[p] = "write_log"
      /\ logdata' = [logdata EXCEPT ![t] = cache[lh.block[t]]]
      /\ tail' = [tail EXCEPT ![p] = t + 1]
      /\ Goto(p, IF t + 1 < lh.n THEN "write_log" ELSE "write_head")
      /\ UNCHANGED <<home, head, buffers, log, wrote, boot, btail>>

\* The commit point.
write_head(p) ==
  /\ pc[p] = "write_head"
  /\ head' = lh
  /\ tail' = [tail EXCEPT ![p] = 0]
  /\ Goto(p, "install")
  /\ UNCHANGED <<home, logdata, buffers, log, wrote, boot, btail>>

\* install_trans(0): one block.
install_trans(p) ==
  LET t == tail[p]
      b == lh.block[t]
  IN  /\ pc[p] = "install"
      /\ cache' = [cache EXCEPT ![b] = logdata[t]]
      /\ home' = [home EXCEPT ![b] = logdata[t]]
      /\ pins' = [pins EXCEPT ![b] = @ - 1]
      /\ tail' = [tail EXCEPT ![p] = t + 1]
      /\ Goto(p, IF t + 1 < lh.n THEN "install" ELSE "erase")
      /\ UNCHANGED <<logdata, head, log, wrote, boot, btail>>

\* log.lh.n = 0 and the second write_head().
erase(p) ==
  /\ pc[p] = "erase"
  /\ lh' = NoHeader /\ head' = NoHeader
  /\ tail' = [tail EXCEPT ![p] = 0]
  /\ Goto(p, "done")
  /\ UNCHANGED <<home, logdata, buffers, outstanding, committing, wrote, boot, btail>>

\* The last section of end_op().
CommitDone(p) ==
  /\ pc[p] = "done"
  /\ committing' = FALSE
  /\ WakeAll(p, "out")
  /\ UNCHANGED <<disk, buffers, lh, outstanding, tail, wrote, boot, btail>>

-----------------------------------------------------------------------------
(* The buffer cache, crashes and recovery *)

\* bget() takes the buffer of block b for another block; the next bread(b)
\* reads the disk.
Recycle(b) ==
  /\ boot = "up" /\ pins[b] = 0
  /\ cache' = [cache EXCEPT ![b] = home[b]]
  /\ UNCHANGED <<disk, pins, log, procs, boot, btail>>

Crash == cache' = home /\ PowerOn /\ UNCHANGED disk

read_head ==
  /\ boot = "read_head"
  /\ lh' = head
  /\ boot' = IF head.n > 0 THEN "install" ELSE "erase"
  /\ btail' = 0
  /\ UNCHANGED <<disk, buffers, outstanding, committing, procs>>

\* install_trans(1): one block.
RecoverInstall ==
  LET b == lh.block[btail]
  IN  /\ boot = "install"
      /\ cache' = [cache EXCEPT ![b] = logdata[btail]]
      /\ home' = [home EXCEPT ![b] = logdata[btail]]
      /\ btail' = btail + 1
      /\ boot' = IF btail + 1 < lh.n THEN "install" ELSE "erase"
      /\ UNCHANGED <<logdata, head, pins, log, procs>>

\* The end of recover_from_log().
RecoverErase ==
  /\ boot = "erase"
  /\ lh' = NoHeader /\ head' = NoHeader
  /\ boot' = "up" /\ btail' = 0
  /\ UNCHANGED <<home, logdata, buffers, outstanding, committing, procs>>

-----------------------------------------------------------------------------
(* Specification *)

\* commit() and the part of end_op() after it.
CommitStep(p) ==
  write_log(p) \/ write_head(p) \/ install_trans(p) \/ erase(p) \/ CommitDone(p)

ProcStep(p) ==
  \/ begin_op(p) \/ BeginSleep(p) \/ kkill(p) \/ end_op(p) \/ CommitStep(p)
  \/ \E b \in Blocks, v \in Values : log_write(p, b, v)

Recovery == read_head \/ RecoverInstall \/ RecoverErase

Panicked == \E p \in Procs : pc[p] = "panic"

Next ==
  \/ ~Panicked /\ \/ \E p \in Procs : ProcStep(p)
                  \/ \E b \in Blocks : Recycle(b)
                  \/ Recovery
  \/ Crash

Spec == Init /\ [][Next]_vars

\* An operation that has begun ends, a commit that has begun goes on, and a
\* process that wakes in begin_op() looks again; nothing obliges a process to
\* start an operation or to write.
FairSpec ==
  /\ Spec /\ WF_vars(Recovery)
  /\ \A p \in Procs : /\ WF_vars(end_op(p)) /\ WF_vars(CommitStep(p))
                      /\ WF_vars(pc[p] = "begin" /\ (begin_op(p) \/ BeginSleep(p)))

-----------------------------------------------------------------------------
(* Properties *)

Headers == [n : 0 .. LOGBLOCKS, block : [Slots -> Blocks]]

\* The state keeps its types; in particular log.lh.n and the header on disk
\* never count more blocks than the log has (begin_op()'s reservation).
TypeOK ==
  /\ home \in [Blocks -> Values] /\ logdata \in [Slots -> Values] /\ head \in Headers
  /\ cache \in [Blocks -> Values] /\ pins \in [Blocks -> Nat]
  /\ lh \in Headers /\ outstanding \in Nat /\ committing \in BOOLEAN
  /\ pc \in [Procs -> ProcPCs] /\ tail \in [Procs -> 0 .. LOGBLOCKS]
  /\ wrote \in [Procs -> SUBSET Blocks]
  /\ boot \in BootPCs /\ btail \in 0 .. LOGBLOCKS

\* log_write() never finds the log full or no operation outstanding, and
\* end_op() never finds a commit in progress: none of the log's panics.
NoPanic == ~Panicked

\* What recovery makes of a header h, log blocks data and home blocks old.
Recovered(h, data, old) ==
  [b \in Blocks |-> IF b \in Logged(h)
                    THEN data[CHOOSE i \in 0 .. h.n - 1 : h.block[i] = b]
                    ELSE old[b]]

\* What a crash at this moment and the recovery after it leave on the disk.
Durable == Recovered(head, logdata, home)

Atomic == INSTANCE AtomicDisk WITH
            disk   <- Durable,
            mem    <- IF boot = "up" THEN cache ELSE Durable,
            active <- {p \in Procs : pc[p] = "op"}

\* The log implements AtomicDisk: whatever the crashes, the disk moves from
\* the state before a group of operations to the state after it in one step,
\* and never holds part of an operation.
AtomicWrites == Atomic!DiskSpec

\* When no operation runs and no commit is in progress, every write of every
\* operation that returned survives a crash (end_op() commits before the last
\* operation returns).
QuietIsDurable == boot = "up" /\ outstanding = 0 /\ ~committing => Durable = cache

\* A buffer that the cache may recycle holds what is on the disk: log_write()
\* pins every other one until install_trans() has written it.
RecycleIsSafe == \A b \in Blocks : pins[b] = 0 => cache[b] = home[b]

\* A process asleep in begin_op() has someone to wake it: an operation that
\* will end or a commit in progress.
SleeperHasWaker ==
  \A p \in Procs : pc[p] = "sleep" => committing \/ outstanding > 0

\* A process asleep in begin_op() is woken, unless the machine crashes first.
SleeperWakes == \A p \in Procs : pc[p] = "sleep" ~> pc[p] # "sleep"

-----------------------------------------------------------------------------
(* The inductive invariant behind the theorems of LogProofs *)

Active == {p \in Procs : pc[p] = "op"}

\* The log slots that operations in progress may still take.
Reserved ==
  {s \in Procs \X (0 .. MAXOPBLOCKS - 1) :
     pc[s[1]] = "op" /\ s[2] >= Cardinality(wrote[s[1]])}

Committers == {p \in Procs : pc[p] \in CommitPCs}

\* Who is where: one committer at most, and none while an operation runs.
WhoInv ==
  /\ outstanding = Cardinality(Active)
  /\ committing <=> Committers # {}
  /\ \A p, q \in Committers : p = q
  /\ Committers # {} => Active = {}
  /\ boot # "up" => \A p \in Procs : pc[p] = "out"
  /\ NoPanic /\ SleeperHasWaker

\* Room: what is logged and what is reserved fit in the log.
RoomInv ==
  /\ lh.n + Cardinality(Reserved) <= LOGBLOCKS
  /\ \A p \in Active : wrote[p] \subseteq Logged(lh)
  /\ boot = "up" /\ Active = {} /\ ~committing => lh.n = 0

Entries(h)  == 0 .. h.n - 1
Distinct(h) == \A i, j \in Entries(h) : h.block[i] = h.block[j] => i = j

\* The first n entries are in the log area; in their home blocks.
InLog(n)  == \A i \in 0 .. n - 1 : logdata[i] = cache[lh.block[i]]
InHome(n) == \A i \in 0 .. n - 1 : home[lh.block[i]] = logdata[i]

\* A block outside the log is clean; the entries from m on are pinned, and
\* those before m are clean again.
CleanOutside == \A b \in Blocks \ Logged(lh) : pins[b] = 0 /\ cache[b] = home[b]
PinnedFrom(m) ==
  \A i \in Entries(lh) : LET b == lh.block[i]
                         IN  IF i < m THEN pins[b] = 0 /\ cache[b] = home[b]
                             ELSE pins[b] = 1

\* How far commit() has got.
CommitInv(p) ==
  /\ pc[p] = "write_log" =>
       head = NoHeader /\ tail[p] < lh.n /\ InLog(tail[p]) /\ PinnedFrom(0)
  /\ pc[p] = "write_head" =>
       head = NoHeader /\ 0 < lh.n /\ InLog(lh.n) /\ PinnedFrom(0)
  /\ pc[p] = "install" =>
       head = lh /\ tail[p] < lh.n /\ InLog(lh.n) /\ PinnedFrom(tail[p])
  /\ pc[p] = "erase" =>
       head = lh /\ InLog(lh.n) /\ PinnedFrom(lh.n)
  /\ pc[p] = "done" => head = NoHeader /\ lh.n = 0

\* How far recovery has got.
BootInv ==
  /\ boot # "up" => cache = home /\ \A b \in Blocks : pins[b] = 0
  /\ boot = "read_head" => lh = NoHeader
  /\ boot = "install" => head = lh /\ btail < lh.n /\ InHome(btail)
  /\ boot = "erase" => head = lh /\ InHome(lh.n)

DataInv ==
  /\ Distinct(lh) /\ Distinct(head) /\ CleanOutside
  /\ boot = "up" /\ Committers = {} => head = NoHeader /\ PinnedFrom(0)
  /\ \A p \in Procs : CommitInv(p)
  /\ BootInv

LogInv == TypeOK /\ WhoInv /\ RoomInv /\ DataInv
=============================================================================
