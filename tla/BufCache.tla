------------------------------ MODULE BufCache ------------------------------
(***************************************************************************)
(* The buffer cache, kernel/bio.c, over the disk driver: bget(), bread(),  *)
(* bwrite(), brelse(), bpin(), bunpin(), with the sleep-lock of each       *)
(* buffer (kernel/sleeplock.c).                                            *)
(*                                                                         *)
(* The callers are those of the file system.  One that holds a buffer can  *)
(* change it and log it (log_write() pins its buffer), write a logged one  *)
(* to its place and unpin it (install_trans()), write it through           *)
(* (write_log(), write_head()), or leave it as it is.                      *)
(*                                                                         *)
(* bcache.lock is held for one action at a time; a process can lose the    *)
(* CPU between releasesleep() and the refcnt-- of brelse().                *)
(***************************************************************************)
EXTENDS VirtioDisk

ASSUME CacheAssumption == IsFiniteSet(Procs) /\ IsFiniteSet(Bufs)

VARIABLES
  lru,                     \* the list of buffers, most recently used first
  blockno, valid, refcnt,  \* fields of struct buf
  lock,                    \* b->lock: its holder
  pc, cur,                 \* where a caller is; its buffer
  pinned                   \* blocks that the log has pinned

bcache == <<lru, blockno, valid, refcnt, lock>>
caller == <<pc, cur, pinned>>
vars   == <<vdisk, bcache, caller>>

PCs == {"idle", "lock", "lksleep", "fill", "reading", "use",
        "writing", "through", "unpin", "done", "rel", "panic"}

\* The list holds every buffer, once.
Lists == {l \in [1 .. Cardinality(Bufs) -> Bufs] : \A b \in Bufs : \E i \in DOMAIN l : l[i] = b}

\* binit(): no buffer has a block yet.
Init ==
  /\ VInit
  /\ lru \in Lists
  /\ blockno = [b \in Bufs |-> None] /\ valid = [b \in Bufs |-> FALSE]
  /\ refcnt = [b \in Bufs |-> 0] /\ lock = [b \in Bufs |-> None]
  /\ \E v \in Values : data = [b \in Bufs |-> v]
  /\ pc = [p \in Procs |-> "idle"] /\ cur = [p \in Procs |-> None] /\ pinned = {}

Goto(p, where) == pc' = [pc EXCEPT ![p] = where]

-----------------------------------------------------------------------------
(* bget() and bread() *)

CachedFilled(k) == {b \in Bufs : blockno[b] = k /\ valid[b]}      \* mutant

Cached(k) == {b \in Bufs : blockno[b] = k}

\* The buffers that nobody uses, and the last of them in the list.
Unused == {i \in DOMAIN lru : refcnt[lru[i]] = 0}
Victim == lru[CHOOSE i \in Unused : \A j \in Unused : j <= i]

\* What the callers owe: a block that is not cached is asked for only while
\* a buffer is neither in use nor pinned.  The code does not see to it (NBUF
\* is a guess); where it fails bget() panics.
InUse == {cur[p] : p \in {q \in Procs : pc[q] # "idle"}} \cup {b \in Bufs : blockno[b] \in pinned}
Room  == Cardinality(InUse) < Cardinality(Bufs)

bgetHit(p, k) ==
  /\ pc[p] = "idle" /\ Cached(k) # {}
  /\ \E b \in Cached(k) :
       /\ refcnt' = [refcnt EXCEPT ![b] = @ + 1]
       /\ cur' = [cur EXCEPT ![p] = b]
  /\ Goto(p, "lock")
  /\ UNCHANGED <<vdisk, lru, blockno, valid, lock, pinned>>

\* Not cached: the least recently used one is recycled, or else
\* panic("bget: no buffers").
bgetRecycle(p, k) ==
  /\ pc[p] = "idle" /\ Room /\ Cached(k) = {}
  /\ IF Unused = {}
     THEN Goto(p, "panic") /\ UNCHANGED <<blockno, valid, refcnt, cur>>
     ELSE /\ blockno' = [blockno EXCEPT ![Victim] = k]
          /\ valid' = [valid EXCEPT ![Victim] = FALSE]
          /\ refcnt' = [refcnt EXCEPT ![Victim] = 1]
          /\ cur' = [cur EXCEPT ![p] = Victim]
          /\ Goto(p, "lock")
  /\ UNCHANGED <<vdisk, lru, lock, pinned>>

\* acquiresleep(&b->lock), and then bread() looks at b->valid.
acquiresleep(p) ==
  LET b == cur[p]
  IN  /\ pc[p] = "lock"
      /\ \/ /\ lock[b] = None
            /\ lock' = [lock EXCEPT ![b] = p]
            /\ Goto(p, IF valid[b] THEN "use" ELSE "fill")
         \/ /\ lock[b] # None
            /\ Goto(p, "lksleep") /\ UNCHANGED lock
      /\ UNCHANGED <<vdisk, lru, blockno, valid, refcnt, cur, pinned>>

\* virtio_disk_rw(b, write), of which p waits for the end at where.
Rw(p, write, where) ==
  /\ vpc[p] = "out" /\ VGoto(p, "want")
  /\ req' = [req EXCEPT ![p] = [b |-> cur[p], blk |-> blockno[cur[p]],
                                write |-> write, idx |-> None]]
  /\ Goto(p, where)
  /\ UNCHANGED <<rings, chains, irq, intr, diskd, platter>>

Fill(p) ==
  /\ pc[p] = "fill" /\ Rw(p, FALSE, "reading")
  /\ UNCHANGED <<data, bcache, cur, pinned>>

\* virtio_disk_rw() returns: b->valid = 1, or bwrite() returns.
RwDone(p) ==
  /\ RwReturn(p)
  /\ valid' = [valid EXCEPT ![cur[p]] = TRUE]
  /\ Goto(p, CASE pc[p] = "reading" -> "use" [] pc[p] = "writing" -> "unpin" [] OTHER -> "done")
  /\ UNCHANGED <<lru, blockno, refcnt, lock, cur, pinned>>

-----------------------------------------------------------------------------
(* The callers, with a buffer that bread() has returned *)

\* log_write(b), after a change of b->data.
LogWrite(p, v) ==
  LET b == cur[p]
  IN  /\ pc[p] = "use" /\ v # data[b]
      /\ Cardinality(pinned) + 1 < Cardinality(Bufs) \/ blockno[b] \in pinned
      /\ data' = [data EXCEPT ![b] = v]
      /\ refcnt' = IF blockno[b] \in pinned THEN refcnt ELSE [refcnt EXCEPT ![b] = @ + 1]
      /\ pinned' = pinned \cup {blockno[b]}
      /\ Goto(p, "done")
      /\ UNCHANGED <<rings, chains, irq, intr, diskd, platter, vpc, req,
                     lru, blockno, valid, lock, cur>>

\* install_trans(): bwrite(b), bunpin(b).
Install(p) ==
  /\ pc[p] = "use" /\ blockno[cur[p]] \in pinned
  /\ Rw(p, TRUE, "writing")
  /\ UNCHANGED <<data, bcache, cur, pinned>>

bunpin(p) ==
  /\ pc[p] = "unpin"
  /\ refcnt' = [refcnt EXCEPT ![cur[p]] = @ - 1]
  /\ pinned' = pinned \ {blockno[cur[p]]}
  /\ Goto(p, "done")
  /\ UNCHANGED <<vdisk, lru, blockno, valid, lock, cur>>

\* write_log(), write_head(): a block that is not logged is changed and
\* written at once.
WriteThrough(p, v) ==
  /\ pc[p] = "use" /\ blockno[cur[p]] \notin pinned
  /\ data' = [data EXCEPT ![cur[p]] = v]
  /\ Rw(p, TRUE, "through")
  /\ UNCHANGED <<bcache, cur, pinned>>

\* brelse(): releasesleep() wakes all that wait for the lock.
releasesleep(p) ==
  LET b == cur[p]
  IN  /\ pc[p] \in {"use", "done"}
      /\ lock' = [lock EXCEPT ![b] = None]
      /\ pc' = [q \in Procs |-> IF q = p THEN "rel"
                                ELSE IF pc[q] = "lksleep" /\ cur[q] = b THEN "lock"
                                ELSE pc[q]]
      /\ UNCHANGED <<vdisk, lru, blockno, valid, refcnt, cur, pinned>>

\* b->refcnt--
Left(b) == refcnt[b] - 1

\* b is taken out of the list and put back at its head.
MovedToHead(b) ==
  LET i == CHOOSE j \in DOMAIN lru : lru[j] = b
  IN  [j \in DOMAIN lru |-> IF j = 1 THEN b ELSE IF j <= i THEN lru[j - 1] ELSE lru[j]]

\* The rest of brelse(): an unused buffer goes to the head of the list.
brelse(p) ==
  LET b == cur[p]
  IN  /\ pc[p] = "rel"
      /\ refcnt' = [refcnt EXCEPT ![b] = Left(b)]
      /\ lru' = IF Left(b) = 0 THEN MovedToHead(b) ELSE lru
      /\ Goto(p, "idle") /\ cur' = [cur EXCEPT ![p] = None]
      /\ UNCHANGED <<vdisk, blockno, valid, lock, pinned>>

-----------------------------------------------------------------------------
(* Specification *)

Disk(p) == VStep(p) /\ UNCHANGED <<bcache, caller>>

Running(p) ==
  \/ acquiresleep(p) \/ Fill(p) \/ Disk(p) \/ RwDone(p)
  \/ Install(p) \/ bunpin(p) \/ releasesleep(p) \/ brelse(p)
  \/ \E v \in Values : LogWrite(p, v) \/ WriteThrough(p, v)

Next ==
  \/ Device /\ UNCHANGED <<bcache, caller>>
  \/ \E p \in Procs :
       \/ Running(p)
       \/ \E k \in Blocks : bgetHit(p, k) \/ bgetRecycle(p, k)

Spec == Init /\ [][Next]_vars

-----------------------------------------------------------------------------
(* Properties *)

\* The types of the variables; the LRU list is a permutation of the buffers.
TypeOK ==
  /\ VTypeOK
  /\ lru \in Lists
  /\ blockno \in [Bufs -> Blocks \cup {None}] /\ valid \in [Bufs -> BOOLEAN]
  /\ refcnt \in [Bufs -> Nat] /\ lock \in [Bufs -> Procs \cup {None}]
  /\ pc \in [Procs -> PCs] /\ cur \in [Procs -> Bufs \cup {None}] /\ pinned \subseteq Blocks

\* "no more than one buffer per disk block": the callers of bget() for a block
\* all get the same buffer, whatever was recycled in between.
OneCopy == \A b, c \in Bufs : b # c /\ blockno[b] # None => blockno[b] # blockno[c]

\* What a reader of block k sees: the buffer, if it is filled, else the disk.
Content(k) ==
  IF \E b \in Cached(k) : valid[b]
  THEN data[CHOOSE b \in Cached(k) : valid[b]] ELSE platter[k]

\* A block changes only by the process that holds its buffer: no update is
\* lost when a buffer is recycled, and no transfer goes astray.
OnlyHolderWrites ==
  [][\A k \in Blocks : Content(k)' # Content(k) =>
       \E p \in Procs : pc[p] = "use" /\ blockno[cur[p]] = k /\ lock[cur[p]] = p]_vars

\* refcnt counts the processes that use or wait for the buffer, and its pin:
\* bget() takes only a buffer that nobody uses.
RefCount ==
  \A b \in Bufs :
    refcnt[b] = Cardinality({p \in Procs : cur[p] = b})
                + (IF blockno[b] \in pinned THEN 1 ELSE 0)

\* bget() finds a buffer as long as the callers keep to Room.
NoPanic == \A p \in Procs : pc[p] # "panic"

\* A process that sleeps for a buffer's lock waits for somebody who holds it.
LockWaiterWakes == \A p \in Procs : pc[p] = "lksleep" => lock[cur[p]] # None

\* What the device has of a request is still true: its buffer is locked by
\* the process that waits, and is still the buffer of that block.
TransferIsSafe ==
  \A p \in Procs : vpc[p] # "out" =>
    /\ lock[req[p].b] = p /\ cur[p] = req[p].b
    /\ blockno[req[p].b] = req[p].blk

\* The cache is sound: one buffer for a block, counted by its users, and one
\* to recycle whenever bget() needs it.
CacheSound == OneCopy /\ RefCount /\ NoPanic

\* From virtio_disk_rw() to its return a request keeps its buffer and its
\* block, and at the return they agree.
TransfersComplete == TransferIsSafe /\ RwComplete

\* Whoever sleeps for a buffer or for descriptors has somebody to wait for,
\* who will wake it: releasesleep() and free_desc() forget nobody.
WaitersWake == LockWaiterWakes /\ DescWaiterWakes

=============================================================================
