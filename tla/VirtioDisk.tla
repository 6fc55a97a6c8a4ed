----------------------------- MODULE VirtioDisk -----------------------------
(***************************************************************************)
(* kernel/virtio_disk.c: processes that call virtio_disk_rw(), the         *)
(* interrupt handler, and the device with its descriptors and two rings    *)
(* (external), which serves requests in any order.                         *)
(*                                                                         *)
(* Granularity.  What runs under vdisk_lock between two sleeps is one      *)
(* action; the loop of the handler is one action per entry, so that the    *)
(* device can add entries meanwhile.  A ring slot that was consumed, and a *)
(* command whose chain was freed, count as dead, whatever they still hold. *)
(***************************************************************************)
EXTENDS Integers, FiniteSets

CONSTANTS
  Procs, Bufs, Blocks, Values,
  None,         \* no buffer, no block, nothing
  NUM, IDX      \* descriptors; the range of a ring index, 2^16

Index == 0 .. NUM - 1

ASSUME DiskAssumption ==
  /\ NUM \in Nat /\ NUM >= 3 /\ IDX \in Nat /\ IDX >= NUM /\ IDX % NUM = 0
  /\ None \notin Bufs \cup Blocks \cup Values \cup Index \cup Procs

VARIABLES
  free, desc, ops, info,     \* struct disk; info[i] is info[i].b and .status
  avail, avidx, used, usidx, \* the rings, and the index of each in memory
  used_idx,                  \* how far the driver has looked in used
  fetched, serving,          \* device: how far in avail; chains it works on
  irq, intr,                 \* interrupt raised; handler is in its loop
  diskd,                     \* b->disk
  data, platter,             \* b->data; what is on the disk
  vpc, req                   \* virtio_disk_rw(): where p is; its b, block, write, idx

rings  == <<avail, avidx, used, usidx, used_idx, fetched, serving>>
chains == <<free, desc, ops, info>>
vdisk  == <<rings, chains, irq, intr, diskd, data, platter, vpc, req>>

NoDesc == [addr |-> None, next |-> None]
NoReq  == [b |-> None, blk |-> None, write |-> FALSE, idx |-> None]

\* virtio_disk_init() is done.
VInit ==
  /\ free = Index /\ desc = [i \in Index |-> NoDesc]
  /\ ops = [i \in Index |-> None] /\ info = [i \in Index |-> [b |-> None, status |-> 0]]
  /\ avail = [i \in Index |-> None] /\ avidx = 0
  /\ used = [i \in Index |-> None] /\ usidx = 0 /\ used_idx = 0
  /\ fetched = 0 /\ serving = {}
  /\ irq = FALSE /\ intr = FALSE /\ diskd = [b \in Bufs |-> FALSE]
  /\ platter \in [Blocks -> Values]
  /\ vpc = [p \in Procs |-> "out"] /\ req = [p \in Procs |-> NoReq]

-----------------------------------------------------------------------------
(* virtio_disk_rw() *)

VGoto(p, where) == vpc' = [vpc EXCEPT ![p] = where]

VWakeNone(p, where) == VGoto(p, where)                            \* mutant

\* wakeup(&disk.free[0]), by p, which goes on at where.
VWake(p, where) ==
  vpc' = [q \in Procs |-> IF q = p THEN where
                          ELSE IF vpc[q] = "dsleep" THEN "want" ELSE vpc[q]]

\* alloc3_desc(): alloc_desc() three times, the lowest free one each time.
Alloc3(i, j, k) ==
  /\ i \in free /\ j \in free /\ k \in free /\ i < j /\ j < k
  /\ \A m \in free : m < k => m \in {i, j}

MayAlloc == \E i, j, k \in Index : Alloc3(i, j, k)

\* There are fewer: the ones it took are freed again, which wakes whoever
\* waits for some, and p sleeps.
AllocFail(p) ==
  /\ vpc[p] = "want" /\ ~intr /\ ~MayAlloc
  /\ IF free = {} THEN VGoto(p, "dsleep") ELSE VWake(p, "dsleep")
  /\ UNCHANGED <<rings, chains, irq, intr, diskd, data, platter, req>>

\* A ring index counts modulo its width, a slot modulo NUM.
NextIdx(i) == (i + 1) % IDX

Slot(i) == i % NUM

CommandIn(p) == [write |-> FALSE, sector |-> req[p].blk]          \* mutant

\* The command in buf0.
Command(p) == [write |-> req[p].write, sector |-> req[p].blk]

AwaitNothing == "ready"                                           \* mutant

\* while(b->disk == 1) sleep(b, &disk.vdisk_lock)
AwaitDisk == "io"

\* The three descriptors are formatted, the chain is put into avail, the
\* device is told, and p sleeps until b->disk is 0.
Submit(p, i, j, k) ==
  LET b == req[p].b
  IN  /\ vpc[p] = "want" /\ ~intr /\ Alloc3(i, j, k)
      /\ free' = free \ {i, j, k}
      /\ ops' = [ops EXCEPT ![i] = Command(p)]
      /\ desc' = [desc EXCEPT ![i] = [addr |-> i, next |-> j],
                              ![j] = [addr |-> b, next |-> k],
                              ![k] = [addr |-> i, next |-> None]]
      /\ info' = [info EXCEPT ![i] = [b |-> b, status |-> 255]]
      /\ diskd' = [diskd EXCEPT ![b] = TRUE]
      /\ avail' = [avail EXCEPT ![Slot(avidx)] = i]
      /\ avidx' = NextIdx(avidx)
      /\ req' = [req EXCEPT ![p].idx = i]
      /\ VGoto(p, AwaitDisk)
      /\ UNCHANGED <<used, usidx, used_idx, fetched, serving, irq, intr, data, platter>>

\* The descriptors of the chain that starts at i: free_chain().
Chain(i) == {i, desc[i].next, desc[desc[i].next].next}

FreedHeadOnly(i) == {i}                                           \* mutant

Freed(i) == Chain(i)

\* p was woken and b->disk is 0: the chain is freed and the call returns.
RwReturn(p) ==
  LET i == req[p].idx
  IN  /\ vpc[p] = "ready" /\ ~intr
      /\ free' = free \cup Freed(i)
      /\ desc' = [j \in Index |-> IF j \in Freed(i) THEN NoDesc ELSE desc[j]]
      /\ ops' = [ops EXCEPT ![i] = None]
      /\ info' = [info EXCEPT ![i].b = None]
      /\ VWake(p, "out")
      /\ req' = [req EXCEPT ![p] = NoReq]
      /\ UNCHANGED <<rings, irq, intr, diskd, data, platter>>

\* kkill() of a process that waits for descriptors: it looks again.
VKill(p) ==
  /\ vpc[p] = "dsleep" /\ VGoto(p, "want")
  /\ UNCHANGED <<rings, chains, irq, intr, diskd, data, platter, req>>

-----------------------------------------------------------------------------
(* The device (external) *)

\* It takes the next chain of the avail ring.
Fetch ==
  /\ fetched # avidx
  /\ serving' = serving \cup {avail[fetched % NUM]}
  /\ avail' = [avail EXCEPT ![fetched % NUM] = None]
  /\ fetched' = (fetched + 1) % IDX
  /\ UNCHANGED <<avidx, used, usidx, used_idx, chains, irq, intr, diskd, data, platter, vpc, req>>

\* It finishes any chain i that it works on: the transfer, the status, the
\* used ring, the interrupt.
Serve(i) ==
  LET op == ops[i]
      b  == desc[desc[i].next].addr
      s  == desc[desc[desc[i].next].next].addr
  IN  /\ i \in serving /\ serving' = serving \ {i}
      /\ IF op.write THEN platter' = [platter EXCEPT ![op.sector] = data[b]] /\ UNCHANGED data
                     ELSE data' = [data EXCEPT ![b] = platter[op.sector]] /\ UNCHANGED platter
      /\ info' = [info EXCEPT ![s].status = 0]
      /\ used' = [used EXCEPT ![usidx % NUM] = i]
      /\ usidx' = (usidx + 1) % IDX
      /\ irq' = TRUE
      /\ UNCHANGED <<avail, avidx, used_idx, fetched, free, desc, ops, intr, diskd, vpc, req>>

-----------------------------------------------------------------------------
(* virtio_disk_intr() *)

IntrAck ==
  /\ irq /\ ~intr /\ intr' = TRUE /\ irq' = FALSE
  /\ UNCHANGED <<rings, chains, diskd, data, platter, vpc, req>>

\* The id in the entry that is looked at.
UsedId == used[Slot(used_idx)]

\* b->disk = 0, wakeup(b), for the chain of the entry.
IntrEntry ==
  LET b == info[UsedId].b
  IN  /\ intr /\ used_idx # usidx /\ info[UsedId].status = 0
      /\ diskd' = [diskd EXCEPT ![b] = FALSE]
      /\ vpc' = [p \in Procs |-> IF vpc[p] = "io" /\ req[p].b = b THEN "ready" ELSE vpc[p]]
      /\ used' = [used EXCEPT ![Slot(used_idx)] = None]
      /\ used_idx' = NextIdx(used_idx)
      /\ UNCHANGED <<avail, avidx, usidx, fetched, serving, chains, irq, intr, data, platter, req>>

IntrEnd ==
  /\ intr /\ used_idx = usidx /\ intr' = FALSE
  /\ UNCHANGED <<rings, chains, irq, diskd, data, platter, vpc, req>>

\* The steps that are not those of a process.
Device == Fetch \/ (\E i \in Index : Serve(i)) \/ IntrAck \/ IntrEntry \/ IntrEnd

VStep(p) == AllocFail(p) \/ VKill(p) \/ \E i, j, k \in Index : Submit(p, i, j, k)

-----------------------------------------------------------------------------
(* Properties *)

InFlight == {p \in Procs : vpc[p] \in {"io", "ready"}}

\* The chains from avail to used: submitted, and not yet seen by the handler.
Between(lo, hi) == {i \in 0 .. IDX - 1 : (i - lo) % IDX < (hi - lo) % IDX}
Waiting == {avail[i % NUM] : i \in Between(fetched, avidx)}
Done    == {used[i % NUM] : i \in Between(used_idx, usidx)}

\* The types of the driver's variables; the ring indices stay in their width.
VTypeOK ==
  /\ free \subseteq Index /\ desc \in [Index -> [addr : Bufs \cup Index \cup {None},
                                                 next : Index \cup {None}]]
  /\ ops \in [Index -> [write : BOOLEAN, sector : Blocks] \cup {None}]
  /\ info \in [Index -> [b : Bufs \cup {None}, status : {0, 255}]]
  /\ avail \in [Index -> Index \cup {None}] /\ used \in [Index -> Index \cup {None}]
  /\ {avidx, usidx, used_idx, fetched} \subseteq 0 .. IDX - 1 /\ serving \subseteq Index
  /\ irq \in BOOLEAN /\ intr \in BOOLEAN
  /\ diskd \in [Bufs -> BOOLEAN] /\ data \in [Bufs -> Values] /\ platter \in [Blocks -> Values]
  /\ vpc \in [Procs -> {"out", "want", "dsleep", "io", "ready"}]
  /\ req \in [Procs -> [b : Bufs \cup {None}, blk : Blocks \cup {None},
                        write : BOOLEAN, idx : Index \cup {None}]]

\* Every descriptor is free or in the chain of exactly one request: none is
\* lost, and free_desc() never finds one that is free ("free_desc 2").
NoDescLost ==
  /\ \A i \in Index : i \notin free => \E p \in InFlight : i \in Chain(req[p].idx)
  /\ \A p \in InFlight : Chain(req[p].idx) \subseteq Index \ free
  /\ \A p, q \in InFlight : p # q => Chain(req[p].idx) \cap Chain(req[q].idx) = {}

\* A request that is waited for is in exactly one place: in avail, with the
\* device, or in used, where the device has written its status; and what lies
\* in used will be seen: an interrupt is raised or the handler is in its loop.
NoRequestLost ==
  /\ \A p \in Procs : vpc[p] = "io" =>
       LET i == req[p].idx
       IN  /\ i \in Waiting \cup serving \cup Done
           /\ ~(i \in Waiting /\ i \in serving \cup Done) /\ ~(i \in serving /\ i \in Done)
  /\ \A i \in Done : info[i].status = 0 /\ info[i].b # None
  /\ Done # {} => irq \/ intr

\* A process waits for descriptors only while another's chain uses them.
DescWaiterWakes == \A p \in Procs : vpc[p] = "dsleep" => InFlight # {}

\* When virtio_disk_rw() may return, the buffer and its block agree: the
\* completion was that of this request, not of another.
RwComplete ==
  \A p \in Procs : vpc[p] = "ready" => data[req[p].b] = platter[req[p].blk]

\* No descriptor and no request is lost between the driver and the device,
\* whatever the order in which requests complete and interrupts arrive.
NothingLost == NoDescLost /\ NoRequestLost

=============================================================================
