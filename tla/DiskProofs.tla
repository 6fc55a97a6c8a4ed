----------------------------- MODULE DiskProofs -----------------------------
(***************************************************************************)
(* The steps of the disk driver, the device and the interrupt handler      *)
(* preserve the invariant of CacheProofs, and what follows from it.        *)
(***************************************************************************)
EXTENDS CacheProofs

\* The time the provers are allowed for a step.
USE SMTT(30), ZenonT(30)

-----------------------------------------------------------------------------
(* The parts of the type invariant that the steps use one by one *)

LEMMA Cursors ==
  ASSUME VTypeOK
  PROVE  /\ avidx \in 0 .. IDX - 1 /\ usidx \in 0 .. IDX - 1
         /\ used_idx \in 0 .. IDX - 1 /\ fetched \in 0 .. IDX - 1
BY DEF VTypeOK

LEMMA InfoIs ==
  ASSUME VTypeOK, NEW i \in Index
  PROVE  info[i] \in [b : Bufs \cup {None}, status : {0, 255}]
<1>1. info \in [Index -> [b : Bufs \cup {None}, status : {0, 255}]]
  BY Zenon DEF VTypeOK
<1> QED
  BY <1>1

-----------------------------------------------------------------------------
(* virtio_disk_rw() up to the ring *)

\* The steps before a request is in flight.
LEMMA OutsideFrame ==
  ASSUME DriverInv, UNCHANGED <<rings, chains, irq, intr>>,
         \A q \in Procs : vpc[q] \in {"io", "ready"} \/ vpc'[q] \in {"io", "ready"}
                            => vpc'[q] = vpc[q] /\ req'[q] = req[q]
  PROVE  ChainInv' /\ NoDescLost' /\ RingInv' /\ InFlight' = InFlight /\ Done' = Done
<1>1. InFlight' = InFlight /\ \A q \in InFlight : req'[q] = req[q]
  BY DEF InFlight
<1>2. Waiting' = Waiting /\ Done' = Done
  BY DEF Waiting, Done, rings
<1>3. Heads' = Heads
  <2>1. {q \in Procs : vpc'[q] = "io"} = {q \in Procs : vpc[q] = "io"}
    OBVIOUS
  <2>2. \A q \in {r \in Procs : vpc[r] = "io"} : req'[q] = req[q]
    OBVIOUS
  <2> QED
    BY <2>1, <2>2 DEF Heads
<1>4. ChainInv'
  <2>1. UNCHANGED <<desc, ops, info>>
    BY DEF chains
  <2>2. \A q \in InFlight : ChainOK(q)' <=> ChainOK(q)
    BY <1>1, <2>1, Zenon DEF ChainOK, Command
  <2> QED
    BY <1>1, <2>2 DEF DriverInv, ChainInv
<1>5. NoDescLost'
  BY <1>1, DescFrame, Zenon DEF DriverInv, chains
<1>6. RingInv'
  BY <1>2, <1>3, AvailFrame, UsedFrame, Zenon DEF DriverInv, RingInv, rings, chains
<1> QED
  BY <1>1, <1>2, <1>4, <1>5, <1>6

LEMMA RwStep ==
  ASSUME DiskInv, NEW p \in Procs, NEW write \in BOOLEAN, NEW where \in IoPCs,
         Rw(p, write, where), UNCHANGED <<bcache, cur, pinned>>,
         write <=> where # "reading",
         pc[p] = IF where = "reading" THEN "fill" ELSE "use",
         where = "writing" => blockno[cur[p]] \in pinned,
         \/ data' = data
         \/ where = "through" /\ \E v \in Values : data' = [data EXCEPT ![cur[p]] = v]
  PROVE  DiskInv'
<1>0. TypeOK /\ CacheInv /\ CallInv /\ DriverInv /\ CleanInv /\ ServedInv
  BY DEF DiskInv, DataInv
<1>1. PICK b \in Bufs : b = cur[p] /\ lock[b] = p /\ blockno[b] \in Blocks
  BY <1>0 DEF CacheInv, CallersInv, HoldPCs
<1>2. /\ vpc[p] = "out" /\ vpc' = [vpc EXCEPT ![p] = "want"]
      /\ req' = [req EXCEPT ![p] = [b |-> b, blk |-> blockno[b], write |-> write, idx |-> None]]
      /\ pc' = [pc EXCEPT ![p] = where]
      /\ UNCHANGED <<rings, chains, irq, intr, diskd, platter>>
  BY <1>1, Zenon DEF Rw, VGoto, Goto
<1>3. UNCHANGED <<lru, blockno, valid, refcnt, lock>>
  BY Zenon DEF bcache
<1>4. data' \in [Bufs -> Values] /\ \A c \in Bufs : c # b \/ where # "through" => data'[c] = data[c]
  <2>1. data \in [Bufs -> Values]
    BY <1>0, Zenon DEF TypeOK, VTypeOK
  <2> QED
    BY <1>1, <2>1
<1>5. \A q \in Procs : q # p /\ pc[q] \in HoldPCs => cur[q] # b /\ cur[q] \in Bufs
  BY <1>0, <1>1, Zenon DEF CacheInv, CallersInv, HoldPCs
<1>6. where \in {"reading", "writing", "through"}
  BY DEF IoPCs
<1>7. TypeOK'
  <2>1. req' \in [Procs -> [b : Bufs \cup {None}, blk : Blocks \cup {None},
                            write : BOOLEAN, idx : Index \cup {None}]]
    BY <1>0, <1>1, <1>2, Zenon DEF TypeOK, VTypeOK
  <2>2. vpc' \in [Procs -> {"out", "want", "dsleep", "io", "ready"}]
    BY <1>0, <1>2, Zenon DEF TypeOK, VTypeOK
  <2>3. VTypeOK'
    BY <1>0, <1>2, <1>4, <2>1, <2>2, Zenon DEF TypeOK, VTypeOK, rings, chains
  <2> QED
    BY <1>0, <1>2, <1>3, <1>6, <2>3 DEF TypeOK, PCs
<1>8. CacheInv'
  <2>1. OneCopy' /\ RefCount'
    BY <1>0, <1>3 DEF CacheInv, OneCopy, RefCount
  <2>2. CallersInv'
    BY <1>0, <1>1, <1>2, <1>3, <1>6 DEF CacheInv, CallersInv, HoldPCs, TypeOK
  <2>3. PinInv'
    BY <1>0, <1>1, <1>2, <1>3, <1>6 DEF CacheInv, PinInv, TypeOK
  <2>4. ValidInv'
    BY <1>0, <1>1, <1>2, <1>3, <1>6 DEF CacheInv, ValidInv, FullPCs, TypeOK
  <2>5. LockWaiterWakes'
    BY <1>0, <1>2, <1>3, <1>6 DEF CacheInv, LockWaiterWakes, TypeOK
  <2> QED
    BY <2>1, <2>2, <2>3, <2>4, <2>5, Zenon DEF CacheInv
<1>9. CallInv'
  <2> SUFFICES ASSUME NEW q \in Procs
               PROVE  /\ vpc'[q] # "out" <=> pc'[q] \in IoPCs
                      /\ vpc'[q] # "out" => /\ req'[q].b = cur'[q] /\ req'[q].blk = blockno'[cur'[q]]
                                            /\ req'[q].write <=> pc'[q] # "reading"
    BY Zenon DEF CallInv
  <2>1. CASE q = p
    BY <1>0, <1>1, <1>2, <1>3, <1>6, <2>1 DEF TypeOK, VTypeOK, IoPCs
  <2>2. CASE q # p
    <3>1. vpc'[q] = vpc[q] /\ req'[q] = req[q] /\ pc'[q] = pc[q]
      BY <1>0, <1>2, <2>2, Zenon DEF TypeOK, VTypeOK
    <3> QED
      BY <1>0, <1>3, <3>1, Zenon DEF CallInv
  <2> QED
    BY <2>1, <2>2
<1>10. DriverInv' /\ Done' = Done
  <2>1. \A q \in Procs : vpc[q] \in {"io", "ready"} \/ vpc'[q] \in {"io", "ready"}
                            => vpc'[q] = vpc[q] /\ req'[q] = req[q]
    BY <1>0, <1>2, Zenon DEF TypeOK, VTypeOK
  <2>2. ChainInv' /\ NoDescLost' /\ RingInv' /\ InFlight' = InFlight /\ Done' = Done
    BY <1>0, <1>2, <2>1, OutsideFrame, Zenon
  <2>3. DescWaiterWakes'
    BY <1>0, <1>2, <2>2, Zenon DEF DriverInv, DescWaiterWakes, TypeOK, VTypeOK
  <2> QED
    BY <2>2, <2>3 DEF DriverInv
<1>11. DataInv'
  <2>1. CleanInv'
    <3>1. ASSUME NEW c \in Bufs, valid'[c], blockno'[c] \in Blocks \ pinned'
          PROVE  data'[c] = platter'[blockno'[c]] \/ (lock'[c] # None /\ pc'[lock'[c]] = "through")
      <4>1. CASE c = b /\ where = "through"
        BY <1>0, <1>1, <1>2, <1>3, <4>1, DiskAssumption DEF TypeOK
      <4>2. CASE ~(c = b /\ where = "through")
        <5>1. data'[c] = data[c] /\ UNCHANGED <<blockno, valid, pinned, lock, platter>>
          BY <1>2, <1>3, <1>4, <4>2, Zenon
        <5>2. data[c] = platter[blockno[c]] \/ (lock[c] # None /\ pc[lock[c]] = "through")
          BY <1>0, <3>1, <5>1, Zenon DEF CleanInv
        <5>3. pc[p] # "through" /\ lock[c] \in Procs \cup {None}
          BY <1>0 DEF TypeOK
        <5>4. lock[c] # None /\ pc[lock[c]] = "through" => pc'[lock[c]] = "through"
          BY <1>0, <1>2, <5>3 DEF TypeOK
        <5> QED
          BY <5>1, <5>2, <5>4, Zenon
      <4> QED
        BY <4>1, <4>2, Zenon
    <3>2. ASSUME NEW q \in Procs, pc'[q] = "unpin"
          PROVE  data'[cur'[q]] = platter'[blockno'[cur'[q]]]
      <4>1. q # p /\ pc[q] = "unpin"
        BY <1>0, <1>2, <1>6, <3>2 DEF TypeOK
      <4> QED
        BY <1>0, <1>2, <1>3, <1>4, <1>5, <4>1, Zenon DEF CleanInv, HoldPCs
    <3> QED
      BY <3>1, <3>2, Zenon DEF CleanInv
  <2>2. ServedInv'
    <3> SUFFICES ASSUME NEW q \in Procs, vpc'[q] = "ready" \/ (vpc'[q] = "io" /\ req'[q].idx \in Done)
                 PROVE  data'[req'[q].b] = platter'[req'[q].blk]
      BY <1>10, Zenon DEF ServedInv
    <3>1. q # p /\ vpc'[q] = vpc[q] /\ req'[q] = req[q] /\ vpc[q] # "out"
      BY <1>0, <1>2, Zenon DEF TypeOK, VTypeOK
    <3>2. req[q].b # b /\ req[q].b \in Bufs
      BY <1>0, <1>5, <3>1, Zenon DEF CallInv, IoPCs, HoldPCs
    <3> QED
      BY <1>0, <1>2, <1>4, <3>1, <3>2, SMTT(30) DEF ServedInv
  <2> QED
    BY <2>1, <2>2 DEF DataInv
<1> QED
  BY <1>7, <1>8, <1>9, <1>10, <1>11, Zenon DEF DiskInv

LEMMA FillStep ==
  ASSUME DiskInv, NEW p \in Procs, Fill(p)
  PROVE  DiskInv'
<1>1. Rw(p, FALSE, "reading") /\ UNCHANGED <<bcache, cur, pinned>> /\ pc[p] = "fill" /\ data' = data
  BY Zenon DEF Fill
<1> QED
  BY <1>1, RwStep, Zenon DEF IoPCs

LEMMA InstallStep ==
  ASSUME DiskInv, NEW p \in Procs, Install(p)
  PROVE  DiskInv'
<1>1. /\ Rw(p, TRUE, "writing") /\ UNCHANGED <<bcache, cur, pinned>> /\ pc[p] = "use" /\ data' = data
      /\ blockno[cur[p]] \in pinned
  BY Zenon DEF Install
<1> QED
  BY <1>1, RwStep, Zenon DEF IoPCs

LEMMA ThroughStep ==
  ASSUME DiskInv, NEW p \in Procs, NEW v \in Values, WriteThrough(p, v)
  PROVE  DiskInv'
<1>1. /\ Rw(p, TRUE, "through") /\ UNCHANGED <<bcache, cur, pinned>> /\ pc[p] = "use"
      /\ data' = [data EXCEPT ![cur[p]] = v]
  BY Zenon DEF WriteThrough
<1> QED
  BY <1>1, RwStep, Zenon DEF IoPCs

\* Steps of the driver and the device that move no data.
LEMMA DriverStep ==
  ASSUME DiskInv, VTypeOK', UNCHANGED <<bcache, caller, data, platter>>, DriverInv',
         \A q \in Procs :
           /\ vpc'[q] = "out" <=> vpc[q] = "out"
           /\ vpc[q] # "out" => /\ req'[q].b = req[q].b /\ req'[q].blk = req[q].blk
                                /\ req'[q].write = req[q].write
           /\ vpc'[q] = "ready" \/ (vpc'[q] = "io" /\ req'[q].idx \in Done')
                => vpc[q] = "ready" \/ (vpc[q] = "io" /\ req[q].idx \in Done)
  PROVE  DiskInv'
<1>1. TypeOK'
  BY Zenon DEF DiskInv, TypeOK, bcache, caller
<1>2. CacheInv'
  BY CacheFrame DEF DiskInv
<1>3. CallInv'
  BY Zenon DEF DiskInv, CallInv, bcache, caller
<1>4. CleanInv'
  BY Zenon DEF DiskInv, DataInv, CleanInv, bcache, caller
<1>5. ServedInv'
  BY Zenon DEF DiskInv, DataInv, ServedInv
<1> QED
  BY <1>1, <1>2, <1>3, <1>4, <1>5 DEF DiskInv, DataInv

LEMMA AllocFailStep ==
  ASSUME DiskInv, NEW p \in Procs, AllocFail(p), UNCHANGED <<bcache, caller>>
  PROVE  DiskInv'
<1>0. TypeOK /\ DriverInv /\ vpc[p] = "want" /\ ~MayAlloc
  BY DEF DiskInv, AllocFail
<1>1. UNCHANGED <<rings, chains, irq, intr, diskd, data, platter, req>>
  BY DEF AllocFail
<1>2. vpc' \in [Procs -> {"out", "want", "dsleep", "io", "ready"}] /\ \A q \in Procs :
        vpc'[q] = vpc[q] \/ (vpc[q] \in {"want", "dsleep"} /\ vpc'[q] \in {"want", "dsleep"})
  <2>1. vpc \in [Procs -> {"out", "want", "dsleep", "io", "ready"}]
    BY <1>0, Zenon DEF TypeOK, VTypeOK
  <2>2. CASE vpc' = [vpc EXCEPT ![p] = "dsleep"]
    BY <1>0, <2>1, <2>2
  <2>3. CASE vpc' = [q \in Procs |-> IF q = p THEN "dsleep"
                                    ELSE IF vpc[q] = "dsleep" THEN "want" ELSE vpc[q]]
    BY <1>0, <2>1, <2>3
  <2> QED
    BY <2>2, <2>3 DEF AllocFail, VGoto, VWake
<1>3. ChainInv' /\ NoDescLost' /\ RingInv' /\ InFlight' = InFlight /\ Done' = Done
  <2>1. \A q \in Procs : vpc[q] \in {"io", "ready"} \/ vpc'[q] \in {"io", "ready"}
                            => vpc'[q] = vpc[q] /\ req'[q] = req[q]
    BY <1>1, <1>2, Zenon
  <2> QED
    BY <1>0, <1>1, <2>1, OutsideFrame, Zenon
<1>4. InFlight # {}
  <2> SUFFICES ASSUME InFlight = {}
               PROVE  FALSE
    OBVIOUS
  <2>1. free = Index
    <3>1. free \subseteq Index
      BY <1>0 DEF TypeOK, VTypeOK
    <3>2. \A i \in Index : i \in free
      BY <1>0, Zenon DEF DriverInv, NoDescLost
    <3> QED
      BY <3>1, <3>2, Zenon
  <2>2. Alloc3(0, 1, 2) /\ 0 \in Index /\ 1 \in Index /\ 2 \in Index
    BY <2>1, Sizes DEF Alloc3, Index
  <2> QED
    BY <1>0, <2>2 DEF MayAlloc
<1>5. DriverInv'
  BY <1>3, <1>4 DEF DriverInv, DescWaiterWakes
<1>6. VTypeOK'
  BY <1>0, <1>1, <1>2, Zenon DEF TypeOK, VTypeOK, rings, chains
<1> QED
  BY <1>1, <1>2, <1>3, <1>5, <1>6, DriverStep

LEMMA VKillStep ==
  ASSUME DiskInv, NEW p \in Procs, VKill(p), UNCHANGED <<bcache, caller>>
  PROVE  DiskInv'
<1>0. TypeOK /\ DriverInv /\ vpc[p] = "dsleep"
  BY DEF DiskInv, VKill
<1>1. UNCHANGED <<rings, chains, irq, intr, diskd, data, platter, req>>
  BY DEF VKill
<1>2. vpc' \in [Procs -> {"out", "want", "dsleep", "io", "ready"}] /\ \A q \in Procs :
        vpc'[q] = vpc[q] \/ (vpc[q] = "dsleep" /\ vpc'[q] = "want")
  BY <1>0, Zenon DEF VKill, VGoto, TypeOK, VTypeOK
<1>3. ChainInv' /\ NoDescLost' /\ RingInv' /\ InFlight' = InFlight /\ Done' = Done
  BY <1>0, <1>1, <1>2, OutsideFrame
<1>4. DriverInv'
  BY <1>0, <1>2, <1>3 DEF DriverInv, DescWaiterWakes
<1>5. VTypeOK'
  BY <1>0, <1>1, <1>2, Zenon DEF TypeOK, VTypeOK, rings, chains
<1> QED
  BY <1>1, <1>2, <1>3, <1>4, <1>5, DriverStep

-----------------------------------------------------------------------------
(* The life of a request *)

LEMMA RingSets ==
  /\ Waiting = Entries(avail, fetched, avidx) /\ Done = Entries(used, used_idx, usidx)
  /\ Waiting' = Entries(avail', fetched', avidx') /\ Done' = Entries(used', used_idx', usidx')
  BY Zenon DEF Waiting, Done, Entries

LEMMA SubmitStep ==
  ASSUME DiskInv, NEW p \in Procs, NEW i \in Index, NEW j \in Index, NEW k \in Index,
         Submit(p, i, j, k), UNCHANGED <<bcache, caller>>
  PROVE  DiskInv'
<1>0. TypeOK /\ DriverInv /\ CacheInv /\ CallInv /\ VTypeOK
  BY DEF DiskInv, TypeOK
<1>1. vpc[p] = "want" /\ i \in free /\ j \in free /\ k \in free /\ i # j /\ i # k /\ j # k
  BY DEF Submit, Alloc3, Index
<1>2. PICK b \in Bufs : b = req[p].b /\ req[p].blk \in Blocks
  BY <1>0, <1>1, FlightIs, Zenon
<1>3. /\ free' = free \ {i, j, k}
      /\ ops' = [ops EXCEPT ![i] = Command(p)]
      /\ desc' = [desc EXCEPT ![i] = [addr |-> i, next |-> j],
                              ![j] = [addr |-> b, next |-> k],
                              ![k] = [addr |-> i, next |-> None]]
      /\ info' = [info EXCEPT ![i] = [b |-> b, status |-> 255]]
      /\ diskd' = [diskd EXCEPT ![b] = TRUE]
      /\ req' = [req EXCEPT ![p].idx = i]
      /\ vpc' = [vpc EXCEPT ![p] = "io"]
  BY <1>2 DEF Submit, VGoto, AwaitDisk
<1>4. Put(avail', avail, avidx, i) /\ After(avidx', avidx)
  BY DEF Submit, Slot, Put, After
<1>5. UNCHANGED <<used, usidx, used_idx, fetched, serving, irq, intr, data, platter>>
  BY DEF Submit
<1>6. req' \in [Procs -> [b : Bufs \cup {None}, blk : Blocks \cup {None},
                          write : BOOLEAN, idx : Index \cup {None}]]
  <2>1. req[p] \in [b : Bufs \cup {None}, blk : Blocks \cup {None},
                    write : BOOLEAN, idx : Index \cup {None}]
    BY <1>0, Zenon DEF VTypeOK
  <2>2. [req[p] EXCEPT !.idx = i] \in [b : Bufs \cup {None}, blk : Blocks \cup {None},
                                      write : BOOLEAN, idx : Index \cup {None}]
    BY <2>1
  <2>3. req' = [req EXCEPT ![p] = [req[p] EXCEPT !.idx = i]]
    BY <1>3, Zenon
  <2> QED
    BY <1>0, <2>2, <2>3 DEF VTypeOK
<1>7. VTypeOK'
  <2>1. desc' \in [Index -> [addr : Bufs \cup Index \cup {None}, next : Index \cup {None}]]
    BY <1>0, <1>3, Zenon DEF VTypeOK
  <2>2. Command(p) \in [write : BOOLEAN, sector : Blocks]
    BY <1>0, <1>2, Zenon DEF Command, VTypeOK
  <2>3. ops' \in [Index -> [write : BOOLEAN, sector : Blocks] \cup {None}]
    BY <1>0, <1>3, <2>2 DEF VTypeOK
  <2>4. info' \in [Index -> [b : Bufs \cup {None}, status : {0, 255}]]
    BY <1>0, <1>3 DEF VTypeOK
  <2>5. avidx \in 0 .. IDX - 1
    BY <1>0 DEF VTypeOK
  <2>6. avail' \in [Index -> Index \cup {None}] /\ avidx' \in 0 .. IDX - 1
    BY <1>0, <1>4, <2>5, NextIs, Zenon DEF VTypeOK, Put, After
  <2> QED
    <3>1. {avidx', usidx', used_idx', fetched'} \subseteq 0 .. IDX - 1
      BY <1>0, <1>5, <2>6, Cursors
    <3> QED
      BY <1>0, <1>3, <1>5, <1>6, <2>1, <2>3, <2>4, <2>6, <3>1, Zenon DEF VTypeOK
<1>8. /\ req'[p].idx = i /\ req'[p].b = b /\ req'[p].blk = req[p].blk /\ req'[p].write = req[p].write
      /\ \A q \in Procs : q # p => req'[q] = req[q] /\ vpc'[q] = vpc[q]
      /\ vpc'[p] = "io"
  BY <1>0, <1>2, <1>3 DEF VTypeOK
<1>9. p \notin InFlight /\ \A q \in Procs : q \in InFlight' <=> q \in InFlight \/ q = p
  BY <1>1, <1>8 DEF InFlight
<1>10. /\ desc'[i].next = j /\ desc'[j].next = k /\ desc'[j].addr = b /\ desc'[k].addr = i
       /\ \A m \in Index \ free : desc'[m] = desc[m] /\ ops'[m] = ops[m] /\ info'[m] = info[m]
       /\ ops'[i] = Command(p) /\ info'[i].b = b
  BY <1>0, <1>1, <1>3 DEF VTypeOK
<1>11. \A q \in InFlight : /\ Chain(req[q].idx)' = Chain(req[q].idx) /\ Chain(req[q].idx) \subseteq Index \ free
                           /\ q # p /\ req'[q] = req[q]
  <2> SUFFICES ASSUME NEW q \in InFlight
               PROVE  /\ Chain(req[q].idx)' = Chain(req[q].idx) /\ Chain(req[q].idx) \subseteq Index \ free
                      /\ q # p /\ req'[q] = req[q]
    BY Zenon
  <2>1. q \in Procs /\ q # p /\ req'[q] = req[q]
    BY <1>8, <1>9, Zenon DEF InFlight
  <2>2. Chain(req[q].idx) \subseteq Index \ free
    BY <1>0, ChainIs, Zenon
  <2> QED
    <3>1. PICK m : m = req[q].idx
      BY Zenon
    <3>2. PICK n : n = desc[m].next
      BY Zenon
    <3>3. m \in Index \ free /\ n \in Index \ free
      BY <2>2, <3>1, <3>2, Zenon DEF Chain
    <3>4. desc'[m] = desc[m] /\ desc'[n] = desc[n]
      BY <1>10, <3>3, Zenon
    <3>5. Chain(m)' = Chain(m)
      BY <3>2, <3>4, Zenon DEF Chain
    <3> QED
      BY <2>1, <2>2, <3>1, <3>5, Zenon
<1>12. Chain(req[p].idx)' = {i, j, k}
  BY <1>8, <1>10, Zenon DEF Chain
<1>13. ChainInv'
  <2> SUFFICES ASSUME NEW q \in InFlight'
               PROVE  ChainOK(q)'
    BY DEF ChainInv
  <2>1. CASE q = p
    <3>1. Command(p)' = Command(p)
      BY <1>8, Zenon DEF Command
    <3> QED
      BY <1>1, <1>8, <1>10, <2>1, <3>1, Zenon DEF ChainOK
  <2>2. CASE q # p
    <3>1. q \in InFlight
      BY <1>9, <2>2, Zenon DEF InFlight
    <3>2. /\ req'[q] = req[q] /\ req[q].idx \in Index \ free /\ desc[req[q].idx].next \in Index \ free
          /\ desc[desc[req[q].idx].next].next \in Index \ free
      BY <1>11, <3>1, Zenon DEF Chain
    <3>3. Command(q)' = Command(q)
      BY <3>2, Zenon DEF Command
    <3>4. ChainOK(q)
      BY <1>0, <3>1 DEF DriverInv, ChainInv
    <3>5. /\ desc'[req[q].idx] = desc[req[q].idx] /\ ops'[req[q].idx] = ops[req[q].idx]
          /\ info'[req[q].idx] = info[req[q].idx]
          /\ desc'[desc[req[q].idx].next] = desc[desc[req[q].idx].next]
          /\ desc'[desc[desc[req[q].idx].next].next] = desc[desc[desc[req[q].idx].next].next]
      BY <1>10, <3>2, Zenon
    <3>6. req'[q] = req[q]
      BY <3>2, Zenon
    <3> QED
      BY <3>3, <3>4, <3>5, <3>6, Zenon DEF ChainOK
  <2> QED
    BY <2>1, <2>2
<1>14. NoDescLost'
  <2>1. ASSUME NEW m \in Index, m \notin free'
        PROVE  \E q \in InFlight' : m \in Chain(req[q].idx)'
    <3>1. CASE m \in {i, j, k}
      BY <1>9, <1>12, <3>1
    <3>2. CASE m \notin {i, j, k}
      <4>1. m \notin free
        BY <1>3, <2>1, <3>2
      <4>2. PICK q \in InFlight : m \in Chain(req[q].idx)
        BY <1>0, <4>1 DEF DriverInv, NoDescLost
      <4>3. q \in InFlight'
        BY <1>9 DEF InFlight
      <4>4. m \in Chain(req[q].idx)'
        BY <1>11, <4>2
      <4> QED
        BY <4>3, <4>4
    <3> QED
      BY <3>1, <3>2
  <2>2. ASSUME NEW q \in InFlight'
        PROVE  Chain(req[q].idx)' \subseteq Index \ free'
    BY <1>1, <1>3, <1>9, <1>11, <1>12, Zenon DEF InFlight
  <2>3. ASSUME NEW q \in InFlight', NEW r \in InFlight', q # r
        PROVE  Chain(req[q].idx)' \cap Chain(req[r].idx)' = {}
    <3>1. CASE q # p /\ r # p
      BY <1>0, <1>9, <1>11, <2>3, <3>1 DEF InFlight, DriverInv, NoDescLost
    <3>2. CASE q = p \/ r = p
      BY <1>1, <1>9, <1>11, <1>12, <2>3, <3>2 DEF InFlight
    <3> QED
      BY <3>1, <3>2
  <2> QED
    BY <2>1, <2>2, <2>3 DEF NoDescLost
<1>15. i \notin Heads /\ j \notin Heads
  BY <1>0, <1>1, HeadIs, Zenon
<1>16. RingOK(avail', fetched, avidx') /\ Waiting' = Waiting \cup {i}
  <2>1. fetched \in 0 .. IDX - 1 /\ avidx \in 0 .. IDX - 1 /\ avail \in [Index -> Index \cup {None}]
    BY <1>0, Zenon DEF VTypeOK
  <2>2. Waiting \subseteq Heads /\ Heads \subseteq Index
    BY <1>0, HeadIs, Zenon DEF DriverInv, RingInv
  <2>3. Entries(avail, fetched, avidx) \subseteq Index \ {i, j}
    BY <1>15, <2>2, RingSets
  <2>4. RingOK(avail, fetched, avidx)
    BY <1>0 DEF DriverInv, RingInv
  <2>5. /\ RingOK(avail', fetched, avidx')
        /\ Entries(avail', fetched, avidx') = Entries(avail, fetched, avidx) \cup {i}
    BY <1>1, <1>4, <2>1, <2>3, <2>4, RingPush
  <2> QED
    BY <1>5, <2>5, RingSets
<1>17. Done' = Done
  BY <1>5, Zenon DEF Done
<1>18. Heads' = Heads \cup {i}
  <2>1. \A q \in Procs : vpc'[q] = "io" <=> vpc[q] = "io" \/ q = p
    BY <1>1, <1>8
  <2> QED
    BY <1>1, <1>8, <2>1, SMTT(30) DEF Heads
<1>19. Waiting \cup serving \cup Done = Heads
  BY <1>0 DEF DriverInv, RingInv
<1>20. RingInv'
  <2>1. /\ Waiting' \cup serving' \cup Done' = Heads'
        /\ Waiting' \cap serving' = {} /\ Waiting' \cap Done' = {} /\ serving' \cap Done' = {}
    BY <1>0, <1>5, <1>15, <1>16, <1>17, <1>18, <1>19, Zenon DEF DriverInv, RingInv
  <2>2. \A m \in Done' : info'[m].status = 0
    BY <1>0, <1>10, <1>17, <1>19, HeadIs, Zenon DEF DriverInv, RingInv
  <2>3. RingOK(avail, fetched, avidx)' /\ RingOK(used, used_idx, usidx)'
    <3>1. RingOK(avail, fetched, avidx)'
      BY <1>5, <1>16 DEF RingOK
    <3> QED
      BY <1>0, <1>5, <3>1, UsedFrame, Zenon DEF DriverInv, RingInv
  <2> QED
    BY <1>0, <1>5, <1>17, <2>1, <2>2, <2>3, Zenon DEF DriverInv, RingInv
<1>21. DriverInv'
  BY <1>9, <1>13, <1>14, <1>20 DEF DriverInv, DescWaiterWakes
<1>22. ASSUME NEW q \in Procs
       PROVE  /\ vpc'[q] = "out" <=> vpc[q] = "out"
              /\ vpc[q] # "out" => /\ req'[q].b = req[q].b /\ req'[q].blk = req[q].blk
                                   /\ req'[q].write = req[q].write
              /\ vpc'[q] = "ready" \/ (vpc'[q] = "io" /\ req'[q].idx \in Done')
                   => vpc[q] = "ready" \/ (vpc[q] = "io" /\ req[q].idx \in Done)
  <2>1. i \notin Done
    BY <1>15, <1>19
  <2> QED
    BY <1>1, <1>2, <1>8, <1>17, <2>1, Zenon
<1> QED
  BY <1>5, <1>7, <1>21, <1>22, DriverStep, Zenon

\* Three actions move a request along a ring, and nothing else.
LEMMA MoveFrame ==
  ASSUME DiskInv, UNCHANGED <<free, desc, ops, info>>, InFlight' = InFlight,
         \A q \in Procs : req'[q] = req[q] /\ (vpc'[q] = "dsleep" => vpc[q] = "dsleep")
  PROVE  ChainInv' /\ NoDescLost' /\ DescWaiterWakes'
<1>1. \A q \in InFlight : q \in Procs /\ req'[q] = req[q]
  BY DEF InFlight
<1>2. ChainInv'
  <2>1. \A q \in InFlight : ChainOK(q)' <=> ChainOK(q)
    BY <1>1, Zenon DEF ChainOK, Command
  <2> QED
    BY <2>1 DEF DiskInv, DriverInv, ChainInv
<1>3. NoDescLost'
  BY <1>1, DescFrame, Zenon DEF DiskInv, DriverInv
<1>4. DescWaiterWakes'
  BY DEF DiskInv, DriverInv, DescWaiterWakes
<1> QED
  BY <1>2, <1>3, <1>4

LEMMA FetchStep ==
  ASSUME DiskInv, Fetch, UNCHANGED <<bcache, caller>>
  PROVE  DiskInv'
<1>0. TypeOK /\ DriverInv /\ VTypeOK /\ RingInv
  BY DEF DiskInv, TypeOK, DriverInv
<1>1. /\ fetched # avidx /\ serving' = serving \cup {avail[fetched % NUM]}
      /\ Put(avail', avail, fetched, None) /\ After(fetched', fetched)
  BY DEF Fetch, Put, After, NextIdx
<1>2. UNCHANGED <<avidx, used, usidx, used_idx, chains, irq, intr, diskd, data, platter, vpc, req>>
  BY DEF Fetch
<1>3. fetched \in 0 .. IDX - 1 /\ avidx \in 0 .. IDX - 1 /\ avail \in [Index -> Index \cup {None}]
  BY <1>0 DEF VTypeOK
<1>4. PICK x : x = avail[fetched % NUM]
  OBVIOUS
<1>5. /\ RingOK(avail', fetched', avidx) /\ x \in Waiting
      /\ Waiting' = Waiting \ {x}
  <2>1. RingOK(avail, fetched, avidx)
    BY <1>0, Zenon DEF RingInv
  <2>2. /\ RingOK(avail', fetched', avidx) /\ x \in Entries(avail, fetched, avidx)
        /\ Entries(avail', fetched', avidx) = Entries(avail, fetched, avidx) \ {x}
    BY <1>1, <1>3, <1>4, <2>1, RingPop
  <2> QED
    BY <1>2, <2>2, RingSets
<1>6. Done' = Done /\ Heads' = Heads /\ InFlight' = InFlight
  BY <1>2 DEF Done, Heads, InFlight
<1>7. RingInv'
  <2>1. /\ Waiting' \cup serving' \cup Done' = Heads'
        /\ Waiting' \cap serving' = {} /\ Waiting' \cap Done' = {} /\ serving' \cap Done' = {}
    BY <1>0, <1>1, <1>4, <1>5, <1>6, Zenon DEF RingInv
  <2>2. RingOK(avail, fetched, avidx)' /\ RingOK(used, used_idx, usidx)'
    <3>1. RingOK(avail, fetched, avidx)'
      BY <1>2, <1>5 DEF RingOK
    <3> QED
      BY <1>0, <1>2, <3>1, UsedFrame, Zenon DEF RingInv
  <2> QED
    BY <1>0, <1>2, <1>6, <2>1, <2>2, Zenon DEF RingInv, chains
<1>8. DriverInv'
  <2>1. \A q \in Procs : req'[q] = req[q] /\ (vpc'[q] = "dsleep" => vpc[q] = "dsleep")
    BY <1>2
  <2>2. ChainInv' /\ NoDescLost' /\ DescWaiterWakes'
    BY <1>2, <1>6, <2>1, MoveFrame, Zenon DEF chains
  <2> QED
    BY <1>7, <2>2 DEF DriverInv
<1>9. VTypeOK'
  <2>1. avail' \in [Index -> Index \cup {None}]
    BY <1>1, <1>3, Zenon DEF Put
  <2>2. fetched' \in 0 .. IDX - 1
    BY <1>1, <1>3, NextIs DEF After
  <2>3. x \in Index
    BY <1>0, <1>5, HeadIs DEF RingInv
  <2> QED
    <3>1. {avidx', usidx', used_idx', fetched'} \subseteq 0 .. IDX - 1 /\ serving' \subseteq Index
      <4>1. serving \subseteq Index
        BY <1>0, Zenon DEF VTypeOK
      <4> QED
        BY <1>0, <1>1, <1>2, <1>4, <2>2, <2>3, <4>1, Cursors
    <3> QED
      BY <1>0, <1>1, <1>2, <1>4, <2>1, <3>1, Zenon DEF VTypeOK, chains
<1> QED
  BY <1>2, <1>6, <1>8, <1>9, DriverStep

LEMMA AckStep ==
  ASSUME DiskInv, IntrAck \/ IntrEnd, UNCHANGED <<bcache, caller>>
  PROVE  DiskInv'
<1>0. TypeOK /\ DriverInv /\ VTypeOK /\ RingInv
  BY DEF DiskInv, TypeOK, DriverInv
<1>1. UNCHANGED <<rings, chains, diskd, data, platter, vpc, req>>
  BY DEF IntrAck, IntrEnd
<1>2. Waiting' = Waiting /\ Done' = Done /\ Heads' = Heads /\ InFlight' = InFlight
  BY <1>1 DEF Waiting, Done, Heads, InFlight, rings
<1>3. Done # {} => irq' \/ intr'
  <2>1. CASE IntrAck
    BY <2>1 DEF IntrAck
  <2>2. CASE IntrEnd
    <3>1. used_idx \in 0 .. IDX - 1 /\ usidx \in 0 .. IDX - 1 /\ used_idx = usidx
      BY <1>0, <2>2, Zenon DEF VTypeOK, IntrEnd
    <3>2. 0 .. Gap(used_idx, usidx) - 1 = {}
      BY <3>1, GapIs
    <3>3. \A z : z \notin Entries(used, used_idx, usidx)
      BY <3>1, <3>2, EntriesAre
    <3> QED
      BY <3>3, RingSets
  <2> QED
    BY <2>1, <2>2
<1>4. RingInv'
  BY <1>0, <1>1, <1>2, <1>3, AvailFrame, UsedFrame, Zenon DEF RingInv, rings, chains
<1>5. DriverInv'
  <2>1. \A q \in Procs : req'[q] = req[q] /\ (vpc'[q] = "dsleep" => vpc[q] = "dsleep")
    BY <1>1
  <2>2. ChainInv' /\ NoDescLost' /\ DescWaiterWakes'
    BY <1>1, <1>2, <2>1, MoveFrame, Zenon DEF chains
  <2> QED
    BY <1>4, <2>2 DEF DriverInv
<1>6. VTypeOK'
  <2>1. irq' \in BOOLEAN /\ intr' \in BOOLEAN
    BY <1>0, Zenon DEF IntrAck, IntrEnd, VTypeOK
  <2> QED
    BY <1>0, <1>1, <2>1, Zenon DEF VTypeOK, rings, chains
<1> QED
  BY <1>1, <1>2, <1>5, <1>6, DriverStep, Zenon

LEMMA EntryStep ==
  ASSUME DiskInv, IntrEntry, UNCHANGED <<bcache, caller>>
  PROVE  DiskInv'
<1>0. TypeOK /\ DriverInv /\ VTypeOK /\ RingInv /\ CacheInv /\ CallInv
  BY DEF DiskInv, TypeOK, DriverInv
<1>1. PICK x : x = used[used_idx % NUM]
  OBVIOUS
<1>2. /\ intr /\ used_idx # usidx
      /\ diskd' = [diskd EXCEPT ![info[x].b] = FALSE]
      /\ vpc' = [q \in Procs |-> IF vpc[q] = "io" /\ req[q].b = info[x].b THEN "ready" ELSE vpc[q]]
  BY <1>1, Zenon DEF IntrEntry, UsedId, Slot
<1>3. Put(used', used, used_idx, None) /\ After(used_idx', used_idx)
  BY Zenon DEF IntrEntry, Put, After, Slot
<1>4. UNCHANGED <<avail, avidx, usidx, fetched, serving, chains, irq, intr, data, platter, req>>
  BY Zenon DEF IntrEntry
<1>5. used_idx \in 0 .. IDX - 1 /\ usidx \in 0 .. IDX - 1 /\ used \in [Index -> Index \cup {None}]
  BY <1>0, Zenon DEF VTypeOK
<1>6. RingOK(used', used_idx', usidx) /\ x \in Done /\ Done' = Done \ {x}
  <2>1. RingOK(used, used_idx, usidx)
    BY <1>0, Zenon DEF RingInv
  <2>2. /\ RingOK(used', used_idx', usidx) /\ x \in Entries(used, used_idx, usidx)
        /\ Entries(used', used_idx', usidx) = Entries(used, used_idx, usidx) \ {x}
    BY <1>1, <1>2, <1>3, <1>5, <2>1, RingPop, SMTT(30)
  <2> QED
    BY <1>4, <2>2, RingSets
<1>7. PICK p \in Procs : p \in InFlight /\ vpc[p] = "io" /\ req[p].idx = x
  <2>1. x \in Heads
    BY <1>0, <1>6, Zenon DEF RingInv
  <2> QED
    BY <1>0, <2>1, HeadIs
<1>8. info[x].b = req[p].b
  BY <1>0, <1>7, Zenon DEF DriverInv, ChainInv, ChainOK
<1>9. \A q \in Procs : vpc'[q] = IF q = p THEN "ready" ELSE vpc[q]
  <2>1. \A q \in Procs : vpc[q] = "io" /\ q # p => req[q].b # req[p].b
    BY <1>0, <1>7, FlightsDiffer
  <2> QED
    BY <1>2, <1>7, <1>8, <2>1, Zenon
<1>10. InFlight' = InFlight
  BY <1>7, <1>9 DEF InFlight
<1>11. \A q \in Procs : vpc[q] = "io" /\ q # p => req[q].idx # x
  <2> SUFFICES ASSUME NEW q \in Procs, vpc[q] = "io", q # p
               PROVE  req[q].idx # x
    OBVIOUS
  <2>1. q \in InFlight
    BY DEF InFlight
  <2>2. req[q].idx \in Chain(req[q].idx) /\ x \in Chain(req[p].idx)
    BY <1>0, <1>7, <2>1, ChainIs
  <2>3. Chain(req[p].idx) \cap Chain(req[q].idx) = {}
    BY <1>0, <1>7, <2>1 DEF DriverInv, NoDescLost
  <2> QED
    BY <2>2, <2>3
<1>12. Heads' = Heads \ {x}
  <2>1. \A q \in Procs : vpc'[q] = "io" <=> vpc[q] = "io" /\ q # p
    BY <1>9
  <2> QED
    BY <1>4, <1>7, <1>11, <2>1 DEF Heads
<1>13. Waiting' = Waiting
  BY <1>4 DEF Waiting
<1>14. RingInv'
  <2>1. /\ Waiting' \cup serving' \cup Done' = Heads'
        /\ Waiting' \cap serving' = {} /\ Waiting' \cap Done' = {} /\ serving' \cap Done' = {}
    BY <1>0, <1>4, <1>6, <1>12, <1>13, Zenon DEF RingInv
  <2>2. RingOK(avail, fetched, avidx)' /\ RingOK(used, used_idx, usidx)'
    <3>1. RingOK(used, used_idx, usidx)'
      BY <1>4, <1>6 DEF RingOK
    <3> QED
      BY <1>0, <1>4, <3>1, AvailFrame, Zenon DEF RingInv
  <2> QED
    BY <1>0, <1>2, <1>4, <1>6, <2>1, <2>2, Zenon DEF RingInv, chains
<1>15. DriverInv'
  <2>1. \A q \in Procs : req'[q] = req[q] /\ (vpc'[q] = "dsleep" => vpc[q] = "dsleep")
    BY <1>4, <1>9
  <2>2. ChainInv' /\ NoDescLost' /\ DescWaiterWakes'
    BY <1>4, <1>10, <2>1, MoveFrame DEF chains
  <2> QED
    BY <1>14, <2>2 DEF DriverInv
<1>16. VTypeOK'
  <2>1. used' \in [Index -> Index \cup {None}]
    BY <1>3, <1>5, Zenon DEF Put
  <2>2. used_idx' \in 0 .. IDX - 1
    BY <1>3, <1>5, NextIs DEF After
  <2>3. vpc' \in [Procs -> {"out", "want", "dsleep", "io", "ready"}] /\ diskd' \in [Bufs -> BOOLEAN]
    BY <1>0, <1>2, Zenon DEF VTypeOK
  <2> QED
    <3>1. {avidx', usidx', used_idx', fetched'} \subseteq 0 .. IDX - 1
      BY <1>0, <1>4, <2>2, Cursors
    <3> QED
      BY <1>0, <1>4, <2>1, <2>3, <3>1, Zenon DEF VTypeOK, chains
<1>17. ASSUME NEW q \in Procs
       PROVE  /\ vpc'[q] = "out" <=> vpc[q] = "out"
              /\ vpc[q] # "out" => /\ req'[q].b = req[q].b /\ req'[q].blk = req[q].blk
                                   /\ req'[q].write = req[q].write
              /\ vpc'[q] = "ready" \/ (vpc'[q] = "io" /\ req'[q].idx \in Done')
                   => vpc[q] = "ready" \/ (vpc[q] = "io" /\ req[q].idx \in Done)
  BY <1>4, <1>6, <1>7, <1>9, Zenon
<1> QED
  BY <1>4, <1>15, <1>16, <1>17, DriverStep, Zenon

LEMMA ServeStep ==
  ASSUME DiskInv, NEW i \in Index, Serve(i), UNCHANGED <<bcache, caller>>
  PROVE  DiskInv'
<1>0. TypeOK /\ DriverInv /\ VTypeOK /\ RingInv /\ CacheInv /\ CallInv /\ CleanInv /\ ServedInv
  BY Zenon DEF DiskInv, TypeOK, DriverInv, DataInv
<1>1. i \in serving /\ serving' = serving \ {i} /\ irq'
  BY Zenon DEF Serve
<1>2. UNCHANGED <<avail, avidx, used_idx, fetched, free, desc, ops, intr, diskd, vpc, req>>
  BY Zenon DEF Serve
<1>3. PICK p \in Procs : p \in InFlight /\ vpc[p] = "io" /\ req[p].idx = i
  <2>1. i \in Heads
    BY <1>0, <1>1, Zenon DEF RingInv
  <2> QED
    BY <1>0, <2>1, HeadIs
<1>4. PICK b \in Bufs, n \in Blocks : b = req[p].b /\ n = req[p].blk /\ b = cur[p] /\ n = blockno[b]
  BY <1>0, <1>3, FlightIs, Zenon
<1>5. ChainOK(p)
  BY <1>0, <1>3, Zenon DEF DriverInv, ChainInv
<1>6. PICK j \in Index : j = desc[i].next /\ j # i /\ j \in Chain(i)
  BY <1>3, <1>5, Zenon DEF ChainOK, Chain
<1>7. /\ ops[i].write = req[p].write /\ ops[i].sector = n
      /\ desc[desc[i].next].addr = b /\ desc[desc[desc[i].next].next].addr = i
  <2>1. ops[i] = Command(p)
    BY <1>3, <1>5, Zenon DEF ChainOK
  <2>2. Command(p).write = req[p].write /\ Command(p).sector = n
    BY <1>4 DEF Command
  <2>3. desc[desc[i].next].addr = b /\ desc[desc[desc[i].next].next].addr = i
    BY <1>3, <1>4, <1>5, Zenon DEF ChainOK
  <2> QED
    BY <2>1, <2>2, <2>3, Zenon
<1>8. /\ IF req[p].write THEN platter' = [platter EXCEPT ![n] = data[b]] /\ data' = data
                         ELSE data' = [data EXCEPT ![b] = platter[n]] /\ platter' = platter
      /\ info' = [info EXCEPT ![i].status = 0]
  BY <1>7, Zenon DEF Serve
<1>9. Put(used', used, usidx, i) /\ After(usidx', usidx)
  BY Zenon DEF Serve, Put, After, NextIdx
<1>10. usidx \in 0 .. IDX - 1 /\ used_idx \in 0 .. IDX - 1 /\ used \in [Index -> Index \cup {None}]
  BY <1>0, Zenon DEF VTypeOK
<1>11. \A q \in Procs : vpc[q] \in {"io", "ready"} /\ q # p => req[q].idx \in Index \ {i, j}
  <2> SUFFICES ASSUME NEW q \in Procs, vpc[q] \in {"io", "ready"}, q # p
               PROVE  req[q].idx \in Index \ {i, j}
    BY Zenon
  <2>1. q \in InFlight
    BY DEF InFlight
  <2>2. req[q].idx \in Chain(req[q].idx) /\ i \in Chain(req[p].idx) /\ req[q].idx \in Index
    BY <1>0, <1>3, <2>1, ChainIs, Zenon
  <2>3. Chain(req[p].idx) \cap Chain(req[q].idx) = {}
    BY <1>0, <1>3, <2>1, Zenon DEF DriverInv, NoDescLost
  <2> QED
    BY <1>3, <1>6, <2>2, <2>3, Zenon
<1>12. Done \subseteq Index \ {i, j}
  <2>1. Done \subseteq Heads \ {i}
    BY <1>0, <1>1 DEF RingInv
  <2>2. \A m \in Heads : m = i \/ m \in Index \ {i, j}
    BY <1>3, <1>11 DEF Heads
  <2> QED
    BY <2>1, <2>2
<1>13. RingOK(used', used_idx, usidx') /\ Done' = Done \cup {i}
  <2>1. RingOK(used, used_idx, usidx)
    BY <1>0, Zenon DEF RingInv
  <2>2. Entries(used, used_idx, usidx) \subseteq Index \ {i, j}
    BY <1>12, RingSets
  <2>3. /\ RingOK(used', used_idx, usidx')
        /\ Entries(used', used_idx, usidx') = Entries(used, used_idx, usidx) \cup {i}
    BY <1>6, <1>9, <1>10, <2>1, <2>2, RingPush, SMTT(30)
  <2> QED
    BY <1>2, <2>3, RingSets
<1>14. InFlight' = InFlight /\ Heads' = Heads /\ Waiting' = Waiting
  BY <1>2, Zenon DEF InFlight, Heads, Waiting
<1>15. \A m \in Index : /\ info'[m].b = info[m].b
                        /\ info'[m].status = IF m = i THEN 0 ELSE info[m].status
  BY <1>0, <1>8 DEF VTypeOK
<1>16. DriverInv'
  <2>1. ChainInv'
    <3>1. \A q \in InFlight : ChainOK(q)
      BY <1>0 DEF DriverInv, ChainInv
    <3>2. \A q \in InFlight : ChainOK(q)'
      BY <1>2, <1>15, <3>1, Zenon DEF ChainOK, Command
    <3> QED
      BY <1>14, <3>2 DEF ChainInv
  <2>2. NoDescLost'
    BY <1>0, <1>2, <1>14, DescFrame, Zenon DEF DriverInv
  <2>3. RingInv'
    <3>1. /\ Waiting' \cup serving' \cup Done' = Heads'
          /\ Waiting' \cap serving' = {} /\ Waiting' \cap Done' = {} /\ serving' \cap Done' = {}
      BY <1>0, <1>1, <1>13, <1>14, Zenon DEF RingInv
    <3>2. RingOK(avail, fetched, avidx)' /\ RingOK(used, used_idx, usidx)'
      <4>1. RingOK(used, used_idx, usidx)'
        BY <1>2, <1>13 DEF RingOK
      <4> QED
        BY <1>0, <1>2, <4>1, AvailFrame, Zenon DEF RingInv
    <3>3. \A m \in Done' : info'[m].status = 0
      BY <1>0, <1>12, <1>13, <1>15, Zenon DEF RingInv
    <3> QED
      BY <1>1, <3>1, <3>2, <3>3, Zenon DEF RingInv
  <2>4. DescWaiterWakes'
    BY <1>0, <1>2, <1>14 DEF DriverInv, DescWaiterWakes
  <2> QED
    BY <2>1, <2>2, <2>3, <2>4 DEF DriverInv
<1>17. TypeOK'
  <2>1. data' \in [Bufs -> Values] /\ platter' \in [Blocks -> Values]
    <3>1. data \in [Bufs -> Values] /\ platter \in [Blocks -> Values]
      BY <1>0, Zenon DEF VTypeOK
    <3>2. CASE req[p].write
      BY <1>8, <3>1, <3>2
    <3>3. CASE ~req[p].write
      BY <1>8, <3>1, <3>3
    <3> QED
      BY <3>2, <3>3
  <2>2. info' \in [Index -> [b : Bufs \cup {None}, status : {0, 255}]]
    <3>1. info[i] \in [b : Bufs \cup {None}, status : {0, 255}]
      BY <1>0, InfoIs, Zenon
    <3>2. [info[i] EXCEPT !.status = 0] \in [b : Bufs \cup {None}, status : {0, 255}]
      BY <3>1
    <3>3. info' = [info EXCEPT ![i] = [info[i] EXCEPT !.status = 0]]
      BY <1>8, Zenon
    <3> QED
      BY <1>0, <3>2, <3>3 DEF VTypeOK
  <2>3. used' \in [Index -> Index \cup {None}]
    BY <1>9, <1>10, Zenon DEF Put
  <2>4. usidx' \in 0 .. IDX - 1
    BY <1>9, <1>10, NextIs DEF After
  <2>5. VTypeOK'
    <3>1. serving' \subseteq Index
      BY <1>0, <1>1, Zenon DEF VTypeOK
    <3>2. irq' \in BOOLEAN
      BY <1>1, Zenon
    <3>3. {avidx, usidx, used_idx, fetched}' \subseteq 0 .. IDX - 1
      BY <1>0, <1>2, <2>4, Cursors
    <3> QED
      BY <1>0, <1>2, <2>1, <2>2, <2>3, <3>1, <3>2, <3>3, Zenon DEF VTypeOK
  <2> QED
    BY <1>0, <2>5 DEF TypeOK, bcache, caller
<1>18. CacheInv' /\ CallInv'
  <2>1. CacheInv'
    BY <1>0, CacheFrame
  <2>2. CallInv'
    BY <1>0, <1>2, Zenon DEF CallInv, bcache, caller
  <2> QED
    BY <2>1, <2>2
<1>19. /\ data'[b] = platter'[n]
       /\ \A c \in Bufs : c # b => data'[c] = data[c]
       /\ \A m \in Blocks : m # n => platter'[m] = platter[m]
       /\ ~req[p].write => pc[p] = "reading"
       /\ pc[p] \in IoPCs
  BY <1>0, <1>3, <1>4, <1>8 DEF VTypeOK, CallInv
<1>20. UNCHANGED <<blockno, valid, lock, pc, cur, pinned>>
  BY DEF bcache, caller
<1>21. CleanInv'
  <2>1. ASSUME NEW c \in Bufs, valid[c], blockno[c] \in Blocks \ pinned
        PROVE  data'[c] = platter'[blockno[c]] \/ (lock[c] # None /\ pc[lock[c]] = "through")
    <3>1. CASE c = b
      BY <1>4, <1>19, <3>1, Zenon
    <3>2. CASE c # b
      <4>1. blockno[c] # n
        BY <1>0, <1>4, <2>1, <3>2, DiskAssumption, Zenon DEF CacheInv, OneCopy
      <4> QED
        BY <1>0, <1>19, <2>1, <3>2, <4>1, Zenon DEF CleanInv
    <3> QED
      BY <3>1, <3>2, Zenon
  <2>2. ASSUME NEW q \in Procs, pc[q] = "unpin"
        PROVE  data'[cur[q]] = platter'[blockno[cur[q]]]
    <3>1. q # p /\ pc[q] \in HoldPCs /\ pc[p] \in HoldPCs
      BY <1>19, <2>2, Zenon DEF IoPCs, HoldPCs
    <3>2. cur[q] # cur[p] /\ blockno[cur[q]] # blockno[cur[p]]
      BY <1>0, <3>1, OneHolder, Zenon
    <3>3. cur[q] \in Bufs /\ blockno[cur[q]] \in Blocks
      BY <1>0, <2>2, Zenon DEF CacheInv, CallersInv
    <3> QED
      BY <1>0, <1>4, <1>19, <2>2, <3>2, <3>3, Zenon DEF CleanInv
  <2> QED
    BY <1>20, <2>1, <2>2, Zenon DEF CleanInv
<1>22. ServedInv'
  <2> SUFFICES ASSUME NEW q \in Procs, vpc[q] = "ready" \/ (vpc[q] = "io" /\ req[q].idx \in Done')
               PROVE  data'[req[q].b] = platter'[req[q].blk]
    BY <1>2, Zenon DEF ServedInv
  <2>1. CASE q = p
    BY <1>4, <1>19, <2>1, Zenon
  <2>2. CASE q # p
    <3>1. vpc[q] # "out" /\ vpc[q] \in {"io", "ready"} /\ vpc[p] # "out"
      BY <1>3, Zenon
    <3>2. req[q].idx # i
      BY <1>11, <2>2, <3>1, Zenon
    <3>3. req[q].b # b /\ req[q].blk # n /\ req[q].b \in Bufs /\ req[q].blk \in Blocks
      <4>1. req[q].b # req[p].b /\ req[q].blk # req[p].blk
        BY <1>0, <2>2, <3>1, FlightsDiffer, Zenon
      <4>2. req[q].b \in Bufs /\ req[q].blk \in Blocks
        BY <1>0, <3>1, FlightIs, Zenon
      <4> QED
        BY <1>4, <4>1, <4>2, Zenon
    <3>4. data[req[q].b] = platter[req[q].blk]
      BY <1>0, <1>13, <3>2, Zenon DEF ServedInv
    <3> QED
      BY <1>19, <3>3, <3>4, Zenon
  <2> QED
    BY <2>1, <2>2, Zenon
<1> QED
  BY <1>16, <1>17, <1>18, <1>21, <1>22 DEF DiskInv, DataInv

LEMMA RwDoneStep ==
  ASSUME DiskInv, NEW p \in Procs, RwDone(p)
  PROVE  DiskInv'
<1>0. TypeOK /\ DriverInv /\ VTypeOK /\ RingInv /\ CacheInv /\ CallInv /\ CleanInv /\ ServedInv
  BY DEF DiskInv, TypeOK, DriverInv, DataInv
<1>1. PICK i : i = req[p].idx
  OBVIOUS
<1>2. /\ vpc[p] = "ready"
      /\ free' = free \cup Chain(i)
      /\ desc' = [j \in Index |-> IF j \in Chain(i) THEN NoDesc ELSE desc[j]]
      /\ ops' = [ops EXCEPT ![i] = None]
      /\ info' = [info EXCEPT ![i].b = None]
      /\ req' = [req EXCEPT ![p] = NoReq]
      /\ UNCHANGED <<rings, irq, intr, diskd, data, platter>>
  BY <1>1 DEF RwDone, RwReturn, Freed
<1>3. vpc' = [q \in Procs |-> IF q = p THEN "out" ELSE IF vpc[q] = "dsleep" THEN "want" ELSE vpc[q]]
  BY DEF RwDone, RwReturn, VWake
<1>4. PICK b \in Bufs : /\ b = req[p].b /\ b = cur[p] /\ req[p].blk = blockno[b] /\ blockno[b] \in Blocks
                        /\ lock[b] = p
  <2>1. pc[p] \in HoldPCs
    BY <1>0, <1>2 DEF CallInv, IoPCs, HoldPCs
  <2> QED
    BY <1>0, <1>2, <2>1, FlightIs DEF CacheInv, CallersInv
<1>5. /\ pc[p] \in {"reading", "writing", "through"} /\ valid' = [valid EXCEPT ![b] = TRUE]
      /\ pc' = [pc EXCEPT ![p] = CASE pc[p] = "reading" -> "use" [] pc[p] = "writing" -> "unpin"
                                   [] OTHER -> "done"]
      /\ UNCHANGED <<lru, blockno, refcnt, lock, cur, pinned>>
  BY <1>0, <1>2, <1>4 DEF RwDone, Goto, CallInv, IoPCs
<1>6. PICK u \in {"use", "unpin", "done"} : /\ pc' = [pc EXCEPT ![p] = u]
                                            /\ u = "unpin" => pc[p] = "writing"
  BY <1>5, Zenon
<1>7. data[b] = platter[blockno[b]]
  BY <1>0, <1>2, <1>4, Zenon DEF ServedInv
<1>8. \A q \in Procs : q # p /\ pc[q] \in HoldPCs => cur[q] # b
  BY <1>0, <1>4, Zenon DEF CacheInv, CallersInv
<1>9. p \in InFlight /\ i \in Index /\ i \in Chain(i) /\ Chain(i) \subseteq Index
  <2>1. p \in InFlight
    BY <1>2 DEF InFlight
  <2> QED
    BY <1>0, <1>1, <2>1, ChainIs, Zenon
<1>10. TypeOK'
  <2>1. desc' \in [Index -> [addr : Bufs \cup Index \cup {None}, next : Index \cup {None}]]
    BY <1>0, <1>2 DEF VTypeOK, NoDesc
  <2>2. info' \in [Index -> [b : Bufs \cup {None}, status : {0, 255}]]
    <3>1. info[i] \in [b : Bufs \cup {None}, status : {0, 255}]
      BY <1>0, <1>9, InfoIs, Zenon
    <3>2. [info[i] EXCEPT !.b = None] \in [b : Bufs \cup {None}, status : {0, 255}]
      BY <3>1
    <3>3. info' = [info EXCEPT ![i] = [info[i] EXCEPT !.b = None]]
      BY <1>2, Zenon
    <3> QED
      BY <1>0, <3>2, <3>3, Zenon DEF VTypeOK
  <2>3. req' \in [Procs -> [b : Bufs \cup {None}, blk : Blocks \cup {None},
                            write : BOOLEAN, idx : Index \cup {None}]]
    BY <1>0, <1>2 DEF VTypeOK, NoReq
  <2>4. vpc' \in [Procs -> {"out", "want", "dsleep", "io", "ready"}]
    BY <1>0, <1>3, Zenon DEF VTypeOK
  <2>5. free' \subseteq Index /\ ops' \in [Index -> [write : BOOLEAN, sector : Blocks] \cup {None}]
    BY <1>0, <1>2, <1>9 DEF VTypeOK
  <2>6. VTypeOK'
    BY <1>0, <1>2, <2>1, <2>2, <2>3, <2>4, <2>5 DEF VTypeOK, rings
  <2> QED
    BY <1>0, <1>5, <1>6, <2>6 DEF TypeOK, PCs
<1>11. CacheInv'
  <2>1. OneCopy' /\ RefCount'
    BY <1>0, <1>5 DEF CacheInv, OneCopy, RefCount
  <2>2. CallersInv'
    BY <1>0, <1>4, <1>5, <1>6 DEF CacheInv, CallersInv, HoldPCs, TypeOK
  <2>3. PinInv'
    BY <1>0, <1>5, <1>6 DEF CacheInv, PinInv, TypeOK
  <2>4. ValidInv'
    BY <1>0, <1>4, <1>5, <1>6, <1>8 DEF CacheInv, CallersInv, ValidInv, FullPCs, HoldPCs, TypeOK
  <2>5. LockWaiterWakes'
    BY <1>0, <1>5, <1>6 DEF CacheInv, LockWaiterWakes, TypeOK
  <2> QED
    BY <2>1, <2>2, <2>3, <2>4, <2>5 DEF CacheInv
<1>12. \A q \in Procs : q # p => req'[q] = req[q] /\ (vpc'[q] = "out" <=> vpc[q] = "out")
                                 /\ \A w \in {"io", "ready"} : vpc'[q] = w <=> vpc[q] = w
  BY <1>0, <1>2, <1>3 DEF VTypeOK
<1>13. CallInv'
  <2> SUFFICES ASSUME NEW q \in Procs
               PROVE  /\ vpc'[q] # "out" <=> pc'[q] \in IoPCs
                      /\ vpc'[q] # "out" => /\ req'[q].b = cur'[q] /\ req'[q].blk = blockno'[cur'[q]]
                                            /\ req'[q].write <=> pc'[q] # "reading"
    BY Zenon DEF CallInv
  <2>1. CASE q = p
    BY <1>0, <1>3, <1>6, <2>1, Zenon DEF TypeOK, IoPCs
  <2>2. CASE q # p
    BY <1>0, <1>5, <1>6, <1>12, <2>2 DEF CallInv, TypeOK
  <2> QED
    BY <2>1, <2>2, Zenon
<1>14. \A q \in Procs : q \in InFlight' <=> q \in InFlight /\ q # p
  BY <1>3, <1>12, Zenon DEF InFlight
<1>15. Waiting' = Waiting /\ Done' = Done
  BY <1>2 DEF Waiting, Done, rings
<1>16. Heads' = Heads
  <2>1. \A q \in Procs : vpc'[q] = "io" <=> vpc[q] = "io"
    BY <1>2, <1>3, <1>12
  <2>2. \A q \in Procs : vpc[q] = "io" => req'[q] = req[q]
    BY <1>2, <1>12
  <2> QED
    BY <2>1, <2>2, Zenon DEF Heads
<1>17. \A m \in Index \ Chain(i) : desc'[m] = desc[m] /\ ops'[m] = ops[m] /\ info'[m] = info[m]
  BY <1>0, <1>2, <1>9 DEF VTypeOK
<1>18. \A q \in InFlight' : /\ q \in InFlight /\ q \in Procs /\ q # p /\ req'[q] = req[q]
                            /\ Chain(req[q].idx) \subseteq Index \ Chain(i)
                            /\ Chain(req[q].idx)' = Chain(req[q].idx)
  <2> SUFFICES ASSUME NEW q \in InFlight'
               PROVE  /\ q \in InFlight /\ q \in Procs /\ q # p /\ req'[q] = req[q]
                      /\ Chain(req[q].idx) \subseteq Index \ Chain(i)
                      /\ Chain(req[q].idx)' = Chain(req[q].idx)
    OBVIOUS
  <2>1. q \in Procs
    BY DEF InFlight
  <2>2. q \in InFlight /\ q # p
    BY <1>14, <2>1
  <2>3. req'[q] = req[q]
    BY <1>12, <2>1, <2>2
  <2>4. Chain(req[q].idx) \subseteq Index \ Chain(i)
    BY <1>0, <1>1, <1>9, <2>2 DEF DriverInv, NoDescLost
  <2>5. Chain(req[q].idx)' = Chain(req[q].idx)
    <3>1. req[q].idx \in Index \ Chain(i) /\ desc[req[q].idx].next \in Index \ Chain(i)
      BY <2>4, Zenon DEF Chain
    <3>2. desc'[req[q].idx] = desc[req[q].idx]
      BY <1>17, <3>1, Zenon
    <3>3. desc'[desc[req[q].idx].next] = desc[desc[req[q].idx].next]
      BY <1>17, <3>1, Zenon
    <3> QED
      BY <2>3, <3>2, <3>3 DEF Chain
  <2> QED
    BY <2>1, <2>2, <2>3, <2>4, <2>5
<1>19. ChainInv'
  <2> SUFFICES ASSUME NEW q \in InFlight'
               PROVE  ChainOK(q)'
    BY DEF ChainInv
  <2>1. /\ req'[q] = req[q] /\ req[q].idx \in Index \ Chain(i)
        /\ desc[req[q].idx].next \in Index \ Chain(i)
        /\ desc[desc[req[q].idx].next].next \in Index \ Chain(i)
    BY <1>18, Zenon DEF Chain
  <2>2. ChainOK(q)
    BY <1>0, <1>18, Zenon DEF DriverInv, ChainInv
  <2>3. Command(q)' = Command(q)
    BY <2>1, Zenon DEF Command
  <2>4. /\ desc'[req[q].idx] = desc[req[q].idx] /\ ops'[req[q].idx] = ops[req[q].idx]
        /\ info'[req[q].idx] = info[req[q].idx]
        /\ desc'[desc[req[q].idx].next] = desc[desc[req[q].idx].next]
        /\ desc'[desc[desc[req[q].idx].next].next] = desc[desc[desc[req[q].idx].next].next]
    BY <1>17, <2>1, Zenon
  <2>5. req'[q] = req[q]
    BY <2>1, Zenon
  <2> QED
    BY <2>2, <2>3, <2>4, <2>5, Zenon DEF ChainOK
<1>20. NoDescLost'
  <2>1. ASSUME NEW m \in Index, m \notin free'
        PROVE  \E q \in InFlight' : m \in Chain(req[q].idx)'
    <3>1. m \notin free /\ m \notin Chain(i)
      BY <1>2, <2>1
    <3>2. PICK q \in InFlight : m \in Chain(req[q].idx)
      BY <1>0, <3>1 DEF DriverInv, NoDescLost
    <3>3. q # p /\ q \in Procs
      BY <1>1, <3>1, <3>2, Zenon DEF InFlight
    <3>4. q \in InFlight'
      BY <1>14, <3>2, <3>3
    <3> QED
      BY <1>18, <3>2, <3>4, Zenon
  <2>2. ASSUME NEW q \in InFlight'
        PROVE  Chain(req[q].idx)' \subseteq Index \ free'
    <3>1. Chain(req[q].idx) \subseteq Index \ free
      BY <1>0, <1>18, Zenon DEF DriverInv, NoDescLost
    <3> QED
      BY <1>2, <1>18, <3>1
  <2>3. ASSUME NEW q \in InFlight', NEW r \in InFlight', q # r
        PROVE  Chain(req[q].idx)' \cap Chain(req[r].idx)' = {}
    <3>1. Chain(req[q].idx) \cap Chain(req[r].idx) = {}
      BY <1>0, <1>18, <2>3, Zenon DEF DriverInv, NoDescLost
    <3> QED
      BY <1>18, <3>1, Zenon
  <2> QED
    BY <2>1, <2>2, <2>3 DEF NoDescLost
<1>21. RingInv'
  <2>1. Done \subseteq Index
    BY <1>0, HeadIs, Zenon DEF RingInv
  <2>2. \A m \in Index : info'[m].status = info[m].status
    BY <1>0, <1>2, <1>9 DEF VTypeOK
  <2> QED
    BY <1>0, <1>2, <1>15, <1>16, <2>1, <2>2, AvailFrame, UsedFrame, Zenon DEF RingInv, rings
<1>22. DescWaiterWakes'
  BY <1>3 DEF DescWaiterWakes
<1>23. CleanInv'
  <2>1. ASSUME NEW c \in Bufs, valid'[c], blockno[c] \in Blocks \ pinned
        PROVE  data[c] = platter[blockno[c]] \/ (lock[c] # None /\ pc'[lock[c]] = "through")
    <3>1. CASE c = b
      BY <1>7, <3>1
    <3>2. CASE c # b
      <4>1. valid[c] /\ lock[c] # p
        BY <1>0, <1>4, <1>5, <2>1, <3>2, DiskAssumption DEF TypeOK, CacheInv, CallersInv
      <4> QED
        BY <1>0, <1>6, <2>1, <4>1, Zenon DEF CleanInv, TypeOK
    <3> QED
      BY <3>1, <3>2
  <2>2. ASSUME NEW q \in Procs, pc'[q] = "unpin"
        PROVE  data[cur[q]] = platter[blockno[cur[q]]]
    BY <1>0, <1>4, <1>6, <1>7, <2>2 DEF CleanInv, TypeOK
  <2> QED
    BY <1>2, <1>5, <2>1, <2>2 DEF CleanInv
<1>24. ServedInv'
  <2>1. vpc'[p] = "out"
    BY <1>3
  <2> QED
    BY <1>0, <1>2, <1>12, <1>15, <2>1 DEF ServedInv
<1> QED
  BY <1>10, <1>11, <1>13, <1>19, <1>20, <1>21, <1>22, <1>23, <1>24 DEF DiskInv, DriverInv, DataInv

-----------------------------------------------------------------------------
(* Theorems *)

LEMMA DiskInvInit == Init => DiskInv
<1> SUFFICES ASSUME Init
             PROVE  DiskInv
  OBVIOUS
<1>1. TypeOK
  <2>1. VTypeOK
    <3>1. data \in [Bufs -> Values]
      BY DEF Init
    <3>2. 0 \in 0 .. IDX - 1
      BY Sizes
    <3>3. VInit
      BY DEF Init
    <3>4. {avidx, usidx, used_idx, fetched} \subseteq 0 .. IDX - 1
      BY <3>2, <3>3 DEF VInit
    <3> QED
      BY <3>1, <3>3, <3>4, Zenon DEF VInit, VTypeOK, NoDesc, NoReq
  <2> QED
    BY <2>1 DEF Init, TypeOK, PCs
<1>2. CacheInv
  <2>1. \A b \in Bufs : Users(cur, b) = {}
    BY DiskAssumption DEF Init, Users
  <2>2. RefCount
    BY <2>1, FS_EmptySet, RefCountIs DEF Init
  <2> QED
    BY <2>2, DiskAssumption, Zenon DEF Init, CacheInv, OneCopy, CallersInv, PinInv, ValidInv, LockWaiterWakes,
                                HoldPCs, FullPCs
<1>3. CallInv
  BY Zenon DEF Init, VInit, CallInv, IoPCs
<1>4. InFlight = {} /\ Heads = {} /\ serving = {} /\ free = Index
  BY Zenon DEF Init, VInit, InFlight, Heads
<1>5. Waiting = {} /\ Done = {} /\ RingOK(avail, fetched, avidx) /\ RingOK(used, used_idx, usidx)
  <2>1. 0 \in 0 .. IDX - 1
    BY Sizes
  <2>2. Gap(0, 0) = 0
    BY <2>1, GapIs
  <2>3. 0 .. Gap(0, 0) - 1 = {} /\ Gap(0, 0) < NUM
    BY <2>2, Sizes
  <2>4. \A r, z : z \notin Entries(r, 0, 0)
    BY <2>1, <2>3, EntriesAre
  <2>5. \A r : RingOK(r, 0, 0)
    BY <2>1, <2>3, RingOKIs
  <2>6. fetched = 0 /\ avidx = 0 /\ used_idx = 0 /\ usidx = 0
    BY Zenon DEF Init, VInit
  <2> QED
    BY <2>4, <2>5, <2>6, RingSets
<1>6. DriverInv
  BY <1>4, <1>5, Zenon DEF DriverInv, ChainInv, NoDescLost, RingInv, DescWaiterWakes, Init, VInit
<1>7. DataInv
  BY <1>4, Zenon DEF Init, VInit, DataInv, CleanInv, ServedInv
<1> QED
  BY <1>1, <1>2, <1>3, <1>6, <1>7 DEF DiskInv

LEMMA DiskInvStep == DiskInv /\ [Next]_vars => DiskInv'
<1> SUFFICES ASSUME DiskInv, [Next]_vars
             PROVE  DiskInv'
  OBVIOUS
<1>1. CASE Device /\ UNCHANGED <<bcache, caller>>
  BY <1>1, FetchStep, ServeStep, AckStep, EntryStep DEF Device
<1>2. ASSUME NEW p \in Procs, Running(p)
      PROVE  DiskInv'
  <2>1. CASE Disk(p)
    BY <2>1, AllocFailStep, VKillStep, SubmitStep DEF Disk, VStep
  <2>2. CASE acquiresleep(p) \/ Fill(p) \/ RwDone(p) \/ Install(p)
    BY <2>2, AcquireStep, FillStep, RwDoneStep, InstallStep
  <2>3. CASE bunpin(p) \/ releasesleep(p) \/ brelse(p)
    BY <2>3, UnpinStep, ReleaseStep, BrelseStep
  <2>4. ASSUME NEW v \in Values, LogWrite(p, v) \/ WriteThrough(p, v)
        PROVE  DiskInv'
    BY <2>4, LogWriteStep, ThroughStep
  <2> QED
    BY <1>2, <2>1, <2>2, <2>3, <2>4 DEF Running
<1>3. ASSUME NEW p \in Procs, NEW k \in Blocks, bgetHit(p, k) \/ bgetRecycle(p, k)
      PROVE  DiskInv'
  BY <1>3, HitStep, RecycleStep
<1>4. CASE UNCHANGED vars
  <2>1. UNCHANGED <<vdisk, bcache, caller>>
    BY <1>4 DEF vars
  <2>2. VTypeOK'
    BY <2>1, Zenon DEF DiskInv, TypeOK, VTypeOK, vdisk, rings, chains
  <2>3. DriverInv'
    BY <2>1, DriverFrame DEF DiskInv, vdisk
  <2>4. UNCHANGED <<vpc, req, data, platter>> /\ Done' = Done
    BY <2>1, Zenon DEF vdisk, rings, Done
  <2> QED
    BY <2>1, <2>2, <2>3, <2>4, DriverStep, Zenon
<1> QED
  BY <1>1, <1>2, <1>3, <1>4 DEF Next

\* The invariant: what bget(), virtio_disk_rw(), the device and the interrupt
\* handler know of buffers, descriptors and rings agrees in every state.
THEOREM DiskInvariant == Spec => []DiskInv
  BY DiskInvInit, DiskInvStep, PTL DEF Spec

\* The types, and the LRU list, which stays a permutation of the buffers.
THEOREM DiskTypes == Spec => []TypeOK
<1>1. DiskInv => TypeOK
  BY DEF DiskInv
<1> QED
  BY <1>1, DiskInvariant, PTL

\* One buffer for a block, counted by its users, and one to recycle.
THEOREM CacheTheorem == Spec => []CacheSound
<1>1. DiskInv => CacheSound
  BY Zenon DEF DiskInv, CacheInv, CallersInv, CacheSound, NoPanic
<1> QED
  BY <1>1, DiskInvariant, PTL

\* A request keeps its buffer and its block until they agree.
THEOREM TransferTheorem == Spec => []TransfersComplete
<1>1. DiskInv => TransfersComplete
  <2> SUFFICES ASSUME DiskInv
               PROVE  TransfersComplete
    OBVIOUS
  <2>1. TransferIsSafe
    <3>1. CallInv /\ CallersInv
      BY Zenon DEF DiskInv, CacheInv
    <3> QED
      BY <3>1 DEF CallInv, IoPCs, CallersInv, HoldPCs, TransferIsSafe
  <2>2. RwComplete
    BY Zenon DEF DiskInv, DataInv, ServedInv, RwComplete
  <2> QED
    BY <2>1, <2>2 DEF TransfersComplete
<1> QED
  BY <1>1, DiskInvariant, PTL

\* No descriptor and no request is lost between the driver and the device.
THEOREM NothingLostTheorem == Spec => []NothingLost
<1>1. DiskInv => NothingLost
  <2> SUFFICES ASSUME DiskInv
               PROVE  NothingLost
    OBVIOUS
  <2>0. TypeOK /\ DriverInv /\ RingInv /\ CacheInv /\ CallInv
    BY DEF DiskInv, DriverInv
  <2>1. ASSUME NEW i \in Done
        PROVE  info[i].b # None
    <3>1. i \in Heads
      BY <2>0 DEF RingInv
    <3>2. PICK p \in Procs : p \in InFlight /\ vpc[p] = "io" /\ req[p].idx = i
      BY <2>0, <3>1, HeadIs, Zenon
    <3>3. info[i].b = req[p].b
      BY <2>0, <3>2, Zenon DEF DriverInv, ChainInv, ChainOK
    <3>4. req[p].b \in Bufs
      BY <2>0, <3>2, FlightIs, Zenon
    <3> QED
      BY <3>3, <3>4, DiskAssumption
  <2>2. ASSUME NEW p \in Procs, vpc[p] = "io"
        PROVE  req[p].idx \in Waiting \cup serving \cup Done
    BY <2>0, <2>2, Zenon DEF RingInv, Heads
  <2>3. NoRequestLost
    BY <2>0, <2>1, <2>2, Zenon DEF RingInv, NoRequestLost
  <2> QED
    BY <2>0, <2>3 DEF DriverInv, NothingLost
<1> QED
  BY <1>1, DiskInvariant, PTL

\* Whoever sleeps for a buffer or for descriptors has somebody to wait for.
THEOREM WaitersTheorem == Spec => []WaitersWake
<1>1. DiskInv => WaitersWake
  BY DEF DiskInv, CacheInv, DriverInv, WaitersWake
<1> QED
  BY <1>1, DiskInvariant, PTL

\* What a reader of a block sees changes only by the process that holds the
\* block's buffer: no update is lost when bget() recycles a buffer, and no
\* transfer goes astray.
THEOREM HolderTheorem == Spec => OnlyHolderWrites
<1>1. DiskInv /\ DiskInv' /\ [Next]_vars =>
        [\A k \in Blocks : Content(k)' # Content(k) =>
           \E p \in Procs : pc[p] = "use" /\ blockno[cur[p]] = k /\ lock[cur[p]] = p]_vars
  BY ContentStep, Zenon
<1> QED
  BY <1>1, DiskInvariant, PTL DEF Spec, OnlyHolderWrites
=============================================================================
