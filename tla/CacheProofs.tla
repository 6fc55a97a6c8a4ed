---------------------------- MODULE CacheProofs -----------------------------
(***************************************************************************)
(* The buffer cache over the disk driver, for any number of processes,     *)
(* buffers, blocks and descriptors: the inductive invariant, that the      *)
(* steps of the callers of bread(), bwrite() and brelse() preserve it, and *)
(* which steps change what a reader sees.                                  *)
(***************************************************************************)
EXTENDS BufCache, Modulus, FiniteSetTheorems, WellFoundedInduction

\* The time the provers are allowed for a step.
USE SMTT(30), ZenonT(30)

-----------------------------------------------------------------------------
(* The inductive invariant *)

HoldPCs == {"fill", "reading", "use", "writing", "through", "unpin", "done"}
FullPCs == {"use", "writing", "through", "unpin", "done"}
IoPCs   == {"reading", "writing", "through"}

\* What a caller has between bget() and brelse(): a buffer with a block, and
\* from acquiresleep() to releasesleep() its lock.
CallersInv ==
  /\ \A p \in Procs :
       /\ pc[p] # "panic"
       /\ cur[p] \in Bufs <=> pc[p] # "idle"
       /\ pc[p] # "idle" => blockno[cur[p]] \in Blocks
       /\ pc[p] \in HoldPCs => lock[cur[p]] = p
  /\ \A b \in Bufs : lock[b] # None => cur[lock[b]] = b /\ pc[lock[b]] \in HoldPCs

\* A pinned block has a buffer, and install_trans() writes pinned ones only.
PinInv ==
  /\ \A k \in pinned : \E b \in Bufs : blockno[b] = k
  /\ \A p \in Procs : pc[p] \in {"writing", "unpin"} => blockno[cur[p]] \in pinned

\* b->valid, as bread() sees it.
ValidInv ==
  \A p \in Procs : /\ pc[p] \in FullPCs => valid[cur[p]]
                   /\ pc[p] \in {"fill", "reading"} => ~valid[cur[p]]

\* A buffer that differs from its block is pinned, or being written through.
CleanInv ==
  /\ \A b \in Bufs : valid[b] /\ blockno[b] \in Blocks \ pinned =>
       data[b] = platter[blockno[b]] \/ (lock[b] # None /\ pc[lock[b]] = "through")
  /\ \A p \in Procs : pc[p] = "unpin" => data[cur[p]] = platter[blockno[cur[p]]]
  
\* The call of virtio_disk_rw() is the one the caller waits for.
CallInv ==
  \A p \in Procs :
    /\ vpc[p] # "out" <=> pc[p] \in IoPCs
    /\ vpc[p] # "out" => /\ req[p].b = cur[p] /\ req[p].blk = blockno[cur[p]]
                         /\ req[p].write <=> pc[p] # "reading"

\* The chain of a request describes it.
ChainOK(p) ==
  LET i == req[p].idx
      j == desc[i].next
      k == desc[j].next
  IN  /\ i \in Index /\ j \in Index /\ k \in Index /\ i # j
      /\ desc[j].addr = req[p].b /\ desc[k].addr = i
      /\ ops[i] = Command(p) /\ info[i].b = req[p].b

ChainInv == \A p \in InFlight : ChainOK(p)

\* A ring between two indices holds different entries, and is not full.
RingOK(ring, lo, hi) ==
  LET n == (hi - lo) % IDX
  IN  /\ n < NUM
      /\ \A d, e \in 0 .. n - 1 : ring[(lo + d) % NUM] = ring[(lo + e) % NUM] => d = e

Heads == {req[p].idx : p \in {q \in Procs : vpc[q] = "io"}}

\* Every request is in one place.
RingInv ==
  /\ RingOK(avail, fetched, avidx) /\ RingOK(used, used_idx, usidx)
  /\ Waiting \cup serving \cup Done = Heads
  /\ Waiting \cap serving = {} /\ Waiting \cap Done = {} /\ serving \cap Done = {}
  /\ \A i \in Done : info[i].status = 0
  /\ Done # {} => irq \/ intr

\* A served request is done.
ServedInv ==
  \A p \in Procs : vpc[p] = "ready" \/ (vpc[p] = "io" /\ req[p].idx \in Done) =>
    data[req[p].b] = platter[req[p].blk]

CacheInv  == OneCopy /\ RefCount /\ CallersInv /\ PinInv /\ ValidInv /\ LockWaiterWakes
DriverInv == ChainInv /\ NoDescLost /\ RingInv /\ DescWaiterWakes
DataInv   == CleanInv /\ ServedInv

DiskInv == TypeOK /\ CacheInv /\ CallInv /\ DriverInv /\ DataInv

-----------------------------------------------------------------------------
(* Rings *)

Gap(lo, hi)         == (hi - lo) % IDX
Entry(ring, lo, d)  == ring[(lo + d) % NUM]
Entries(ring, lo, hi) == {ring[i % NUM] : i \in Between(lo, hi)}

Put(r, ring, i, x)  == r = [ring EXCEPT ![i % NUM] = x]
After(h, hi)        == h = NextIdx(hi)

LEMMA Sizes == /\ NUM \in Nat /\ NUM > 0 /\ NUM >= 3 /\ IDX \in Nat /\ IDX > 0 /\ IDX >= NUM
               /\ IDX % NUM = 0
  BY DiskAssumption

LEMMA GapIs ==
  ASSUME NEW lo \in 0 .. IDX - 1, NEW hi \in 0 .. IDX - 1
  PROVE  /\ Gap(lo, hi) = IF hi >= lo THEN hi - lo ELSE hi - lo + IDX
         /\ Gap(lo, hi) \in 0 .. IDX - 1
         /\ Gap(lo, hi) = 0 <=> lo = hi
<1>1. PICK x \in Int : x = hi - lo
  OBVIOUS
<1>2. /\ 0 <= x /\ x < IDX => x % IDX = x
      /\ -IDX <= x /\ x < 0 => x % IDX = x + IDX
  BY ResidueNear, Sizes
<1>3. Gap(lo, hi) = x % IDX
  BY <1>1 DEF Gap
<1> QED
  BY <1>1, <1>2, <1>3, Sizes

LEMMA NextIs ==
  ASSUME NEW i \in 0 .. IDX - 1
  PROVE  /\ NextIdx(i) = IF i + 1 < IDX THEN i + 1 ELSE 0
         /\ NextIdx(i) \in 0 .. IDX - 1
<1>1. PICK x \in Int : x = i + 1
  OBVIOUS
<1>2. /\ 0 <= x /\ x < IDX => x % IDX = x
      /\ IDX <= x /\ x < IDX + IDX => x % IDX = x - IDX
  BY ResidueNear, Sizes
<1>3. NextIdx(i) = x % IDX
  BY <1>1 DEF NextIdx
<1> QED
  BY <1>1, <1>2, <1>3, Sizes

\* A push lengthens the ring by one, and a pop shortens it.
LEMMA GapNext ==
  ASSUME NEW lo \in 0 .. IDX - 1, NEW hi \in 0 .. IDX - 1
  PROVE  /\ Gap(lo, hi) + 1 < IDX => Gap(lo, NextIdx(hi)) = Gap(lo, hi) + 1
         /\ lo # hi => Gap(NextIdx(lo), hi) = Gap(lo, hi) - 1
<1>1. PICK u \in 0 .. IDX - 1 : u = NextIdx(hi) /\ u = IF hi + 1 < IDX THEN hi + 1 ELSE 0
  BY NextIs
<1>2. PICK v \in 0 .. IDX - 1 : v = NextIdx(lo) /\ v = IF lo + 1 < IDX THEN lo + 1 ELSE 0
  BY NextIs
<1>3. Gap(lo, hi) = IF hi >= lo THEN hi - lo ELSE hi - lo + IDX
  BY GapIs
<1>4. Gap(lo, u) = IF u >= lo THEN u - lo ELSE u - lo + IDX
  BY GapIs
<1>5. Gap(v, hi) = IF hi >= v THEN hi - v ELSE hi - v + IDX
  BY GapIs
<1>6. Gap(lo, hi) + 1 < IDX => Gap(lo, u) = Gap(lo, hi) + 1
  BY <1>1, <1>3, <1>4, Sizes
<1>7. lo # hi => Gap(v, hi) = Gap(lo, hi) - 1
  BY <1>2, <1>3, <1>5, Sizes
<1> QED
  BY <1>1, <1>2, <1>6, <1>7

\* The slot is the same before and after the index wraps.
LEMMA SlotWraps ==
  ASSUME NEW i \in 0 .. IDX - 1, NEW x \in Int, x = i \/ x = i + IDX
  PROVE  i % NUM = x % NUM
<1>1. i \in Int
  OBVIOUS
<1>2. i % NUM = (i + IDX) % NUM
  BY <1>1, ResidueWraps, Sizes, Zenon
<1> QED
  BY <1>2

LEMMA EntryNext ==
  ASSUME NEW lo \in 0 .. IDX - 1, NEW d \in Nat, NEW ring
  PROVE  Entry(ring, NextIdx(lo), d) = Entry(ring, lo, d + 1)
<1>1. PICK x \in Int : x = NextIdx(lo) + d
  BY NextIs
<1>2. x = lo + (d + 1) \/ x + IDX = lo + (d + 1)
  BY <1>1, NextIs, Sizes
<1>3. x % NUM = (x + IDX) % NUM
  BY ResidueWraps, Sizes, Zenon
<1> QED
  BY <1>1, <1>2, <1>3 DEF Entry

LEMMA EntryEnd ==
  ASSUME NEW lo \in 0 .. IDX - 1, NEW hi \in 0 .. IDX - 1, NEW ring
  PROVE  Entry(ring, lo, Gap(lo, hi)) = ring[hi % NUM]
<1>0. Gap(lo, hi) = IF hi >= lo THEN hi - lo ELSE hi - lo + IDX
  BY GapIs
<1>1. PICK x \in Int : x = lo + Gap(lo, hi)
  BY <1>0, Sizes
<1>2. x = hi \/ x = hi + IDX
  BY <1>0, <1>1, Sizes
<1>3. hi % NUM = x % NUM
  BY <1>2, SlotWraps
<1> QED
  BY <1>1, <1>3 DEF Entry

\* The entries, by their distance from the first.
LEMMA EntriesAre ==
  ASSUME NEW lo \in 0 .. IDX - 1, NEW hi \in 0 .. IDX - 1, NEW ring
  PROVE  \A z : z \in Entries(ring, lo, hi)
                <=> \E d \in 0 .. Gap(lo, hi) - 1 : z = Entry(ring, lo, d)
<1>1. ASSUME NEW i \in Between(lo, hi)
      PROVE  \E d \in 0 .. Gap(lo, hi) - 1 : ring[i % NUM] = Entry(ring, lo, d)
  <2>1. i \in 0 .. IDX - 1 /\ Gap(lo, i) < Gap(lo, hi)
    BY DEF Between, Gap
  <2>2. Gap(lo, i) \in 0 .. Gap(lo, hi) - 1
    BY <2>1, GapIs
  <2> QED
    BY <2>1, <2>2, EntryEnd
<1>2. ASSUME NEW d \in 0 .. Gap(lo, hi) - 1
      PROVE  \E i \in Between(lo, hi) : ring[i % NUM] = Entry(ring, lo, d)
  <2>0. d \in 0 .. IDX - 1 /\ d < Gap(lo, hi)
    <3>1. PICK g \in 0 .. IDX - 1 : g = Gap(lo, hi)
      BY GapIs
    <3> QED
      BY <3>1, Sizes
  <2>1. PICK i \in 0 .. IDX - 1 : i = lo + d \/ i + IDX = lo + d
    <3>1. CASE lo + d < IDX
      <4>1. lo + d \in 0 .. IDX - 1
        BY <2>0, <3>1, Sizes
      <4> QED
        BY <4>1
    <3>2. CASE lo + d >= IDX
      <4>1. PICK x : x = lo + d - IDX
        OBVIOUS
      <4>2. x \in 0 .. IDX - 1 /\ x + IDX = lo + d
        BY <2>0, <3>2, <4>1, Sizes
      <4> QED
        BY <4>2
    <3> QED
      BY <2>0, <3>1, <3>2, Sizes
  <2>2. Gap(lo, i) = d
    <3>1. Gap(lo, i) = IF i >= lo THEN i - lo ELSE i - lo + IDX
      BY GapIs
    <3> QED
      BY <2>0, <2>1, <3>1, Sizes
  <2>3. i \in Between(lo, hi)
    BY <2>0, <2>2 DEF Between, Gap
  <2> QED
    BY <2>2, <2>3, EntryEnd
<1> QED
  BY <1>1, <1>2 DEF Entries

LEMMA EntriesDiffer ==
  ASSUME NEW lo \in 0 .. IDX - 1, NEW d \in Nat, NEW e \in Nat, d < e, e < d + NUM
  PROVE  (lo + d) % NUM # (lo + e) % NUM
<1>1. PICK a \in Nat : a = lo + d
  OBVIOUS
<1>2. PICK b \in Nat : b = lo + e
  OBVIOUS
<1>3. a < b /\ b < a + NUM
  BY <1>1, <1>2, Sizes
<1> QED
  BY <1>1, <1>2, <1>3, ResiduesDiffer, Sizes, Zenon

LEMMA SlotIn ==
  ASSUME NEW i \in Int
  PROVE  i % NUM \in Index
  BY Sizes DEF Index

\* RingOK, entry by entry.
LEMMA RingOKIs ==
  ASSUME NEW lo \in 0 .. IDX - 1, NEW hi \in 0 .. IDX - 1, NEW ring
  PROVE  RingOK(ring, lo, hi) <=>
           /\ Gap(lo, hi) < NUM
           /\ \A d, e \in 0 .. Gap(lo, hi) - 1 : Entry(ring, lo, d) = Entry(ring, lo, e) => d = e
  BY Zenon DEF RingOK, Entry, Gap

\* Pigeons: the entries leave out two descriptors, and so two places.
LEMMA RingRoom ==
  ASSUME NEW lo \in 0 .. IDX - 1, NEW hi \in 0 .. IDX - 1, NEW ring,
         RingOK(ring, lo, hi), NEW x \in Index, NEW y \in Index, x # y,
         Entries(ring, lo, hi) \subseteq Index \ {x, y}
  PROVE  Gap(lo, hi) + 2 <= NUM
<1>1. PICK g \in 0 .. IDX - 1 : g = Gap(lo, hi)
  BY GapIs
<1> DEFINE S == 0 .. g - 1
           T == (Index \ {x}) \ {y}
           f == [d \in S |-> Entry(ring, lo, d)]
<1>2. IsFiniteSet(Index) /\ Cardinality(Index) = NUM
  BY FS_Interval, Sizes DEF Index
<1>3. IsFiniteSet(Index \ {x}) /\ Cardinality(Index \ {x}) = NUM - 1
  BY <1>2, FS_RemoveElement
<1>4. IsFiniteSet(T) /\ Cardinality(T) = NUM - 1 - 1
  BY <1>3, FS_RemoveElement
<1>5. IsFiniteSet(S) /\ Cardinality(S) = g
  <2>1. 0 \in Int /\ g - 1 \in Int
    BY <1>1, Sizes
  <2>2. IsFiniteSet(S) /\ Cardinality(S) = IF 0 > g - 1 THEN 0 ELSE (g - 1) - 0 + 1
    BY <2>1, FS_Interval, Zenon
  <2> QED
    BY <1>1, <2>2, Sizes
<1>6. \A d \in S : Entry(ring, lo, d) \in T
  BY <1>1, EntriesAre
<1>7. f \in Injection(S, T)
  <2>1. f \in [S -> T]
    BY <1>6
  <2>2. \A d, e \in S : f[d] = f[e] => d = e
    BY <1>1, RingOKIs
  <2> QED
    BY <2>1, <2>2 DEF Injection, IsInjective
<1> HIDE DEF S, T, f
<1>8. Cardinality(S) <= Cardinality(T)
  BY <1>4, <1>7, FS_Injection
<1> QED
  BY <1>1, <1>4, <1>5, <1>8, Sizes

\* An entry is added at the end.
LEMMA RingPush ==
  ASSUME NEW lo \in 0 .. IDX - 1, NEW hi \in 0 .. IDX - 1,
         NEW ring \in [Index -> Index \cup {None}], NEW r, NEW h,
         RingOK(ring, lo, hi), NEW x \in Index, NEW y \in Index, x # y,
         Entries(ring, lo, hi) \subseteq Index \ {x, y},
         Put(r, ring, hi, x), After(h, hi)
  PROVE  /\ RingOK(r, lo, h)
         /\ Entries(r, lo, h) = Entries(ring, lo, hi) \cup {x}
<1>1. PICK g \in 0 .. IDX - 1 : g = Gap(lo, hi)
  BY GapIs
<1>2. g + 2 <= NUM
  BY <1>1, RingRoom
<1>3. h \in 0 .. IDX - 1 /\ Gap(lo, h) = g + 1
  <2>1. Gap(lo, hi) + 1 < IDX
    BY <1>1, <1>2, Sizes
  <2>2. Gap(lo, NextIdx(hi)) = Gap(lo, hi) + 1
    BY <2>1, GapNext, Zenon
  <2>3. NextIdx(hi) \in 0 .. IDX - 1
    BY NextIs, Zenon
  <2>4. h = NextIdx(hi)
    BY Zenon DEF After
  <2> QED
    BY <1>1, <2>2, <2>3, <2>4, Zenon
<1>4. hi % NUM \in Index
  BY SlotIn
<1>5. Entry(r, lo, g) = x
  <2>1. (lo + g) % NUM \in Index /\ hi \in Int
    BY SlotIn
  <2>2. Entry(r, lo, g) = r[hi % NUM]
    <3>1. PICK z \in Int : z = lo + g /\ (z = hi \/ z = hi + IDX)
      <4>1. g = IF hi >= lo THEN hi - lo ELSE hi - lo + IDX
        BY <1>1, GapIs, Zenon
      <4> QED
        BY <4>1, Sizes
    <3>2. hi % NUM = z % NUM
      BY <3>1, SlotWraps
    <3> QED
      BY <3>1, <3>2 DEF Entry
  <2> QED
    BY <1>4, <2>2 DEF Put
<1>6. ASSUME NEW d \in 0 .. g - 1
      PROVE  Entry(r, lo, d) = Entry(ring, lo, d) /\ Entry(ring, lo, d) # x
  <2>1. d \in Nat /\ g \in Nat /\ d < g /\ g < d + NUM
    BY <1>2, Sizes
  <2>2. (lo + d) % NUM # (lo + g) % NUM
    BY <2>1, EntriesDiffer
  <2>3. (lo + g) % NUM = hi % NUM
    <3>1. PICK z \in Int : z = lo + g /\ (z = hi \/ z = hi + IDX)
      <4>1. g = IF hi >= lo THEN hi - lo ELSE hi - lo + IDX
        BY <1>1, GapIs, Zenon
      <4> QED
        BY <4>1, Sizes
    <3> QED
      BY <3>1, SlotWraps
  <2>4. (lo + d) % NUM \in Index
    BY SlotIn
  <2>5. Entry(r, lo, d) = Entry(ring, lo, d)
    BY <2>2, <2>3, <2>4 DEF Entry, Put
  <2>6. Entry(ring, lo, d) \in Entries(ring, lo, hi)
    BY <1>1, EntriesAre
  <2> QED
    BY <2>5, <2>6
<1>7. \A d, e \in 0 .. g : Entry(r, lo, d) = Entry(r, lo, e) => d = e
  <2> SUFFICES ASSUME NEW d \in 0 .. g, NEW e \in 0 .. g, Entry(r, lo, d) = Entry(r, lo, e)
               PROVE  d = e
    OBVIOUS
  <2>1. CASE d = g
    <3>1. e \in 0 .. g - 1 \/ e = g
      OBVIOUS
    <3> QED
      BY <1>5, <1>6, <2>1, <3>1, Zenon
  <2>2. CASE e = g
    <3>1. d \in 0 .. g - 1 \/ d = g
      OBVIOUS
    <3> QED
      BY <1>5, <1>6, <2>2, <3>1
  <2>3. CASE d # g /\ e # g
    <3>1. d \in 0 .. g - 1 /\ e \in 0 .. g - 1
      BY <2>3
    <3>2. Entry(ring, lo, d) = Entry(ring, lo, e)
      BY <1>6, <3>1
    <3> QED
      BY <1>1, <3>1, <3>2, RingOKIs
  <2> QED
    BY <2>1, <2>2, <2>3
<1>8. RingOK(r, lo, h)
  <2>1. 0 .. Gap(lo, h) - 1 = 0 .. g /\ Gap(lo, h) < NUM
    BY <1>2, <1>3, Sizes
  <2> QED
    BY <1>3, <1>7, <2>1, RingOKIs
<1>9. Entries(r, lo, h) = Entries(ring, lo, hi) \cup {x}
  <2>1. \A d : d \in 0 .. Gap(lo, h) - 1 <=> d \in 0 .. g - 1 \/ d = g
    BY <1>3
  <2>2. \A z : z \in Entries(r, lo, h) <=> \E d \in 0 .. Gap(lo, h) - 1 : z = Entry(r, lo, d)
    <3>1. h \in 0 .. IDX - 1
      BY <1>3
    <3> QED
      BY <3>1, EntriesAre
  <2>3. \A z : z \in Entries(ring, lo, hi) <=> \E d \in 0 .. g - 1 : z = Entry(ring, lo, d)
    BY <1>1, EntriesAre
  <2>4. ASSUME NEW z
        PROVE  z \in Entries(r, lo, h) <=> z \in Entries(ring, lo, hi) \/ z = x
    BY <1>5, <1>6, <2>1, <2>2, <2>3, Zenon
  <2> QED
    BY <2>4
<1> QED
  BY <1>8, <1>9

\* The first entry is taken out.
LEMMA RingPop ==
  ASSUME NEW lo \in 0 .. IDX - 1, NEW hi \in 0 .. IDX - 1,
         NEW ring \in [Index -> Index \cup {None}], NEW r, NEW l,
         RingOK(ring, lo, hi), lo # hi,
         Put(r, ring, lo, None), After(l, lo)
  PROVE  /\ ring[lo % NUM] \in Entries(ring, lo, hi)
         /\ RingOK(r, l, hi)
         /\ Entries(r, l, hi) = Entries(ring, lo, hi) \ {ring[lo % NUM]}
<1>1. PICK g \in 0 .. IDX - 1 : g = Gap(lo, hi) /\ g # 0 /\ g < NUM
  BY GapIs, RingOKIs
<1>2. l \in 0 .. IDX - 1 /\ Gap(l, hi) = g - 1
  BY <1>1, NextIs, GapNext DEF After
<1>3. Entry(ring, lo, 0) = ring[lo % NUM]
  BY DEF Entry
<1>4. 0 \in 0 .. g - 1
  BY <1>1
<1>5. \A z : z \in Entries(ring, lo, hi) <=> \E d \in 0 .. g - 1 : z = Entry(ring, lo, d)
  BY <1>1, EntriesAre
<1>6. ring[lo % NUM] \in Entries(ring, lo, hi)
  BY <1>3, <1>4, <1>5
<1>7. ASSUME NEW d \in 0 .. g - 2
      PROVE  Entry(r, l, d) = Entry(ring, lo, d + 1)
  <2>1. 0 \in Nat /\ d \in Nat /\ d + 1 \in Nat /\ 0 < d + 1 /\ d + 1 < 0 + NUM
    BY <1>1, Sizes
  <2>2. (lo + 0) % NUM # (lo + (d + 1)) % NUM
    BY <2>1, EntriesDiffer
  <2>3. lo + 0 = lo /\ lo + (d + 1) \in Int
    BY <2>1
  <2>4. (lo + (d + 1)) % NUM \in Index
    BY <2>3, SlotIn
  <2>5. Entry(r, lo, d + 1) = Entry(ring, lo, d + 1)
    BY <2>2, <2>3, <2>4 DEF Entry, Put
  <2> QED
    BY <2>1, <2>5, EntryNext DEF After
<1>8. RingOK(r, l, hi)
  <2>1. Gap(l, hi) < NUM /\ 0 .. Gap(l, hi) - 1 = 0 .. g - 2
    <3>1. g - 1 < NUM /\ (g - 1) - 1 = g - 2
      BY <1>1, Sizes
    <3> QED
      BY <1>2, <3>1
  <2>2. ASSUME NEW d \in 0 .. g - 2, NEW e \in 0 .. g - 2, Entry(r, l, d) = Entry(r, l, e)
        PROVE  d = e
    <3>1. Entry(ring, lo, d + 1) = Entry(ring, lo, e + 1)
      BY <1>7, <2>2
    <3>2. d + 1 \in 0 .. g - 1 /\ e + 1 \in 0 .. g - 1
      OBVIOUS
    <3>3. d + 1 = e + 1
      BY <1>1, <3>1, <3>2, RingOKIs
    <3> QED
      BY <3>3
  <2> QED
    BY <1>2, <2>1, <2>2, RingOKIs
<1>9. Entries(r, l, hi) = Entries(ring, lo, hi) \ {ring[lo % NUM]}
  <2>1. \A z : z \in Entries(r, l, hi) <=> \E d \in 0 .. g - 2 : z = Entry(r, l, d)
    <3>1. 0 .. Gap(l, hi) - 1 = 0 .. g - 2
      BY <1>2
    <3>2. \A z : z \in Entries(r, l, hi) <=> \E d \in 0 .. Gap(l, hi) - 1 : z = Entry(r, l, d)
      <4>1. l \in 0 .. IDX - 1
        BY <1>2
      <4> QED
        BY <4>1, EntriesAre
    <3> QED
      BY <3>1, <3>2, Zenon
  <2>2. ASSUME NEW d \in 0 .. g - 2
        PROVE  Entry(r, l, d) \in Entries(ring, lo, hi) \ {ring[lo % NUM]}
    <3>1. d + 1 \in 0 .. g - 1 /\ d + 1 # 0
      OBVIOUS
    <3>2. Entry(ring, lo, d + 1) # Entry(ring, lo, 0)
      BY <1>1, <1>4, <3>1, RingOKIs
    <3> QED
      BY <1>3, <1>5, <1>7, <3>1, <3>2
  <2>3. ASSUME NEW z \in Entries(ring, lo, hi) \ {ring[lo % NUM]}
        PROVE  \E d \in 0 .. g - 2 : z = Entry(r, l, d)
    <3>1. PICK e \in 0 .. g - 1 : z = Entry(ring, lo, e)
      BY <1>5
    <3>2. e # 0
      BY <1>3, <3>1
    <3>3. PICK d : d = e - 1
      OBVIOUS
    <3>4. d \in 0 .. g - 2 /\ d + 1 = e
      BY <3>2, <3>3
    <3> QED
      BY <1>7, <3>1, <3>4
  <2>4. Entries(r, l, hi) \subseteq Entries(ring, lo, hi) \ {ring[lo % NUM]}
    BY <2>1, <2>2
  <2>5. Entries(ring, lo, hi) \ {ring[lo % NUM]} \subseteq Entries(r, l, hi)
    BY <2>1, <2>3, Zenon
  <2> QED
    BY <2>4, <2>5, Zenon
<1> QED
  BY <1>6, <1>8, <1>9
-----------------------------------------------------------------------------
(* The list of buffers, and who uses them *)

\* A bounded set of numbers has a largest one.
LEMMA Largest ==
  ASSUME NEW n \in Nat, NEW S, S \subseteq 1 .. n, S # {}
  PROVE  \E i \in S : \A j \in S : j <= i
<1> DEFINE T == {n - i : i \in S}
<1>1. T \subseteq Nat /\ T # {}
  <2>1. \A i \in S : n - i \in Nat
    OBVIOUS
  <2> QED
    BY <2>1, Zenon
<1>2. PICK x \in T : \A y \in T : <<y, x>> \notin OpToRel(<, Nat)
  BY <1>1, NatLessThanWellFounded, WFMin, Zenon
<1>3. ASSUME NEW y \in T
      PROVE  x <= y
  <2> HIDE DEF T
  <2>1. x \in Nat /\ y \in Nat
    BY <1>1
  <2>2. ~(<<y, x>> \in Nat \X Nat /\ y < x)
    BY <1>2 DEF OpToRel
  <2> QED
    BY <2>1, <2>2
<1>4. PICK i \in S : x = n - i
  OBVIOUS
<1>5. ASSUME NEW j \in S
      PROVE  j <= i
  <2>1. x <= n - j
    BY <1>3
  <2> QED
    BY <1>4, <2>1
<1> QED
  BY <1>5

LEMMA BufsFinite == Cardinality(Bufs) \in Nat
  BY CacheAssumption, FS_CardinalityType

LEMMA ListKept ==
  ASSUME lru \in Lists, NEW b \in Bufs
  PROVE  MovedToHead(b) \in Lists
<1>1. PICK n \in Nat : n = Cardinality(Bufs)
  BY BufsFinite
<1>2. lru \in [1 .. n -> Bufs] /\ DOMAIN lru = 1 .. n /\ \A c \in Bufs : \E i \in 1 .. n : lru[i] = c
  BY <1>1 DEF Lists
<1>3. PICK i : i = CHOOSE j \in DOMAIN lru : lru[j] = b
  OBVIOUS
<1>4. i \in 1 .. n /\ lru[i] = b
  BY <1>2, <1>3
<1>5. PICK l : l = [j \in 1 .. n |-> IF j = 1 THEN b ELSE IF j <= i THEN lru[j - 1] ELSE lru[j]]
  BY Zenon
<1>6. l = MovedToHead(b)
  BY <1>2, <1>3, <1>5 DEF MovedToHead
<1>7. l \in [1 .. n -> Bufs]
  BY <1>2, <1>5
<1>8. ASSUME NEW c \in Bufs
      PROVE  \E j \in 1 .. n : l[j] = c
  <2>1. CASE c = b
    BY <1>4, <1>5, <2>1
  <2>2. CASE c # b
    <3>1. PICK k \in 1 .. n : lru[k] = c
      BY <1>2
    <3>2. CASE k < i
      <4>1. k + 1 \in 1 .. n /\ k + 1 # 1 /\ k + 1 <= i /\ (k + 1) - 1 = k
        BY <1>4, <3>2
      <4> QED
        BY <1>5, <3>1, <4>1
    <3>3. CASE ~(k < i)
      <4>1. k # i
        BY <1>4, <2>2, <3>1
      <4>2. k # 1 /\ ~(k <= i)
        BY <1>4, <3>3, <4>1
      <4> QED
        BY <1>5, <3>1, <4>2
    <3> QED
      BY <3>2, <3>3
  <2> QED
    BY <2>1, <2>2
<1> QED
  BY <1>1, <1>6, <1>7, <1>8 DEF Lists

Users(f, b)       == {p \in Procs : f[p] = b}
Gives(g, f, p, b) == g = [f EXCEPT ![p] = b]

LEMMA UsersFinite ==
  ASSUME NEW f, NEW b
  PROVE  IsFiniteSet(Users(f, b)) /\ Cardinality(Users(f, b)) \in Nat
<1>1. Users(f, b) \subseteq Procs
  BY DEF Users
<1> QED
  BY <1>1, CacheAssumption, FS_Subset, FS_CardinalityType

\* A process that had no buffer has one, or the other way round.
LEMMA UsersChange ==
  ASSUME NEW f \in [Procs -> Bufs \cup {None}], NEW p \in Procs, NEW b \in Bufs,
         NEW g, Gives(g, f, p, b), f[p] = None
  PROVE  \A c \in Bufs : Cardinality(Users(g, c))
                         = Cardinality(Users(f, c)) + (IF c = b THEN 1 ELSE 0)
<1> SUFFICES ASSUME NEW c \in Bufs
             PROVE  Cardinality(Users(g, c)) = Cardinality(Users(f, c)) + (IF c = b THEN 1 ELSE 0)
  OBVIOUS
<1>0. f[p] \notin Bufs
  BY DiskAssumption
<1>1. CASE c = b
  <2>1. Users(g, b) = Users(f, b) \cup {p} /\ p \notin Users(f, b)
    BY <1>0 DEF Users, Gives
  <2> QED
    BY <1>1, <2>1, UsersFinite, FS_AddElement, Zenon
<1>2. CASE c # b
  <2>1. Users(g, c) = Users(f, c)
    BY <1>0, <1>2 DEF Users, Gives
  <2> QED
    BY <1>2, <2>1, UsersFinite
<1> QED
  BY <1>1, <1>2

LEMMA UsersSome ==
  ASSUME NEW f, NEW p \in Procs
  PROVE  Cardinality(Users(f, f[p])) >= 1
<1>1. p \in Users(f, f[p])
  BY DEF Users
<1>2. Cardinality(Users(f, f[p])) # 0
  BY <1>1, UsersFinite, FS_EmptySet
<1> QED
  BY <1>2, UsersFinite

LEMMA RefCountIs ==
  RefCount <=> \A b \in Bufs : refcnt[b] = Cardinality(Users(cur, b))
                                           + (IF blockno[b] \in pinned THEN 1 ELSE 0)
  BY Zenon DEF RefCount, Users
-----------------------------------------------------------------------------
(* What a step leaves alone *)

\* The descriptors and the rings, when what they are read from does not change.
LEMMA DescFrame ==
  ASSUME NoDescLost, InFlight' = InFlight, \A q \in InFlight : req'[q] = req[q],
         UNCHANGED <<free, desc>>
  PROVE  NoDescLost'
<1>1. ASSUME NEW q \in InFlight PROVE Chain(req[q].idx)' = Chain(req[q].idx)
  BY Zenon DEF Chain
<1>2. \A i \in Index : i \notin free' => \E q \in InFlight' : i \in Chain(req[q].idx)'
  BY <1>1 DEF NoDescLost
<1>3. \A q \in InFlight' : Chain(req[q].idx)' \subseteq Index \ free'
  BY <1>1 DEF NoDescLost
<1>4. \A p, q \in InFlight' : p # q => Chain(req[p].idx)' \cap Chain(req[q].idx)' = {}
  BY <1>1 DEF NoDescLost
<1> QED
  BY <1>2, <1>3, <1>4, Zenon DEF NoDescLost

LEMMA AvailFrame ==
  ASSUME RingOK(avail, fetched, avidx), UNCHANGED <<avail, fetched, avidx>>
  PROVE  RingOK(avail, fetched, avidx)'
BY DEF RingOK

LEMMA UsedFrame ==
  ASSUME RingOK(used, used_idx, usidx), UNCHANGED <<used, used_idx, usidx>>
  PROVE  RingOK(used, used_idx, usidx)'
BY DEF RingOK

LEMMA DriverFrame ==
  ASSUME DriverInv, UNCHANGED <<rings, chains, irq, intr, vpc, req>>
  PROVE  DriverInv'
<1>1. InFlight' = InFlight /\ Waiting' = Waiting /\ Done' = Done /\ Heads' = Heads
  BY DEF rings, chains, InFlight, Waiting, Done, Heads
<1>2. ChainInv'
  BY <1>1, Zenon DEF DriverInv, ChainInv, ChainOK, Command, rings, chains
<1>3. NoDescLost'
  <2>1. \A q \in InFlight : req'[q] = req[q]
    OBVIOUS
  <2> QED
    BY <1>1, <2>1, DescFrame, Zenon DEF DriverInv, chains
<1>4. RingInv'
  BY <1>1, AvailFrame, UsedFrame, Zenon DEF DriverInv, RingInv, rings, chains
<1>5. DescWaiterWakes'
  BY <1>1 DEF DriverInv, DescWaiterWakes
<1> QED
  BY <1>2, <1>3, <1>4, <1>5 DEF DriverInv

LEMMA CacheFrame ==
  ASSUME CacheInv, UNCHANGED <<bcache, caller>>
  PROVE  CacheInv'
<1>1. OneCopy' /\ RefCount'
  BY DEF CacheInv, OneCopy, RefCount, bcache, caller
<1>2. CallersInv' /\ PinInv' /\ ValidInv' /\ LockWaiterWakes'
  BY Zenon DEF CacheInv, CallersInv, PinInv, ValidInv, LockWaiterWakes, bcache, caller
<1> QED
  BY <1>1, <1>2 DEF CacheInv

\* The holder of a buffer is the only one.
LEMMA OneHolder ==
  ASSUME TypeOK, CacheInv, NEW p \in Procs, NEW q \in Procs, pc[p] \in HoldPCs, pc[q] \in HoldPCs, p # q
  PROVE  cur[p] # cur[q] /\ blockno[cur[p]] # blockno[cur[q]]
<1>1. /\ cur[p] \in Bufs /\ cur[q] \in Bufs /\ lock[cur[p]] = p /\ lock[cur[q]] = q
      /\ blockno[cur[p]] \in Blocks
  BY DEF CacheInv, CallersInv, HoldPCs
<1>2. blockno[cur[p]] # None
  BY <1>1, DiskAssumption
<1> QED
  BY <1>1, <1>2 DEF CacheInv, OneCopy

-----------------------------------------------------------------------------
(* bget() *)

LEMMA HitStep ==
  ASSUME DiskInv, NEW p \in Procs, NEW k \in Blocks, bgetHit(p, k)
  PROVE  DiskInv'
<1>1. PICK b \in Bufs : /\ blockno[b] = k /\ refcnt' = [refcnt EXCEPT ![b] = @ + 1]
                        /\ cur' = [cur EXCEPT ![p] = b]
  BY Zenon DEF bgetHit, Cached
<1>2. pc[p] = "idle" /\ pc' = [pc EXCEPT ![p] = "lock"]
  BY DEF bgetHit, Goto
<1>3. UNCHANGED <<vdisk, lru, blockno, valid, lock, pinned>>
  BY DEF bgetHit
<1>4. TypeOK
  BY DEF DiskInv
<1>5. cur[p] = None
  BY <1>2, <1>4 DEF DiskInv, CacheInv, CallersInv, TypeOK
<1>6. TypeOK'
  <2>1. VTypeOK'
    BY <1>3, <1>4, Zenon DEF TypeOK, VTypeOK, vdisk, rings, chains
  <2> QED
    BY <1>1, <1>2, <1>3, <1>4, <2>1 DEF TypeOK, PCs
<1>7. CacheInv'
  <2>1. OneCopy'
    BY <1>3 DEF DiskInv, CacheInv, OneCopy
  <2>2. RefCount'
    <3>1. \A c \in Bufs : Cardinality(Users(cur', c)) = Cardinality(Users(cur, c)) + (IF c = b THEN 1 ELSE 0)
      <4>1. cur \in [Procs -> Bufs \cup {None}]
        BY <1>4 DEF TypeOK
      <4>2. Gives(cur', cur, p, b)
        BY <1>1, Zenon DEF Gives
      <4> QED
        BY <1>5, <4>1, <4>2, UsersChange
    <3>2. \A c \in Bufs : refcnt[c] = Cardinality(Users(cur, c)) + (IF blockno[c] \in pinned THEN 1 ELSE 0)
      BY RefCountIs, Zenon DEF DiskInv, CacheInv
    <3>3. \A c \in Bufs : refcnt'[c] = refcnt[c] + (IF c = b THEN 1 ELSE 0)
      BY <1>1, <1>4 DEF TypeOK
    <3>4. \A c \in Bufs : Cardinality(Users(cur, c)) \in Nat
      BY UsersFinite
    <3>5. ASSUME NEW c \in Bufs
          PROVE  refcnt'[c] = Cardinality(Users(cur', c)) + (IF blockno'[c] \in pinned' THEN 1 ELSE 0)
      <4>1. PICK m \in Nat : m = Cardinality(Users(cur, c))
        BY <3>4, Zenon
      <4>2. PICK u : u = IF c = b THEN 1 ELSE 0
        BY Zenon
      <4>3. PICK v : v = IF blockno[c] \in pinned THEN 1 ELSE 0
        BY Zenon
      <4>4. u \in Nat /\ v \in Nat
        BY <4>2, <4>3
      <4>5. refcnt'[c] = m + v + u
        BY <3>2, <3>3, <4>1, <4>2, <4>3, Zenon
      <4>6. Cardinality(Users(cur', c)) = m + u
        BY <3>1, <4>1, <4>2, Zenon
      <4>7. v = IF blockno'[c] \in pinned' THEN 1 ELSE 0
        BY <1>3, <4>3, Zenon
      <4>8. m + v + u = m + u + v
        BY <4>4
      <4> QED
        BY <4>5, <4>6, <4>7, <4>8, Zenon
    <3> QED
      BY <3>5, Zenon DEF RefCount, Users
  <2>3. CallersInv'
    BY <1>1, <1>2, <1>3, <1>4, <1>5, DiskAssumption DEF DiskInv, CacheInv, CallersInv, HoldPCs, TypeOK
  <2>4. PinInv'
    BY <1>1, <1>2, <1>3, <1>4, Zenon DEF DiskInv, CacheInv, PinInv, TypeOK
  <2>5. ValidInv'
    BY <1>1, <1>2, <1>3, <1>4, Zenon DEF DiskInv, CacheInv, ValidInv, FullPCs, TypeOK
  <2>6. LockWaiterWakes'
    BY <1>1, <1>2, <1>3, <1>4, Zenon DEF DiskInv, CacheInv, LockWaiterWakes, TypeOK
  <2> QED
    BY <2>1, <2>2, <2>3, <2>4, <2>5, <2>6 DEF CacheInv
<1>8. CallInv'
  BY <1>1, <1>2, <1>3, <1>4, Zenon DEF DiskInv, CallInv, IoPCs, TypeOK, vdisk
<1>9. DriverInv'
  BY <1>3, DriverFrame DEF DiskInv, vdisk
<1>10. DataInv'
  <2>1. CleanInv'
    BY <1>1, <1>2, <1>3, <1>4, Zenon DEF DiskInv, DataInv, CleanInv, TypeOK, vdisk
  <2>2. ServedInv'
    BY <1>3, Zenon DEF DiskInv, DataInv, ServedInv, Done, vdisk, rings
  <2> QED
    BY <2>1, <2>2 DEF DataInv
<1> QED
  BY <1>6, <1>7, <1>8, <1>9, <1>10 DEF DiskInv

\* Room leaves a buffer to recycle, which nobody uses.
LEMMA VictimFree ==
  ASSUME TypeOK, CacheInv, Room
  PROVE  /\ Unused # {} /\ Victim \in Bufs /\ blockno[Victim] \notin pinned
         /\ refcnt[Victim] = 0 /\ \A q \in Procs : cur[q] # Victim
<1>1. InUse \subseteq Bufs
  BY DEF CacheInv, CallersInv, InUse
<1>2. PICK b \in Bufs : b \notin InUse
  <2>1. SUFFICES ASSUME Bufs \subseteq InUse
                 PROVE  FALSE
    OBVIOUS
  <2>2. InUse = Bufs
    BY <1>1, <2>1
  <2> QED
    BY <2>2, BufsFinite DEF Room
<1>3. \A c \in Bufs : refcnt[c] = Cardinality(Users(cur, c)) + (IF blockno[c] \in pinned THEN 1 ELSE 0)
  BY RefCountIs DEF CacheInv
<1>4. \A c \in Bufs : Cardinality(Users(cur, c)) \in Nat
  BY UsersFinite
<1>5. refcnt[b] = 0
  <2>1. blockno[b] \notin pinned
    BY <1>2 DEF InUse
  <2>2. Users(cur, b) = {}
    BY <1>2 DEF InUse, Users, CacheInv, CallersInv
  <2> QED
    BY <1>3, <2>1, <2>2, FS_EmptySet
<1>6. PICK n \in Nat : DOMAIN lru = 1 .. n /\ lru \in [1 .. n -> Bufs] /\ \E i \in 1 .. n : lru[i] = b
  BY BufsFinite, Zenon DEF TypeOK, Lists
<1>7. Unused # {} /\ Unused \subseteq 1 .. n
  BY <1>5, <1>6 DEF Unused
<1>8. \E i \in Unused : \A j \in Unused : j <= i
  BY <1>7, Largest, Zenon
<1>9. PICK i \in Unused : Victim = lru[i]
  BY <1>8, Zenon DEF Victim
<1>10. Victim \in Bufs /\ refcnt[Victim] = 0
  BY <1>6, <1>7, <1>9 DEF Unused
<1>11. blockno[Victim] \notin pinned /\ Cardinality(Users(cur, Victim)) = 0
  BY <1>3, <1>4, <1>10
<1>12. Users(cur, Victim) = {}
  BY <1>11, UsersFinite, FS_EmptySet
<1> QED
  BY <1>7, <1>10, <1>11, <1>12 DEF Users

LEMMA RecycleStep ==
  ASSUME DiskInv, NEW p \in Procs, NEW k \in Blocks, bgetRecycle(p, k)
  PROVE  DiskInv'
<1>0. TypeOK /\ CacheInv
  BY DEF DiskInv
<1>1. PICK b \in Bufs : /\ b = Victim /\ blockno[b] \notin pinned /\ refcnt[b] = 0
                        /\ \A q \in Procs : cur[q] # b
  BY <1>0, VictimFree DEF bgetRecycle
<1>2. /\ blockno' = [blockno EXCEPT ![b] = k] /\ valid' = [valid EXCEPT ![b] = FALSE]
      /\ refcnt' = [refcnt EXCEPT ![b] = 1] /\ cur' = [cur EXCEPT ![p] = b]
      /\ pc[p] = "idle" /\ pc' = [pc EXCEPT ![p] = "lock"]
  BY <1>0, <1>1, VictimFree DEF bgetRecycle, Goto
<1>3. UNCHANGED <<vdisk, lru, lock, pinned>>
  BY DEF bgetRecycle
<1>4. cur[p] = None
  BY <1>0, <1>2 DEF CacheInv, CallersInv, TypeOK
<1>5. \A c \in Bufs : blockno[c] # k
  BY DEF bgetRecycle, Cached
<1>6. k \notin pinned
  BY <1>5, Zenon DEF DiskInv, CacheInv, PinInv
<1>7. TypeOK'
  <2>1. VTypeOK'
    BY <1>0, <1>3, Zenon DEF TypeOK, VTypeOK, vdisk, rings, chains
  <2> QED
    BY <1>0, <1>2, <1>3, <2>1 DEF TypeOK, PCs
<1>8. CacheInv'
  <2>1. OneCopy'
    BY <1>0, <1>2, <1>5 DEF CacheInv, OneCopy, TypeOK
  <2>2. RefCount'
    <3>1. \A c \in Bufs : Cardinality(Users(cur', c)) = Cardinality(Users(cur, c)) + (IF c = b THEN 1 ELSE 0)
      <4>1. cur \in [Procs -> Bufs \cup {None}]
        BY <1>0 DEF TypeOK
      <4>2. Gives(cur', cur, p, b)
        BY <1>2, Zenon DEF Gives
      <4> QED
        BY <1>4, <4>1, <4>2, UsersChange
    <3>2. \A c \in Bufs : refcnt[c] = Cardinality(Users(cur, c)) + (IF blockno[c] \in pinned THEN 1 ELSE 0)
      BY <1>0, RefCountIs, Zenon DEF CacheInv
    <3>3. \A c \in Bufs : refcnt'[c] = refcnt[c] + (IF c = b THEN 1 ELSE 0)
      BY <1>0, <1>1, <1>2 DEF TypeOK
    <3>4. \A c \in Bufs : Cardinality(Users(cur, c)) \in Nat
      BY UsersFinite
    <3>5. \A c \in Bufs : blockno'[c] \in pinned' <=> blockno[c] \in pinned
      BY <1>0, <1>1, <1>2, <1>3, <1>6 DEF TypeOK
    <3>6. ASSUME NEW c \in Bufs
          PROVE  refcnt'[c] = Cardinality(Users(cur', c)) + (IF blockno'[c] \in pinned' THEN 1 ELSE 0)
      <4>1. PICK m \in Nat : m = Cardinality(Users(cur, c))
        BY <3>4, Zenon
      <4>2. PICK u : u = IF c = b THEN 1 ELSE 0
        BY Zenon
      <4>3. PICK v : v = IF blockno[c] \in pinned THEN 1 ELSE 0
        BY Zenon
      <4>4. u \in Nat /\ v \in Nat
        BY <4>2, <4>3
      <4>5. refcnt'[c] = m + v + u
        BY <3>2, <3>3, <4>1, <4>2, <4>3, Zenon
      <4>6. Cardinality(Users(cur', c)) = m + u
        BY <3>1, <4>1, <4>2, Zenon
      <4>7. v = IF blockno'[c] \in pinned' THEN 1 ELSE 0
        BY <3>5, <4>3, Zenon
      <4>8. m + v + u = m + u + v
        BY <4>4
      <4> QED
        BY <4>5, <4>6, <4>7, <4>8, Zenon
    <3> QED
      BY <3>6, Zenon DEF RefCount, Users
  <2>3. CallersInv'
    BY <1>0, <1>1, <1>2, <1>3, <1>4, DiskAssumption DEF CacheInv, CallersInv, HoldPCs, TypeOK
  <2>4. PinInv'
    BY <1>0, <1>1, <1>2, <1>3 DEF CacheInv, PinInv, TypeOK
  <2>5. ValidInv'
    BY <1>0, <1>1, <1>2, <1>3 DEF CacheInv, ValidInv, FullPCs, TypeOK
  <2>6. LockWaiterWakes'
    BY <1>0, <1>1, <1>2, <1>3 DEF CacheInv, LockWaiterWakes, TypeOK
  <2> QED
    BY <2>1, <2>2, <2>3, <2>4, <2>5, <2>6 DEF CacheInv
<1>9. CallInv'
  <2>1. CallInv /\ vpc' = vpc /\ req' = req
    BY <1>3, Zenon DEF DiskInv, vdisk
  <2>2. /\ \A q \in Procs : q # p => pc'[q] = pc[q] /\ cur'[q] = cur[q]
        /\ \A c \in Bufs : c # b => blockno'[c] = blockno[c]
        /\ pc[p] \notin IoPCs /\ pc'[p] \notin IoPCs
    BY <1>0, <1>2 DEF TypeOK, IoPCs
  <2>3. ASSUME NEW q \in Procs
        PROVE  vpc'[q] # "out" <=> pc'[q] \in IoPCs
    BY <2>1, <2>2, Zenon DEF CallInv
  <2>4. ASSUME NEW q \in Procs, vpc'[q] # "out"
        PROVE  /\ req'[q].b = cur'[q] /\ req'[q].blk = blockno'[cur'[q]]
               /\ req'[q].write <=> pc'[q] # "reading"
    <3>1. q # p /\ vpc[q] # "out" /\ pc[q] # "idle"
      BY <2>1, <2>2, <2>4 DEF CallInv, IoPCs
    <3>2. cur[q] \in Bufs /\ cur[q] # b
      BY <1>1, <3>1, Zenon DEF DiskInv, CacheInv, CallersInv
    <3>3. pc'[q] = pc[q] /\ cur'[q] = cur[q] /\ blockno'[cur[q]] = blockno[cur[q]]
      BY <2>2, <3>1, <3>2, Zenon
    <3> QED
      BY <2>1, <3>1, <3>3, Zenon DEF CallInv
  <2> QED
    BY <2>3, <2>4, Zenon DEF CallInv
<1>10. DriverInv'
  BY <1>3, DriverFrame DEF DiskInv, vdisk
<1>11. DataInv'
  <2>1. CleanInv'
    <3>0. CleanInv /\ UNCHANGED <<data, platter, lock, pinned>>
      BY <1>3, Zenon DEF DiskInv, DataInv, vdisk
    <3>1. /\ \A c \in Bufs : c # b => blockno'[c] = blockno[c] /\ valid'[c] = valid[c]
          /\ ~valid'[b]
          /\ \A q \in Procs : q # p => pc'[q] = pc[q] /\ cur'[q] = cur[q]
          /\ pc[p] = "idle" /\ pc'[p] = "lock"
      BY <1>0, <1>2 DEF TypeOK
    <3>2. ASSUME NEW c \in Bufs, valid'[c], blockno'[c] \in Blocks \ pinned'
          PROVE  data'[c] = platter'[blockno'[c]] \/ (lock'[c] # None /\ pc'[lock'[c]] = "through")
      <4>1. c # b /\ valid[c] /\ blockno'[c] = blockno[c] /\ blockno[c] \in Blocks \ pinned
        BY <3>0, <3>1, <3>2, Zenon
      <4>2. data[c] = platter[blockno[c]] \/ (lock[c] # None /\ pc[lock[c]] = "through")
        BY <3>0, <4>1, Zenon DEF CleanInv
      <4>3. lock[c] \in Procs \cup {None}
        BY <1>0, Zenon DEF TypeOK
      <4>4. lock[c] # None /\ pc[lock[c]] = "through" => pc'[lock[c]] = "through"
        BY <3>1, <4>3, Zenon
      <4> QED
        BY <3>0, <4>1, <4>2, <4>4, Zenon
    <3>3. ASSUME NEW q \in Procs, pc'[q] = "unpin"
          PROVE  data'[cur'[q]] = platter'[blockno'[cur'[q]]]
      <4>1. q # p /\ pc[q] = "unpin" /\ cur'[q] = cur[q]
        BY <3>1, <3>3
      <4>2. cur[q] \in Bufs /\ cur[q] # b
        BY <1>0, <1>1, <4>1, Zenon DEF CacheInv, CallersInv, HoldPCs
      <4>3. data[cur[q]] = platter[blockno[cur[q]]]
        BY <3>0, <4>1, Zenon DEF CleanInv
      <4> QED
        BY <3>0, <3>1, <4>1, <4>2, <4>3, Zenon
    <3> QED
      BY <3>2, <3>3, Zenon DEF CleanInv
  <2>2. ServedInv'
    BY <1>3, Zenon DEF DiskInv, DataInv, ServedInv, Done, vdisk, rings
  <2> QED
    BY <2>1, <2>2 DEF DataInv
<1> QED
  BY <1>7, <1>8, <1>9, <1>10, <1>11 DEF DiskInv

-----------------------------------------------------------------------------
(* The lock of a buffer *)

LEMMA AcquireStep ==
  ASSUME DiskInv, NEW p \in Procs, acquiresleep(p)
  PROVE  DiskInv'
<1>0. TypeOK /\ CacheInv
  BY DEF DiskInv
<1>1. pc[p] = "lock" /\ UNCHANGED <<vdisk, lru, blockno, valid, refcnt, cur, pinned>>
  BY DEF acquiresleep
<1>2. PICK b \in Bufs : b = cur[p]
  BY <1>0, <1>1 DEF CacheInv, CallersInv
<1>3. \/ /\ lock[b] = None /\ lock' = [lock EXCEPT ![b] = p]
         /\ pc' = [pc EXCEPT ![p] = IF valid[b] THEN "use" ELSE "fill"]
      \/ lock[b] # None /\ pc' = [pc EXCEPT ![p] = "lksleep"] /\ lock' = lock
  BY <1>2, Zenon DEF acquiresleep, Goto
<1>4. TypeOK'
  <2>1. VTypeOK'
    BY <1>0, <1>1, Zenon DEF TypeOK, VTypeOK, vdisk, rings, chains
  <2> QED
    BY <1>0, <1>1, <1>3, <2>1 DEF TypeOK, PCs
<1>5. CacheInv'
  <2>1. OneCopy' /\ RefCount'
    BY <1>0, <1>1, Zenon DEF CacheInv, OneCopy, RefCount
  <2>2. CallersInv'
    BY <1>0, <1>1, <1>2, <1>3, DiskAssumption DEF CacheInv, CallersInv, HoldPCs, TypeOK
  <2>3. PinInv'
    BY <1>0, <1>1, <1>3 DEF CacheInv, PinInv, TypeOK
  <2>4. ValidInv'
    BY <1>0, <1>1, <1>2, <1>3 DEF CacheInv, ValidInv, FullPCs, TypeOK
  <2>5. LockWaiterWakes'
    BY <1>0, <1>1, <1>2, <1>3, DiskAssumption DEF CacheInv, CallersInv, LockWaiterWakes, TypeOK
  <2> QED
    BY <2>1, <2>2, <2>3, <2>4, <2>5 DEF CacheInv
<1>6. CallInv'
  BY <1>0, <1>1, <1>3 DEF DiskInv, CallInv, IoPCs, TypeOK, vdisk
<1>7. DriverInv'
  BY <1>1, DriverFrame DEF DiskInv, vdisk
<1>8. DataInv'
  <2>1. CleanInv'
    BY <1>0, <1>1, <1>2, <1>3 DEF DiskInv, DataInv, CleanInv, CacheInv, CallersInv, TypeOK, vdisk
  <2>2. ServedInv'
    BY <1>1, Zenon DEF DiskInv, DataInv, ServedInv, Done, vdisk, rings
  <2> QED
    BY <2>1, <2>2 DEF DataInv
<1> QED
  BY <1>4, <1>5, <1>6, <1>7, <1>8 DEF DiskInv

LEMMA ReleaseStep ==
  ASSUME DiskInv, NEW p \in Procs, releasesleep(p)
  PROVE  DiskInv'
<1>0. TypeOK /\ CacheInv
  BY DEF DiskInv
<1>1. pc[p] \in {"use", "done"} /\ UNCHANGED <<vdisk, lru, blockno, valid, refcnt, cur, pinned>>
  BY Zenon DEF releasesleep
<1>2. PICK b \in Bufs : b = cur[p] /\ lock[b] = p
  BY <1>0, <1>1, Zenon DEF CacheInv, CallersInv, HoldPCs
<1>3. /\ lock' = [lock EXCEPT ![b] = None]
      /\ pc' = [q \in Procs |-> IF q = p THEN "rel"
                                ELSE IF pc[q] = "lksleep" /\ cur[q] = b THEN "lock" ELSE pc[q]]
  BY <1>2, Zenon DEF releasesleep
<1>4. TypeOK'
  <2>1. VTypeOK'
    BY <1>0, <1>1, Zenon DEF TypeOK, VTypeOK, vdisk, rings, chains
  <2> QED
    BY <1>0, <1>1, <1>3, <2>1, Zenon DEF TypeOK, PCs
<1>5. CacheInv'
  <2>1. OneCopy' /\ RefCount'
    BY <1>0, <1>1, Zenon DEF CacheInv, OneCopy, RefCount
  <2>2. CallersInv'
    BY <1>0, <1>1, <1>2, <1>3, DiskAssumption DEF CacheInv, CallersInv, HoldPCs, TypeOK
  <2>3. PinInv'
    BY <1>0, <1>1, <1>3 DEF CacheInv, PinInv, TypeOK
  <2>4. ValidInv'
    BY <1>0, <1>1, <1>2, <1>3, Zenon DEF CacheInv, ValidInv, FullPCs, TypeOK
  <2>5. LockWaiterWakes'
    BY <1>0, <1>1, <1>2, <1>3, DiskAssumption DEF CacheInv, CallersInv, LockWaiterWakes, TypeOK
  <2> QED
    BY <2>1, <2>2, <2>3, <2>4, <2>5 DEF CacheInv
<1>6. CallInv'
  BY <1>0, <1>1, <1>3, Zenon DEF DiskInv, CallInv, IoPCs, TypeOK, vdisk
<1>7. DriverInv'
  BY <1>1, DriverFrame DEF DiskInv, vdisk
<1>8. DataInv'
  <2>1. CleanInv'
    BY <1>0, <1>1, <1>2, <1>3 DEF DiskInv, DataInv, CleanInv, CacheInv, CallersInv, HoldPCs, TypeOK, vdisk
  <2>2. ServedInv'
    BY <1>1, Zenon DEF DiskInv, DataInv, ServedInv, Done, vdisk, rings
  <2> QED
    BY <2>1, <2>2 DEF DataInv
<1> QED
  BY <1>4, <1>5, <1>6, <1>7, <1>8 DEF DiskInv

LEMMA BrelseStep ==
  ASSUME DiskInv, NEW p \in Procs, brelse(p)
  PROVE  DiskInv'
<1>0. TypeOK /\ CacheInv
  BY DEF DiskInv
<1>1. pc[p] = "rel" /\ UNCHANGED <<vdisk, blockno, valid, lock, pinned>>
  BY DEF brelse
<1>2. PICK b \in Bufs : b = cur[p]
  BY <1>0, <1>1, Zenon DEF CacheInv, CallersInv
<1>3. /\ refcnt' = [refcnt EXCEPT ![b] = refcnt[b] - 1]
      /\ lru' \in {lru, MovedToHead(b)}
      /\ pc' = [pc EXCEPT ![p] = "idle"] /\ cur' = [cur EXCEPT ![p] = None]
  BY <1>2, Zenon DEF brelse, Left, Goto
<1>4. \A c \in Bufs : refcnt[c] = Cardinality(Users(cur, c)) + (IF blockno[c] \in pinned THEN 1 ELSE 0)
  BY <1>0, RefCountIs DEF CacheInv
<1>5. \A c \in Bufs : Cardinality(Users(cur, c)) \in Nat /\ Cardinality(Users(cur', c)) \in Nat
  BY UsersFinite
<1>6. refcnt[b] - 1 \in Nat
  <2>1. Cardinality(Users(cur, b)) >= 1
    BY <1>2, UsersSome
  <2> QED
    BY <1>4, <1>5, <2>1
<1>7. TypeOK'
  <2>1. VTypeOK'
    BY <1>0, <1>1, Zenon DEF TypeOK, VTypeOK, vdisk, rings, chains
  <2>2. lru' \in Lists
    BY <1>0, <1>3, ListKept DEF TypeOK
  <2> QED
    BY <1>0, <1>1, <1>3, <1>6, <2>1, <2>2, Zenon DEF TypeOK, PCs
<1>8. CacheInv'
  <2>1. OneCopy'
    BY <1>0, <1>1 DEF CacheInv, OneCopy
  <2>2. RefCount'
    <3>1. \A c \in Bufs : Cardinality(Users(cur, c)) = Cardinality(Users(cur', c)) + (IF c = b THEN 1 ELSE 0)
      <4>1. cur' \in [Procs -> Bufs \cup {None}] /\ cur'[p] = None
        BY <1>0, <1>3 DEF TypeOK
      <4>2. Gives(cur, cur', p, b)
        BY <1>0, <1>2, <1>3, Zenon DEF TypeOK, Gives
      <4> QED
        BY <4>1, <4>2, UsersChange
    <3>2. \A c \in Bufs : refcnt'[c] + (IF c = b THEN 1 ELSE 0) = refcnt[c] /\ refcnt'[c] \in Nat
      BY <1>0, <1>3, <1>6 DEF TypeOK
    <3>3. \A c \in Bufs : refcnt'[c] = Cardinality(Users(cur', c)) + (IF blockno'[c] \in pinned' THEN 1 ELSE 0)
      BY <1>1, <1>4, <1>5, <3>1, <3>2
    <3> QED
      BY <3>3, Zenon DEF RefCount, Users
  <2>3. CallersInv'
    BY <1>0, <1>1, <1>2, <1>3, DiskAssumption DEF CacheInv, CallersInv, HoldPCs, TypeOK
  <2>4. PinInv'
    BY <1>0, <1>1, <1>3, Zenon DEF CacheInv, PinInv, TypeOK
  <2>5. ValidInv'
    BY <1>0, <1>1, <1>3, Zenon DEF CacheInv, ValidInv, FullPCs, TypeOK
  <2>6. LockWaiterWakes'
    BY <1>0, <1>1, <1>3 DEF CacheInv, LockWaiterWakes, TypeOK
  <2> QED
    BY <2>1, <2>2, <2>3, <2>4, <2>5, <2>6 DEF CacheInv
<1>9. CallInv'
  BY <1>0, <1>1, <1>3, Zenon DEF DiskInv, CallInv, IoPCs, TypeOK, vdisk
<1>10. DriverInv'
  BY <1>1, DriverFrame DEF DiskInv, vdisk
<1>11. DataInv'
  <2>1. CleanInv'
    BY <1>0, <1>1, <1>3, Zenon DEF DiskInv, DataInv, CleanInv, TypeOK, vdisk
  <2>2. ServedInv'
    BY <1>1, Zenon DEF DiskInv, DataInv, ServedInv, Done, vdisk, rings
  <2> QED
    BY <2>1, <2>2 DEF DataInv
<1> QED
  BY <1>7, <1>8, <1>9, <1>10, <1>11 DEF DiskInv

-----------------------------------------------------------------------------
(* The holder of a buffer *)

LEMMA LogWriteStep ==
  ASSUME DiskInv, NEW p \in Procs, NEW v \in Values, LogWrite(p, v)
  PROVE  DiskInv'
<1>0. TypeOK /\ CacheInv /\ CallInv
  BY DEF DiskInv
<1>1. /\ pc[p] = "use"
      /\ UNCHANGED <<rings, chains, irq, intr, diskd, platter, vpc, req, lru, blockno, valid, lock, cur>>
  BY Zenon DEF LogWrite
<1>2. PICK b \in Bufs : b = cur[p] /\ lock[b] = p /\ blockno[b] \in Blocks /\ valid[b]
  BY <1>0, <1>1, Zenon DEF CacheInv, CallersInv, ValidInv, HoldPCs, FullPCs
<1>3. /\ data' = [data EXCEPT ![b] = v]
      /\ refcnt' = IF blockno[b] \in pinned THEN refcnt ELSE [refcnt EXCEPT ![b] = @ + 1]
      /\ pinned' = pinned \cup {blockno[b]}
      /\ pc' = [pc EXCEPT ![p] = "done"]
  BY <1>2, Zenon DEF LogWrite, Goto
<1>4. \A q \in Procs : q # p /\ pc[q] \in HoldPCs => cur[q] # b /\ cur[q] \in Bufs
  <2> SUFFICES ASSUME NEW q \in Procs, q # p, pc[q] \in HoldPCs
               PROVE  cur[q] # b /\ cur[q] \in Bufs
    BY Zenon
  <2>1. cur[q] \in Bufs /\ lock[cur[q]] = q
    BY <1>0, Zenon DEF CacheInv, CallersInv, HoldPCs
  <2> QED
    BY <1>2, <2>1, Zenon
<1>5. \A c \in Bufs : c # b => blockno[c] # blockno[b]
  BY <1>0, <1>2, DiskAssumption, Zenon DEF CacheInv, OneCopy
<1>6. TypeOK'
  <2>1. VTypeOK'
    BY <1>0, <1>1, <1>3, Zenon DEF TypeOK, VTypeOK, rings, chains
  <2> QED
    BY <1>0, <1>1, <1>2, <1>3, <2>1 DEF TypeOK, PCs
<1>7. CacheInv'
  <2>1. OneCopy'
    BY <1>0, <1>1 DEF CacheInv, OneCopy
  <2>2. RefCount'
    <3>1. \A c \in Bufs : refcnt[c] = Cardinality(Users(cur, c)) + (IF blockno[c] \in pinned THEN 1 ELSE 0)
      BY <1>0, RefCountIs, Zenon DEF CacheInv
    <3>2. \A c \in Bufs : Cardinality(Users(cur, c)) \in Nat
      BY UsersFinite
    <3>3. \A c \in Bufs : refcnt'[c] = Cardinality(Users(cur', c)) + (IF blockno'[c] \in pinned' THEN 1 ELSE 0)
      BY <1>0, <1>1, <1>3, <1>5, <3>1, <3>2 DEF TypeOK
    <3> QED
      BY <3>3, Zenon DEF RefCount, Users
  <2>3. CallersInv'
    BY <1>0, <1>1, <1>2, <1>3 DEF CacheInv, CallersInv, HoldPCs, TypeOK
  <2>4. PinInv'
    BY <1>0, <1>1, <1>2, <1>3 DEF CacheInv, PinInv, TypeOK
  <2>5. ValidInv'
    BY <1>0, <1>1, <1>2, <1>3, Zenon DEF CacheInv, ValidInv, FullPCs, TypeOK
  <2>6. LockWaiterWakes'
    BY <1>0, <1>1, <1>3, Zenon DEF CacheInv, LockWaiterWakes, TypeOK
  <2> QED
    BY <2>1, <2>2, <2>3, <2>4, <2>5, <2>6 DEF CacheInv
<1>8. CallInv'
  BY <1>0, <1>1, <1>3, Zenon DEF CallInv, IoPCs, TypeOK
<1>9. DriverInv'
  BY <1>1, DriverFrame DEF DiskInv
<1>10. DataInv'
  <2>1. CleanInv'
    BY <1>0, <1>1, <1>2, <1>3, <1>4 DEF DiskInv, DataInv, CleanInv, HoldPCs, TypeOK
  <2>2. ServedInv'
    <3>1. Done' = Done
      BY <1>1, Zenon DEF Done, rings
    <3>2. ASSUME NEW q \in Procs, vpc[q] # "out"
          PROVE  req[q].b # b /\ req[q].b \in Bufs
      BY <1>0, <1>1, <1>4, <3>2, Zenon DEF CallInv, IoPCs, HoldPCs
    <3> QED
      BY <1>0, <1>1, <1>3, <3>1, <3>2, Zenon DEF DiskInv, DataInv, ServedInv, TypeOK, VTypeOK
  <2> QED
    BY <2>1, <2>2 DEF DataInv
<1> QED
  BY <1>6, <1>7, <1>8, <1>9, <1>10 DEF DiskInv

LEMMA UnpinStep ==
  ASSUME DiskInv, NEW p \in Procs, bunpin(p)
  PROVE  DiskInv'
<1>0. TypeOK /\ CacheInv
  BY DEF DiskInv
<1>1. pc[p] = "unpin" /\ UNCHANGED <<vdisk, lru, blockno, valid, lock, cur>>
  BY Zenon DEF bunpin
<1>2. PICK b \in Bufs : b = cur[p] /\ lock[b] = p /\ blockno[b] \in pinned /\ blockno[b] \in Blocks
  BY <1>0, <1>1, Zenon DEF CacheInv, CallersInv, PinInv, HoldPCs
<1>3. /\ refcnt' = [refcnt EXCEPT ![b] = @ - 1] /\ pinned' = pinned \ {blockno[b]}
      /\ pc' = [pc EXCEPT ![p] = "done"]
  BY <1>2, Zenon DEF bunpin, Goto
<1>4. \A c \in Bufs : c # b => blockno[c] # blockno[b]
  BY <1>0, <1>2, DiskAssumption, Zenon DEF CacheInv, OneCopy
<1>5. \A c \in Bufs : refcnt[c] = Cardinality(Users(cur, c)) + (IF blockno[c] \in pinned THEN 1 ELSE 0)
  BY <1>0, RefCountIs DEF CacheInv
<1>6. \A c \in Bufs : Cardinality(Users(cur, c)) \in Nat
  BY UsersFinite
<1>7. TypeOK'
  <2>1. VTypeOK'
    BY <1>0, <1>1, Zenon DEF TypeOK, VTypeOK, vdisk, rings, chains
  <2>2. refcnt' \in [Bufs -> Nat]
    BY <1>0, <1>2, <1>3, <1>5, <1>6 DEF TypeOK
  <2> QED
    BY <1>0, <1>1, <1>3, <2>1, <2>2, Zenon DEF TypeOK, PCs
<1>8. CacheInv'
  <2>1. OneCopy'
    BY <1>0, <1>1 DEF CacheInv, OneCopy
  <2>2. RefCount'
    <3>1. \A c \in Bufs : refcnt'[c] = Cardinality(Users(cur', c)) + (IF blockno'[c] \in pinned' THEN 1 ELSE 0)
      BY <1>0, <1>1, <1>2, <1>3, <1>4, <1>5, <1>6 DEF TypeOK
    <3> QED
      BY <3>1, Zenon DEF RefCount, Users
  <2>3. CallersInv'
    BY <1>0, <1>1, <1>2, <1>3 DEF CacheInv, CallersInv, HoldPCs, TypeOK
  <2>4. PinInv'
    <3>1. \A q \in Procs : q # p /\ pc[q] \in {"writing", "unpin"} => blockno[cur[q]] # blockno[b]
      BY <1>0, <1>1, <1>2, OneHolder, Zenon DEF HoldPCs
    <3> QED
      BY <1>0, <1>1, <1>2, <1>3, <3>1 DEF CacheInv, PinInv, TypeOK
  <2>5. ValidInv'
    BY <1>0, <1>1, <1>2, <1>3, Zenon DEF CacheInv, ValidInv, FullPCs, TypeOK
  <2>6. LockWaiterWakes'
    BY <1>0, <1>1, <1>3, Zenon DEF CacheInv, LockWaiterWakes, TypeOK
  <2> QED
    BY <2>1, <2>2, <2>3, <2>4, <2>5, <2>6 DEF CacheInv
<1>9. CallInv'
  BY <1>0, <1>1, <1>3, Zenon DEF DiskInv, CallInv, IoPCs, TypeOK, vdisk
<1>10. DriverInv'
  BY <1>1, DriverFrame DEF DiskInv, vdisk
<1>11. DataInv'
  <2>1. CleanInv'
    BY <1>0, <1>1, <1>2, <1>3, <1>4 DEF DiskInv, DataInv, CleanInv, TypeOK, vdisk
  <2>2. ServedInv'
    BY <1>1, Zenon DEF DiskInv, DataInv, ServedInv, Done, vdisk, rings
  <2> QED
    BY <2>1, <2>2 DEF DataInv
<1> QED
  BY <1>7, <1>8, <1>9, <1>10, <1>11 DEF DiskInv

-----------------------------------------------------------------------------
(* Requests in flight *)

\* Who is in flight has a buffer and a block that no other has.
LEMMA FlightsDiffer ==
  ASSUME TypeOK, CacheInv, CallInv, NEW p \in Procs, NEW q \in Procs,
         vpc[p] # "out", vpc[q] # "out", p # q
  PROVE  req[p].b # req[q].b /\ req[p].blk # req[q].blk
<1>1. pc[p] \in HoldPCs /\ pc[q] \in HoldPCs
  BY Zenon DEF CallInv, IoPCs, HoldPCs
<1>2. cur[p] # cur[q] /\ blockno[cur[p]] # blockno[cur[q]]
  BY <1>1, OneHolder, Zenon
<1> QED
  BY <1>2, Zenon DEF CallInv

LEMMA FlightIs ==
  ASSUME TypeOK, CacheInv, CallInv, NEW p \in Procs, vpc[p] # "out"
  PROVE  req[p].b \in Bufs /\ req[p].blk \in Blocks /\ req[p].b = cur[p] /\ req[p].blk = blockno[cur[p]]
  BY Zenon DEF CallInv, IoPCs, CacheInv, CallersInv

\* A chain has three descriptors, the first of which is a head.
LEMMA ChainIs ==
  ASSUME TypeOK, DriverInv, NEW p \in InFlight
  PROVE  /\ req[p].idx \in Index /\ req[p].idx \in Chain(req[p].idx)
         /\ Chain(req[p].idx) \subseteq Index \ free
         /\ desc[req[p].idx].next \in Chain(req[p].idx)
  BY Zenon DEF DriverInv, ChainInv, ChainOK, NoDescLost, Chain

LEMMA HeadIs ==
  ASSUME TypeOK, DriverInv, NEW i \in Heads
  PROVE  \E p \in Procs : p \in InFlight /\ vpc[p] = "io" /\ req[p].idx = i /\ i \in Index \ free
<1>1. PICK p \in Procs : vpc[p] = "io" /\ req[p].idx = i
  BY Zenon DEF Heads
<1>2. p \in InFlight
  BY <1>1 DEF InFlight
<1> QED
  BY <1>1, <1>2, ChainIs, Zenon

-----------------------------------------------------------------------------
(* What a reader sees *)

LEMMA ContentIs ==
  ASSUME NEW k \in Blocks,
         OneCopy, OneCopy'
  PROVE  /\ \A b \in Bufs : blockno[b] = k /\ valid[b] => Content(k) = data[b]
         /\ (\A b \in Bufs : blockno[b] = k => ~valid[b]) => Content(k) = platter[k]
         /\ \A b \in Bufs : blockno'[b] = k /\ valid'[b] => Content(k)' = data'[b]
         /\ (\A b \in Bufs : blockno'[b] = k => ~valid'[b]) => Content(k)' = platter'[k]
<1>0. k # None
  BY DiskAssumption
<1>1. ASSUME NEW b \in Bufs, blockno[b] = k, valid[b]
      PROVE  Content(k) = data[b]
  <2>1. b \in Cached(k) /\ \A c \in Cached(k) : c = b
    BY <1>0, <1>1, Zenon DEF Cached, OneCopy
  <2> QED
    BY <1>1, <2>1, Zenon DEF Content
<1>2. ASSUME NEW b \in Bufs, blockno'[b] = k, valid'[b]
      PROVE  Content(k)' = data'[b]
  <2>1. b \in Cached(k)' /\ \A c \in Cached(k)' : c = b
    BY <1>0, <1>2, Zenon DEF Cached, OneCopy
  <2> QED
    BY <1>2, <2>1, Zenon DEF Content
<1>3. (\A b \in Bufs : blockno[b] = k => ~valid[b]) => Content(k) = platter[k]
  BY Zenon DEF Content, Cached
<1>4. (\A b \in Bufs : blockno'[b] = k => ~valid'[b]) => Content(k)' = platter'[k]
  BY Zenon DEF Content, Cached
<1> QED
  BY <1>1, <1>2, <1>3, <1>4, Zenon

\* Content changes by what is written into a buffer that is held, only.
LEMMA ContentStep ==
  ASSUME DiskInv, DiskInv', [Next]_vars, NEW k \in Blocks, Content(k)' # Content(k)
  PROVE  \E p \in Procs : pc[p] = "use" /\ blockno[cur[p]] = k /\ lock[cur[p]] = p
<1>0. TypeOK /\ VTypeOK /\ CacheInv /\ CallInv /\ DriverInv /\ CleanInv /\ ServedInv /\ OneCopy /\ OneCopy'
  BY Zenon DEF DiskInv, TypeOK, CacheInv, DataInv
<1>1. ASSUME UNCHANGED <<blockno, valid, data, platter>>
      PROVE  FALSE
  BY <1>1, Zenon DEF Content, Cached
<1>2. ASSUME NEW b \in Bufs, UNCHANGED <<blockno, valid, platter>>, blockno[b] # k,
             \A c \in Bufs : c # b => data'[c] = data[c]
      PROVE  FALSE
  <2>1. CASE \E c \in Bufs : blockno[c] = k /\ valid[c]
    <3>1. PICK c \in Bufs : blockno[c] = k /\ valid[c]
      BY <2>1, Zenon
    <3>2. blockno'[c] = k /\ valid'[c] /\ data'[c] = data[c]
      BY <1>2, <3>1, Zenon
    <3>3. Content(k) = data[c] /\ Content(k)' = data'[c]
      BY <1>0, <3>1, <3>2, ContentIs, Zenon
    <3> QED
      BY <3>2, <3>3, Zenon
  <2>2. CASE \A c \in Bufs : blockno[c] = k => ~valid[c]
    <3>1. platter'[k] = platter[k] /\ \A c \in Bufs : blockno'[c] = k => ~valid'[c]
      BY <1>2, <2>2, Zenon
    <3>2. Content(k) = platter[k]
      BY <1>0, <2>2, ContentIs, Zenon
    <3>3. Content(k)' = platter'[k]
      BY <1>0, <3>1, ContentIs, Zenon
    <3> QED
      BY <3>1, <3>2, <3>3, Zenon
  <2> QED
    BY <2>1, <2>2, Zenon
<1>3. ASSUME Device /\ UNCHANGED <<bcache, caller>>
      PROVE  FALSE
  <2>1. CASE Fetch \/ IntrAck \/ IntrEntry \/ IntrEnd
    BY <1>1, <1>3, <2>1, Zenon DEF Fetch, IntrAck, IntrEntry, IntrEnd, bcache
  <2>2. ASSUME NEW i \in Index, Serve(i)
        PROVE  FALSE
    <3>1. i \in serving /\ UNCHANGED <<blockno, valid>>
      BY <1>3, <2>2, Zenon DEF Serve, bcache
    <3>2. PICK p \in Procs : p \in InFlight /\ vpc[p] = "io" /\ req[p].idx = i
      <4>1. i \in Heads
        BY <1>0, <3>1, Zenon DEF DriverInv, RingInv
      <4> QED
        BY <1>0, <4>1, HeadIs, Zenon
    <3>3. PICK b \in Bufs, n \in Blocks : b = req[p].b /\ n = req[p].blk /\ b = cur[p] /\ n = blockno[b]
      BY <1>0, <3>2, FlightIs, Zenon
    <3>4. ChainOK(p)
      BY <1>0, <3>2, Zenon DEF DriverInv, ChainInv
    <3>5. ops[i].write = req[p].write /\ ops[i].sector = n /\ desc[desc[i].next].addr = b
      <4>1. ops[i] = Command(p)
        BY <3>2, <3>4, Zenon DEF ChainOK
      <4>2. Command(p).write = req[p].write /\ Command(p).sector = n
        BY <3>3, Zenon DEF Command
      <4>3. desc[desc[i].next].addr = b
        BY <3>2, <3>3, <3>4, Zenon DEF ChainOK
      <4> QED
        BY <4>1, <4>2, <4>3, Zenon
    <3>6. IF req[p].write THEN platter' = [platter EXCEPT ![n] = data[b]] /\ data' = data
                          ELSE data' = [data EXCEPT ![b] = platter[n]] /\ platter' = platter
      BY <2>2, <3>5, Zenon DEF Serve
    <3>7. valid[b] <=> req[p].write
      <4>1. pc[p] \in IoPCs /\ (req[p].write <=> pc[p] # "reading") /\ b = cur[p]
        BY <1>0, <3>2, <3>3, Zenon DEF CallInv
      <4>2. valid[b] <=> pc[p] # "reading"
        BY <1>0, <4>1, Zenon DEF IoPCs, CacheInv, ValidInv, FullPCs
      <4> QED
        BY <4>1, <4>2, Zenon
    <3>8. \A c \in Bufs : blockno[c] = n => c = b
      BY <1>0, <3>3, DiskAssumption, Zenon DEF OneCopy
    <3>9. CASE req[p].write
      <4>1. data' = data /\ \A m \in Blocks : m # n => platter'[m] = platter[m]
        BY <1>0, <3>6, <3>9, Zenon DEF VTypeOK
      <4>2. CASE k = n
        <5>1. blockno[b] = k /\ valid[b] /\ blockno'[b] = k /\ valid'[b] /\ data'[b] = data[b]
          BY <3>1, <3>3, <3>7, <3>9, <4>1, <4>2, Zenon
        <5>2. Content(k) = data[b] /\ Content(k)' = data'[b]
          BY <1>0, <5>1, ContentIs, Zenon
        <5> QED
          BY <5>1, <5>2, Zenon
      <4>3. CASE k # n
        <5>1. CASE \E c \in Bufs : blockno[c] = k /\ valid[c]
          <6>1. PICK c \in Bufs : blockno[c] = k /\ valid[c]
            BY <5>1, Zenon
          <6>2. blockno'[c] = k /\ valid'[c] /\ data'[c] = data[c]
            BY <3>1, <4>1, <6>1, Zenon
          <6>3. Content(k) = data[c] /\ Content(k)' = data'[c]
            BY <1>0, <6>1, <6>2, ContentIs, Zenon
          <6> QED
            BY <6>2, <6>3, Zenon
        <5>2. CASE \A c \in Bufs : blockno[c] = k => ~valid[c]
          <6>1. platter'[k] = platter[k] /\ \A c \in Bufs : blockno'[c] = k => ~valid'[c]
            BY <3>1, <4>1, <4>3, <5>2, Zenon
          <6>2. Content(k) = platter[k]
            BY <1>0, <5>2, ContentIs, Zenon
          <6>3. Content(k)' = platter'[k]
            BY <1>0, <6>1, ContentIs, Zenon
          <6> QED
            BY <6>1, <6>2, <6>3, Zenon
        <5> QED
          BY <5>1, <5>2
      <4> QED
        BY <4>2, <4>3
    <3>10. CASE ~req[p].write
      <4>1. platter' = platter /\ \A c \in Bufs : c # b => data'[c] = data[c]
        BY <1>0, <3>6, <3>10, Zenon DEF VTypeOK
      <4>2. CASE k = n
        BY <1>0, <3>1, <3>7, <3>8, <3>10, <4>1, <4>2, ContentIs, Zenon
      <4>3. CASE k # n
        BY <1>2, <3>1, <3>3, <4>1, <4>3, Zenon
      <4> QED
        BY <4>2, <4>3
    <3> QED
      BY <3>9, <3>10
  <2> QED
    BY <1>3, <2>1, <2>2 DEF Device
<1>4. ASSUME NEW p \in Procs, NEW n \in Blocks, bgetRecycle(p, n)
      PROVE  FALSE
  <2>1. PICK b \in Bufs : b = Victim /\ blockno[b] \notin pinned /\ \A q \in Procs : cur[q] # b
    BY <1>0, <1>4, VictimFree, Zenon DEF bgetRecycle
  <2>2. blockno' = [blockno EXCEPT ![b] = n] /\ valid' = [valid EXCEPT ![b] = FALSE]
    BY <1>0, <1>4, <2>1, VictimFree, Zenon DEF bgetRecycle
  <2>3. data' = data /\ platter' = platter
    BY <1>4, Zenon DEF bgetRecycle, vdisk
  <2>4. /\ ~valid'[b]
        /\ \A c \in Bufs : c # b => blockno'[c] = blockno[c] /\ valid'[c] = valid[c]
    BY <1>0, <2>2, Zenon DEF TypeOK
  <2>5. lock[b] = None
    BY <1>0, <2>1 DEF CacheInv, CallersInv, TypeOK
  <2>6. valid[b] /\ blockno[b] = k => data[b] = platter[k]
    BY <1>0, <2>1, <2>5, Zenon DEF CleanInv
  <2>7. CASE \E c \in Bufs : c # b /\ blockno[c] = k /\ valid[c]
    <3>1. PICK c \in Bufs : c # b /\ blockno[c] = k /\ valid[c]
      BY <2>7, Zenon
    <3>2. blockno'[c] = k /\ valid'[c] /\ data'[c] = data[c]
      BY <2>3, <2>4, <3>1, Zenon
    <3>3. Content(k) = data[c] /\ Content(k)' = data'[c]
      BY <1>0, <3>1, <3>2, ContentIs, Zenon
    <3> QED
      BY <3>2, <3>3, Zenon
  <2>8. CASE \A c \in Bufs : c # b /\ blockno[c] = k => ~valid[c]
    <3>1. Content(k)' = platter[k]
      <4>1. \A c \in Bufs : blockno'[c] = k => ~valid'[c]
        BY <2>4, <2>8, Zenon
      <4> QED
        BY <1>0, <2>3, <4>1, ContentIs, Zenon
    <3>2. Content(k) = platter[k]
      <4>1. CASE valid[b] /\ blockno[b] = k
        BY <1>0, <2>6, <4>1, ContentIs, Zenon
      <4>2. CASE ~(valid[b] /\ blockno[b] = k)
        <5>1. \A c \in Bufs : blockno[c] = k => ~valid[c]
          BY <2>8, <4>2, Zenon
        <5> QED
          BY <1>0, <5>1, ContentIs, Zenon
      <4> QED
        BY <4>1, <4>2, Zenon
    <3> QED
      BY <3>1, <3>2, Zenon
  <2> QED
    BY <2>7, <2>8, Zenon
<1>5. ASSUME NEW p \in Procs, RwDone(p)
      PROVE  FALSE
  <2>1. vpc[p] = "ready" /\ data' = data /\ platter' = platter /\ blockno' = blockno
    BY <1>5 DEF RwDone, RwReturn
  <2>2. PICK b \in Bufs : b = cur[p] /\ data[b] = platter[blockno[b]] /\ blockno[b] \in Blocks
    <3>1. vpc[p] # "out" /\ data[req[p].b] = platter[req[p].blk]
      BY <1>0, <2>1, Zenon DEF ServedInv
    <3>2. req[p].b \in Bufs /\ req[p].blk \in Blocks /\ req[p].b = cur[p] /\ req[p].blk = blockno[cur[p]]
      BY <1>0, <3>1, FlightIs, Zenon
    <3> QED
      BY <3>1, <3>2, Zenon
  <2>3. valid'[b] /\ \A c \in Bufs : c # b => valid'[c] = valid[c]
    BY <1>0, <1>5, <2>2 DEF RwDone, TypeOK
  <2>4. CASE blockno[b] = k
    <3>1. Content(k)' = data[b]
      BY <1>0, <2>1, <2>3, <2>4, ContentIs, Zenon
    <3>2. \A c \in Bufs : blockno[c] = k => c = b
      BY <1>0, <2>2, <2>4, DiskAssumption, Zenon DEF OneCopy
    <3>3. Content(k) = data[b]
      BY <1>0, <2>2, <2>4, <3>2, ContentIs, Zenon
    <3> QED
      BY <3>1, <3>3
  <2>5. CASE blockno[b] # k
    <3>1. CASE \E c \in Bufs : blockno[c] = k /\ valid[c]
      <4>1. PICK c \in Bufs : blockno[c] = k /\ valid[c]
        BY <3>1, Zenon
      <4>2. blockno'[c] = k /\ valid'[c] /\ data'[c] = data[c]
        BY <2>1, <2>3, <2>5, <4>1, Zenon
      <4>3. Content(k) = data[c] /\ Content(k)' = data'[c]
        BY <1>0, <4>1, <4>2, ContentIs, Zenon
      <4> QED
        BY <4>2, <4>3, Zenon
    <3>2. CASE \A c \in Bufs : blockno[c] = k => ~valid[c]
      BY <1>0, <2>1, <2>3, <2>5, <3>2, ContentIs, Zenon
    <3> QED
      BY <3>1, <3>2, Zenon
  <2> QED
    BY <2>4, <2>5
<1>6. ASSUME NEW p \in Procs, NEW v \in Values, LogWrite(p, v) \/ WriteThrough(p, v)
      PROVE  pc[p] = "use" /\ blockno[cur[p]] = k /\ lock[cur[p]] = p
  <2>1. /\ pc[p] = "use" /\ data' = [data EXCEPT ![cur[p]] = v]
        /\ UNCHANGED <<blockno, valid, platter>>
    BY <1>6, Zenon DEF LogWrite, WriteThrough, Rw, bcache
  <2>2. cur[p] \in Bufs /\ lock[cur[p]] = p
    BY <1>0, <2>1, Zenon DEF CacheInv, CallersInv, HoldPCs
  <2>3. \A c \in Bufs : c # cur[p] => data'[c] = data[c]
    BY <1>0, <2>1, Zenon DEF VTypeOK
  <2> QED
    BY <1>2, <2>1, <2>2, <2>3, Zenon
<1>7. ASSUME NEW p \in Procs, Running(p)
      PROVE  \E q \in Procs : pc[q] = "use" /\ blockno[cur[q]] = k /\ lock[cur[q]] = q
  <2>1. CASE Disk(p)
    BY <1>1, <2>1 DEF Disk, VStep, AllocFail, VKill, Submit, bcache
  <2>2. CASE Fill(p) \/ Install(p)
    BY <1>1, <2>2, Zenon DEF Fill, Install, Rw, bcache
  <2>3. CASE acquiresleep(p) \/ bunpin(p) \/ releasesleep(p) \/ brelse(p)
    BY <1>1, <2>3, Zenon DEF acquiresleep, bunpin, releasesleep, brelse, vdisk
  <2> QED
    BY <1>5, <1>6, <1>7, <2>1, <2>2, <2>3, Zenon DEF Running
<1>8. ASSUME NEW p \in Procs, NEW n \in Blocks, bgetHit(p, n)
      PROVE  FALSE
  BY <1>1, <1>8 DEF bgetHit, vdisk
<1>9. CASE UNCHANGED vars
  BY <1>1, <1>9, Zenon DEF vars, vdisk, bcache
<1> QED
  BY <1>3, <1>4, <1>7, <1>8, <1>9, Zenon DEF Next

=============================================================================
