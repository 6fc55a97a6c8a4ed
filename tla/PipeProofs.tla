----------------------------- MODULE PipeProofs -----------------------------
(***************************************************************************)
(* Proofs about Pipe, for any processes, any PIPESIZE and any word size    *)
(* that PIPESIZE divides.                                                  *)
(***************************************************************************)
EXTENDS Pipe, Modulus, FiniteSetTheorems, SequenceTheorems, TLAPS

\* The time the provers are allowed for a step.
USE SMTT(30), ZenonT(30)

-----------------------------------------------------------------------------
(* Arithmetic of the counters *)

\* The bytes in the pipe, without a modulus.
LEMMA CountIs ==
  ASSUME NEW r \in 0 .. UINT - 1, NEW w \in 0 .. UINT - 1
  PROVE  (w - r) % UINT = IF w >= r THEN w - r ELSE w - r + UINT
BY SizeAssumption

\* Adding to a counter, without a modulus.
LEMMA AddIs ==
  ASSUME NEW r \in 0 .. UINT - 1, NEW k \in 0 .. UINT
  PROVE  (r + k) % UINT = IF r + k < UINT THEN r + k ELSE r + k - UINT
BY SizeAssumption

\* Full and Empty in terms of the number of bytes; a write adds one byte and a
\* read takes one, also when a counter wraps.
LEMMA Counting ==
  ASSUME NEW r \in 0 .. UINT - 1, NEW w \in 0 .. UINT - 1,
         (w - r) % UINT \in 0 .. PIPESIZE
  PROVE  /\ w = (r + PIPESIZE) % UINT <=> (w - r) % UINT = PIPESIZE
         /\ r = w <=> (w - r) % UINT = 0
         /\ (w - r) % UINT < PIPESIZE =>
              (((w + 1) % UINT) - r) % UINT = ((w - r) % UINT) + 1
         /\ r # w => (w - ((r + 1) % UINT)) % UINT = ((w - r) % UINT) - 1
<1>0. /\ PIPESIZE \in Nat /\ 0 < PIPESIZE /\ UINT \in Nat /\ PIPESIZE < UINT
      /\ 1 \in 0 .. UINT /\ PIPESIZE \in 0 .. UINT
  BY SizeAssumption
<1>1. (r + PIPESIZE) % UINT = IF r + PIPESIZE < UINT THEN r + PIPESIZE ELSE r + PIPESIZE - UINT
  BY <1>0, AddIs
<1>2. (w - r) % UINT = IF w >= r THEN w - r ELSE w - r + UINT
  BY CountIs
<1>3. PICK w1 : w1 = (w + 1) % UINT
  OBVIOUS
<1>4. PICK r1 : r1 = (r + 1) % UINT
  OBVIOUS
<1>5. w1 = IF w + 1 < UINT THEN w + 1 ELSE w + 1 - UINT
  BY <1>0, <1>3, AddIs
<1>6. r1 = IF r + 1 < UINT THEN r + 1 ELSE r + 1 - UINT
  BY <1>0, <1>4, AddIs
<1>7. w1 \in 0 .. UINT - 1 /\ r1 \in 0 .. UINT - 1
  BY <1>0, <1>5, <1>6
<1>8. /\ (w1 - r) % UINT = IF w1 >= r THEN w1 - r ELSE w1 - r + UINT
      /\ (w - r1) % UINT = IF w >= r1 THEN w - r1 ELSE w - r1 + UINT
  BY <1>7, CountIs
<1> DEFINE c == (w - r) % UINT
<1>9. c = IF w >= r THEN w - r ELSE w - r + UINT
  BY <1>2
<1> HIDE DEF c
<1>10. w = (r + PIPESIZE) % UINT <=> c = PIPESIZE
  BY <1>0, <1>1, <1>9
<1>11. r = w <=> c = 0
  BY <1>0, <1>9
<1>12. c < PIPESIZE => (w1 - r) % UINT = c + 1
  BY <1>0, <1>5, <1>8, <1>9
<1>13. r # w => (w - r1) % UINT = c - 1
  BY <1>0, <1>6, <1>8, <1>9
<1>14. c < PIPESIZE => (((w + 1) % UINT) - r) % UINT = c + 1
  BY <1>3, <1>12, Zenon
<1>15. r # w => (w - ((r + 1) % UINT)) % UINT = c - 1
  BY <1>4, <1>13, Zenon
<1> QED
  BY <1>10, <1>11, <1>14, <1>15, Zenon DEF c

\* Two counters less than PIPESIZE apart use different slots of the buffer.
LEMMA SlotsDiffer ==
  ASSUME NEW a \in Nat, NEW b \in Nat, a < b, b < a + PIPESIZE
  PROVE  a % PIPESIZE # b % PIPESIZE
<1>1. PIPESIZE \in Nat /\ PIPESIZE > 0
  BY SizeAssumption
<1> QED
  BY <1>1, ResiduesDiffer, Zenon

\* A counter that wraps stays at the same slot, because PIPESIZE divides UINT.
LEMMA SlotWraps ==
  ASSUME NEW a \in Nat, a >= UINT
  PROVE  (a - UINT) % PIPESIZE = a % PIPESIZE
<1>1. PIPESIZE \in Nat /\ PIPESIZE > 0 /\ UINT \in Nat /\ UINT % PIPESIZE = 0
  BY SizeAssumption
<1>2. PICK d \in Int : d = a - UINT /\ d + UINT = a
  BY <1>1
<1>3. d % PIPESIZE = (d + UINT) % PIPESIZE
  BY <1>1, ResidueWraps, Zenon
<1> QED
  BY <1>2, <1>3, Zenon

-----------------------------------------------------------------------------
(* Steps that leave parts of the state alone *)

\* Facts about the present state that every step uses.
LEMMA Facts ==
  ASSUME PipeInv
  PROVE  /\ nread \in 0 .. UINT - 1 /\ nwrite \in 0 .. UINT - 1
         /\ Full <=> Count = PIPESIZE
         /\ Empty <=> Count = 0
         /\ Empty => ~Full
         /\ \A p \in Procs, s \in Sides : s \in fd[p] => ref[s] > 0 /\ Open(s)
         /\ \A p \in Procs : pc[p] \in ReadPCs => readopen
         /\ \A p \in Procs : pc[p] \in WritePCs => writeopen
<1>1. /\ nread \in 0 .. UINT - 1 /\ nwrite \in 0 .. UINT - 1
      /\ (nwrite - nread) % UINT \in 0 .. PIPESIZE
  BY DEF PipeInv, TypeOK, Count
<1>2. (Full <=> Count = PIPESIZE) /\ (Empty <=> Count = 0)
  BY <1>1, Counting DEF Full, Empty, Count
<1>3. ASSUME NEW p \in Procs, NEW s \in Sides, s \in fd[p]
      PROVE  ref[s] > 0 /\ Open(s)
  <2>1. Holders(s) \subseteq Procs /\ p \in Holders(s)
    BY <1>3 DEF Holders
  <2>2. IsFiniteSet(Holders(s)) /\ Cardinality(Holders(s)) \in Nat
    BY <2>1, FS_Subset, FS_CardinalityType, ProcsAssumption
  <2>3. Cardinality(Holders(s)) # 0
    BY <2>1, <2>2, FS_EmptySet
  <2>4. ref[s] > 0
    BY <2>2, <2>3 DEF PipeInv, RefInv
  <2> QED
    BY <2>4 DEF PipeInv, EndsInv
<1>4. \A p \in Procs : pc[p] \in ReadPCs => readopen
  BY <1>3 DEF PipeInv, RefInv, Sides, Open
<1>5. \A p \in Procs : pc[p] \in WritePCs => writeopen
  BY <1>3 DEF PipeInv, RefInv, Sides, Open
<1> QED
  BY <1>1, <1>2, <1>3, <1>4, <1>5, SizeAssumption

\* What a wakeup() by p does to the other processes.
LEMMA WakeupIs ==
  ASSUME NEW chan, NEW p \in Procs, NEW where \in PCs, pc \in [Procs -> PCs],
         wakeup(chan, p, where)
  PROVE  /\ pc' \in [Procs -> PCs] /\ pc'[p] = where
         /\ \A q \in Procs \ {p} :
              \/ pc'[q] = pc[q] /\ pc[q] # Woken(chan)
              \/ pc[q] = "rsleep" /\ chan = "nread" /\ pc'[q] = "rcall"
              \/ pc[q] = "wsleep" /\ chan # "nread" /\ pc'[q] = "wcall"
BY DEF wakeup, Woken, Recall, PCs, ReadPCs, WritePCs

(* The same, for where the others are alone. *)
Moved(p, where) ==
    /\ pc'[p] = where
    /\ \A q \in Procs \ {p} : pc'[q] = pc[q] \/ pc'[q] = "rcall" \/ pc'[q] = "wcall"

LEMMA WakeupMoves ==
  ASSUME NEW chan, NEW p \in Procs, NEW where \in PCs, pc \in [Procs -> PCs],
         wakeup(chan, p, where)
  PROVE  Moved(p, where)
BY WakeupIs, Zenon DEF Moved

\* What the end of a read() or write() does to its locals.
LEMMA ReleaseIs ==
  ASSUME NEW p \in Procs, idx \in [Procs -> Nat], len \in [Procs -> Nat], Release(p)
  PROVE  idx' \in [Procs -> Nat] /\ len' \in [Procs -> Nat] /\ lock' = None
BY DEF Release

\* Every step keeps the types; a byte is written only to a pipe that is not
\* full and read only from one that is not empty.
LEMMA PipeTypeStep ==
  ASSUME PipeInv, Next
  PROVE  TypeOK'
<1>0. TypeOK
  BY DEF PipeInv
<1>00. idx \in [Procs -> Nat] /\ len \in [Procs -> Nat]
  BY <1>0 DEF TypeOK
<1> USE DEF TypeOK, Goto, pipe, files, call, Count
<1> PICK p \in Procs :
      \/ \E q \in Procs : Fork(p, q)
      \/ \E n \in 0 .. MaxLen : Write(p, n) \/ Read(p, n)
      \/ \E s \in Sides : fileclose(p, s)
      \/ PipecloseWrite(p) \/ PipecloseRead(p)
      \/ kkill(p) \/ Acquire(p) \/ Locked(p)
  BY DEF Next
<1>1. ASSUME NEW q \in Procs, Fork(p, q) PROVE TypeOK'
  <2>1. ref' \in [Sides -> Nat]
    BY <1>0, <1>1 DEF Fork
  <2>2. fd' \in [Procs -> SUBSET Sides]
    BY <1>0, <1>1, Zenon DEF Fork
  <2>3. pc' \in [Procs -> PCs]
    BY <1>0, <1>1 DEF Fork, PCs
  <2>4. UNCHANGED <<pipe, lock, freed, killed, call>>
    BY <1>1 DEF Fork
  <2> QED
    BY <1>0, <2>1, <2>2, <2>3, <2>4, Zenon
<1>2. ASSUME NEW n \in 0 .. MaxLen, Write(p, n) \/ Read(p, n) PROVE TypeOK'
  <2>1. len' \in [Procs -> Nat]
    <3> HIDE DEF TypeOK
    <3>1. len' = [len EXCEPT ![p] = n] /\ n \in Nat
      BY <1>2, SizeAssumption DEF Write, Read
    <3> QED
      BY <1>00, <3>1
  <2>2. pc' \in [Procs -> PCs]
    BY <1>0, <1>2, Zenon DEF Write, Read, PCs, WritePCs, ReadPCs
  <2> QED
    BY <1>0, <1>2, <2>1, <2>2, Zenon DEF Write, Read
<1>3. ASSUME NEW s \in Sides, fileclose(p, s) PROVE TypeOK'
  <2>1. ref[s] \in Nat /\ ref[s] > 0
    BY <1>0, <1>3, Facts, Zenon DEF fileclose
  <2>2. ref' \in [Sides -> Nat] /\ fd' \in [Procs -> SUBSET Sides]
    BY <1>0, <1>3, <2>1 DEF fileclose
  <2>3. pc' \in [Procs -> PCs]
    BY <1>0, <1>3, Zenon DEF fileclose, PCs
  <2> QED
    BY <1>0, <1>3, <2>2, <2>3, Zenon DEF fileclose
<1>4. ASSUME PipecloseWrite(p) \/ PipecloseRead(p) PROVE TypeOK'
  <2>1. pc' \in [Procs -> PCs]
    BY <1>0, <1>4, WakeupIs, Zenon DEF PipecloseWrite, PipecloseRead, PCs
  <2> QED
    BY <1>0, <1>4, <2>1, Zenon DEF PipecloseWrite, PipecloseRead
<1>5. ASSUME kkill(p) PROVE TypeOK'
  BY <1>0, <1>5, Zenon DEF kkill, Recall, PCs, WritePCs, ReadPCs
<1>6. ASSUME Acquire(p) PROVE TypeOK'
  BY <1>0, <1>6, Zenon DEF Acquire, PCs, WritePCs, ReadPCs
<1>7. ASSUME WriteFail(p) \/ ReadFail(p) PROVE TypeOK'
  <2>1. pc' \in [Procs -> PCs]
    BY <1>0, <1>7, Zenon DEF WriteFail, ReadFail, PCs
  <2>2. idx' \in [Procs -> Nat] /\ len' \in [Procs -> Nat] /\ lock' = None
    BY <1>00, <1>7, ReleaseIs DEF WriteFail, ReadFail
  <2>3. UNCHANGED <<pipe, files, killed>>
    BY <1>7 DEF WriteFail, ReadFail
  <2> QED
    BY <1>0, <2>1, <2>2, <2>3, Zenon
<1>8. ASSUME WriteFull(p) PROVE TypeOK'
  <2>1. pc' \in [Procs -> PCs]
    BY <1>0, <1>8, WakeupIs, Zenon DEF WriteFull, PCs, WritePCs
  <2> QED
    BY <1>0, <1>8, <2>1, Zenon DEF WriteFull
<1>9. ASSUME WriteSleep(p) \/ ReadSleep(p) PROVE TypeOK'
  BY <1>0, <1>9, Zenon DEF WriteSleep, ReadSleep, PCs, WritePCs, ReadPCs
<1>10. ASSUME WriteDone(p) \/ ReadDone(p) PROVE TypeOK'
  <2>1. pc' \in [Procs -> PCs]
    BY <1>0, <1>10, WakeupIs, Zenon DEF WriteDone, ReadDone, PCs
  <2> QED
    <3>1. idx' \in [Procs -> Nat] /\ len' \in [Procs -> Nat] /\ lock' = None
      BY <1>00, <1>10, ReleaseIs DEF WriteDone, ReadDone
    <3>2. UNCHANGED <<pipe, files, killed>>
      BY <1>10, Zenon DEF WriteDone, ReadDone
    <3> QED
      BY <1>0, <2>1, <3>1, <3>2, Zenon
<1>11. ASSUME ReadBlock(p) \/ ReadStart(p) PROVE TypeOK'
  BY <1>0, <1>11, Zenon DEF ReadBlock, ReadStart, PCs, ReadPCs
<1>12. ASSUME NEW b \in Bytes, WriteByte(p, b) PROVE TypeOK'
  <2>1. Count' = Count + 1 /\ Count < PIPESIZE
    <3>1. Count < PIPESIZE
      BY <1>0, <1>12, Facts, SizeAssumption DEF WriteByte
    <3>2. nwrite' = (nwrite + 1) % UINT /\ nread' = nread
      BY <1>12 DEF WriteByte
    <3> QED
      BY <1>0, <3>1, <3>2, Counting
  <2>2. nwrite' \in 0 .. UINT - 1 /\ data' \in [0 .. PIPESIZE - 1 -> Bytes]
    BY <1>0, <1>12, SizeAssumption DEF WriteByte, WriteSlot
  <2>3. Count' \in 0 .. PIPESIZE
    BY <1>0, <2>1, SizeAssumption
  <2>4. idx' \in [Procs -> Nat]
    BY <1>0, <1>12 DEF WriteByte
  <2> HIDE DEF Count
  <2> QED
    BY <1>0, <1>12, <2>2, <2>3, <2>4, Zenon DEF WriteByte
<1>13. ASSUME ReadByte(p) PROVE TypeOK'
  <2>1. Count' = Count - 1 /\ Count > 0
    <3>1. Count # 0 /\ nread # nwrite
      BY <1>0, <1>13, Facts DEF ReadByte, Empty
    <3>2. nread' = (nread + 1) % UINT /\ nwrite' = nwrite
      BY <1>13, Zenon DEF ReadByte
    <3> QED
      BY <1>0, <3>1, <3>2, Counting
  <2>2. nread' \in 0 .. UINT - 1
    BY <1>0, <1>13, SizeAssumption DEF ReadByte
  <2>3. Count' \in 0 .. PIPESIZE
    BY <1>0, <2>1, SizeAssumption
  <2>4. idx' \in [Procs -> Nat]
    BY <1>0, <1>13 DEF ReadByte
  <2> HIDE DEF Count
  <2> QED
    BY <1>0, <1>13, <2>2, <2>3, <2>4, Zenon DEF ReadByte
<1> QED
  BY <1>1, <1>2, <1>3, <1>4, <1>5, <1>6, <1>7, <1>8, <1>9, <1>10, <1>11, <1>12, <1>13, Zenon
     DEF Locked

-----------------------------------------------------------------------------
(* References and ends *)

\* A step of p that opens and closes nothing.
CallStep(p) ==
  \/ \E n \in 0 .. MaxLen : Write(p, n) \/ Read(p, n)
  \/ kkill(p) \/ Acquire(p) \/ Locked(p)

\* Such a step moves every process only within the call it is in, or into one
\* for a side that it holds.
LEMMA CallMoves ==
  ASSUME PipeInv, NEW p \in Procs, CallStep(p)
  PROVE  /\ UNCHANGED <<fd, ref, readopen, writeopen, freed>>
         /\ \A q \in Procs : /\ pc'[q] \in WritePCs => "w" \in fd[q]
                             /\ pc'[q] \in ReadPCs => "r" \in fd[q]
                             /\ pc'[q] = "unborn" => pc[q] = "unborn"
                             /\ pc'[q] = "close_w" => pc[q] = "close_w"
                             /\ pc'[q] = "close_r" => pc[q] = "close_r"
<1>0. /\ pc \in [Procs -> PCs]
      /\ \A q \in Procs : /\ pc[q] \in WritePCs => "w" \in fd[q]
                          /\ pc[q] \in ReadPCs => "r" \in fd[q]
  BY DEF PipeInv, TypeOK, RefInv
<1> DEFINE Good(q) == /\ pc'[q] \in WritePCs => "w" \in fd[q]
                      /\ pc'[q] \in ReadPCs => "r" \in fd[q]
                      /\ pc'[q] = "unborn" => pc[q] = "unborn"
                      /\ pc'[q] = "close_w" => pc[q] = "close_w"
                      /\ pc'[q] = "close_r" => pc[q] = "close_r"
<1>1. UNCHANGED <<fd, ref, readopen, writeopen, freed>>
  BY Zenon DEF CallStep, Write, Read, kkill, Acquire, Locked, WriteFail, WriteFull, WriteSleep,
         WriteDone, WriteByte, ReadFail, ReadBlock, ReadSleep, ReadStart, ReadByte, ReadDone,
         pipe, files
<1>2. ASSUME NEW n \in 0 .. MaxLen, Write(p, n) \/ Read(p, n) PROVE \A q \in Procs : Good(q)
  BY <1>0, <1>2, Zenon DEF Write, Read, Goto, WritePCs, ReadPCs
<1>3. ASSUME kkill(p) PROVE \A q \in Procs : Good(q)
  BY <1>0, <1>3 DEF kkill, Goto, Recall, WritePCs, ReadPCs
<1>4. ASSUME Acquire(p) PROVE \A q \in Procs : Good(q)
  BY <1>0, <1>4 DEF Acquire, Goto, WritePCs, ReadPCs
<1>5. ASSUME WriteFail(p) \/ ReadFail(p) PROVE \A q \in Procs : Good(q)
  BY <1>0, <1>5, Zenon DEF WriteFail, ReadFail, Goto, WritePCs, ReadPCs
<1>6. ASSUME WriteSleep(p) \/ ReadBlock(p) \/ ReadSleep(p) \/ ReadStart(p)
      PROVE  \A q \in Procs : Good(q)
  BY <1>0, <1>6 DEF WriteSleep, ReadBlock, ReadSleep, ReadStart, Waiting, Goto, WritePCs, ReadPCs
<1>7. ASSUME (\E b \in Bytes : WriteByte(p, b)) \/ ReadByte(p) PROVE \A q \in Procs : Good(q)
  BY <1>0, <1>7, Zenon DEF WriteByte, ReadByte
<1>8. ASSUME WriteFull(p) PROVE \A q \in Procs : Good(q)
  BY <1>0, <1>8, WakeupIs DEF WriteFull, Writing, PCs, WritePCs, ReadPCs
<1>9. ASSUME WriteDone(p) \/ ReadDone(p) PROVE \A q \in Procs : Good(q)
  BY <1>0, <1>9, WakeupIs DEF WriteDone, ReadDone, PCs, WritePCs, ReadPCs
<1>10. \A q \in Procs : Good(q)
  BY <1>2, <1>3, <1>4, <1>5, <1>6, <1>7, <1>8, <1>9, Zenon DEF CallStep, Locked
<1> QED
  BY <1>1, <1>10, Zenon

\* The other steps.
LEMMA StepCases ==
  ASSUME Next
  PROVE  \E p \in Procs : \/ CallStep(p)
                          \/ \E q \in Procs : Fork(p, q)
                          \/ \E s \in Sides : fileclose(p, s)
                          \/ PipecloseWrite(p) \/ PipecloseRead(p)
BY DEF Next, CallStep

\* Every step keeps f->ref equal to the number of descriptors.
LEMMA RefStep ==
  ASSUME PipeInv, Next
  PROVE  RefInv'
<1>0. /\ pc \in [Procs -> PCs] /\ fd \in [Procs -> SUBSET Sides] /\ ref \in [Sides -> Nat]
      /\ \A q \in Procs : /\ pc[q] \in WritePCs => "w" \in fd[q]
                          /\ pc[q] \in ReadPCs => "r" \in fd[q]
                          /\ pc[q] = "unborn" => fd[q] = {}
      /\ \A s \in Sides : ref[s] = Cardinality(Holders(s)) /\ IsFiniteSet(Holders(s))
  <2>1. \A s \in Sides : IsFiniteSet(Holders(s))
    BY FS_Subset, ProcsAssumption DEF Holders
  <2> QED
    BY <2>1 DEF PipeInv, TypeOK, RefInv
<1> PICK p \in Procs : \/ CallStep(p)
                       \/ \E q \in Procs : Fork(p, q)
                       \/ \E s \in Sides : fileclose(p, s)
                       \/ PipecloseWrite(p) \/ PipecloseRead(p)
  BY StepCases
<1>1. ASSUME CallStep(p) PROVE RefInv'
  BY <1>0, <1>1, CallMoves DEF RefInv, Holders
<1>2. ASSUME NEW q \in Procs, Fork(p, q) PROVE RefInv'
  <2>1. /\ pc' = [pc EXCEPT ![q] = "idle"] /\ fd' = [fd EXCEPT ![q] = fd[p]]
        /\ ref' = [s \in Sides |-> IF s \in fd[p] THEN ref[s] + 1 ELSE ref[s]]
        /\ fd[q] = {}
    BY <1>0, <1>2, Zenon DEF Fork, Goto
  <2>2. ASSUME NEW s \in Sides PROVE ref'[s] = Cardinality(Holders(s)')
    <3>1. CASE s \in fd[p]
      <4>1. Holders(s)' = Holders(s) \cup {q} /\ q \notin Holders(s)
        BY <1>0, <2>1, <3>1 DEF Holders
      <4> QED
        <5>1. Cardinality(Holders(s) \cup {q}) = Cardinality(Holders(s)) + 1
          BY <1>0, <4>1, FS_AddElement, Zenon
        <5>2. ref'[s] = ref[s] + 1
          BY <2>1, <3>1
        <5> QED
          BY <1>0, <4>1, <5>1, <5>2, Zenon
    <3>2. CASE s \notin fd[p]
      <4>1. Holders(s)' = Holders(s)
        BY <1>0, <2>1, <3>2 DEF Holders
      <4> QED
        BY <1>0, <2>1, <3>2, <4>1
    <3> QED
      BY <3>1, <3>2, Zenon
  <2> QED
    BY <1>0, <2>1, <2>2 DEF RefInv, WritePCs, ReadPCs
<1>3. ASSUME NEW s \in Sides, fileclose(p, s) PROVE RefInv'
  <2>1. /\ fd' = [fd EXCEPT ![p] = fd[p] \ {s}] /\ ref' = [ref EXCEPT ![s] = ref[s] - 1]
        /\ s \in fd[p] /\ pc[p] = "idle"
        /\ pc'[p] \in {"idle", "close_w", "close_r"} /\ \A q \in Procs \ {p} : pc'[q] = pc[q]
    BY <1>0, <1>3, Zenon DEF fileclose, Goto
  <2>2. ASSUME NEW t \in Sides PROVE ref'[t] = Cardinality(Holders(t)')
    <3>1. CASE t = s
      <4>1. Holders(s)' = Holders(s) \ {p} /\ p \in Holders(s)
        BY <1>0, <2>1 DEF Holders
      <4>2. Cardinality(Holders(s) \ {p}) = Cardinality(Holders(s)) - 1
        BY <1>0, <4>1, FS_RemoveElement, Zenon
      <4> QED
        BY <1>0, <2>1, <3>1, <4>1, <4>2, Zenon
    <3>2. CASE t # s
      <4>1. Holders(t)' = Holders(t)
        BY <1>0, <2>1, <3>2 DEF Holders
      <4> QED
        BY <1>0, <2>1, <3>2, <4>1
    <3> QED
      BY <3>1, <3>2
  <2> QED
    BY <1>0, <2>1, <2>2 DEF RefInv, WritePCs, ReadPCs
<1>4. ASSUME PipecloseWrite(p) \/ PipecloseRead(p) PROVE RefInv'
  <2>1. UNCHANGED <<fd, ref>>
    BY <1>4, Zenon DEF PipecloseWrite, PipecloseRead
  <2>2. PICK chan : wakeup(chan, p, "idle")
    BY <1>4, Zenon DEF PipecloseWrite, PipecloseRead
  <2>3. \A q \in Procs : \/ pc'[q] = pc[q] \/ pc'[q] = "idle"
                         \/ pc[q] = "rsleep" /\ pc'[q] = "rcall"
                         \/ pc[q] = "wsleep" /\ pc'[q] = "wcall"
    BY <1>0, <2>2 DEF wakeup, Woken, Recall
  <2> QED
    BY <1>0, <2>1, <2>3 DEF RefInv, Holders, WritePCs, ReadPCs
<1> QED
  BY <1>1, <1>2, <1>3, <1>4

\* Every step keeps an end open until the last descriptor is closed, closes it
\* once, and frees the pipe only when both ends are closed.
LEMMA EndsStep ==
  ASSUME PipeInv, Next
  PROVE  EndsInv'
<1>0. /\ pc \in [Procs -> PCs] /\ ref \in [Sides -> Nat] /\ EndsInv
      /\ \A q \in Procs, s \in Sides : s \in fd[q] => ref[s] > 0
  BY Facts, Zenon DEF PipeInv, TypeOK
<1> PICK p \in Procs : \/ CallStep(p)
                       \/ \E q \in Procs : Fork(p, q)
                       \/ \E s \in Sides : fileclose(p, s)
                       \/ PipecloseWrite(p) \/ PipecloseRead(p)
  BY StepCases
<1>1. ASSUME CallStep(p) PROVE EndsInv'
  BY <1>0, <1>1, CallMoves DEF EndsInv, Open, Closing, Sides
<1>2. ASSUME NEW q \in Procs, Fork(p, q) PROVE EndsInv'
  <2>1. /\ pc' = [pc EXCEPT ![q] = "idle"]
        /\ UNCHANGED <<readopen, writeopen, freed>>
        /\ \A s \in Sides : ref'[s] = ref[s] \/ (ref'[s] = ref[s] + 1 /\ ref[s] > 0)
    BY <1>0, <1>2, Zenon DEF Fork, Goto, pipe
  <2> QED
    BY <1>0, <2>1 DEF EndsInv, Open, Closing, Sides
<1>3. ASSUME NEW s \in Sides, fileclose(p, s) PROVE EndsInv'
  <2>1. /\ UNCHANGED <<readopen, writeopen, freed>>
        /\ ref' = [ref EXCEPT ![s] = ref[s] - 1] /\ ref[s] > 0 /\ pc[p] = "idle"
        /\ \A q \in Procs \ {p} : pc'[q] = pc[q]
        /\ pc'[p] = "idle" \/ (pc'[p] = Closing(s) /\ ref[s] - 1 = 0)
    BY <1>0, <1>3, Zenon DEF fileclose, Goto, pipe, LastRef, Closing
  <2>2. Open(s) /\ \A q \in Procs : pc[q] # Closing(s)
    BY <1>0, <2>1 DEF EndsInv
  <2>3. \A t \in Sides : t # s => Closing(t) # Closing(s)
    BY DEF Closing, Sides
  <2>4. \A t \in Sides : Open(t)' = Open(t) /\ (t # s => ref'[t] = ref[t])
    BY <1>0, <2>1, Zenon DEF Open
  <2>5. ref'[s] = ref[s] - 1
    BY <1>0, <2>1, Zenon
  <2>6. ASSUME NEW t \in Sides
        PROVE  /\ ref'[t] > 0 => Open(t)'
               /\ \A q \in Procs : pc'[q] = Closing(t) => ref'[t] = 0 /\ Open(t)'
               /\ \A q, r \in Procs : pc'[q] = Closing(t) /\ pc'[r] = Closing(t) => q = r
    <3>0. Closing(t) # "idle"
      BY DEF Closing
    <3>1. CASE t = s
      BY <1>0, <2>1, <2>2, <2>4, <2>5, <3>0, <3>1
    <3>2. CASE t # s
      <4>1. \A q \in Procs : pc'[q] = Closing(t) => pc[q] = Closing(t)
        BY <2>1, <2>3, <3>0, <3>2, Zenon
      <4> QED
        BY <1>0, <2>4, <3>2, <4>1, Zenon DEF EndsInv
    <3> QED
      BY <3>1, <3>2, Zenon
  <2> QED
    BY <1>0, <2>1, <2>6, Zenon DEF EndsInv, Closing
<1>4. ASSUME PipecloseWrite(p) PROVE EndsInv'
  <2>1. /\ pc[p] = "close_w" /\ writeopen' = FALSE /\ UNCHANGED <<readopen, ref>>
        /\ freed' = (freed \/ ~readopen)
        /\ wakeup("nread", p, "idle")
    BY <1>4, Zenon DEF PipecloseWrite
  <2>2. /\ pc'[p] = "idle"
        /\ \A q \in Procs \ {p} : pc'[q] = pc[q] \/ pc'[q] \in {"rcall", "wcall"}
    <3>1. "idle" \in PCs
      BY DEF PCs
    <3>2. /\ pc'[p] = "idle"
          /\ \A q \in Procs \ {p} : pc'[q] = pc[q] \/ pc'[q] = "rcall" \/ pc'[q] = "wcall"
      <4>1. Moved(p, "idle")
        BY <1>0, <2>1, <3>1, WakeupMoves, Zenon
      <4> QED
        BY <4>1, Zenon DEF Moved
    <3> QED
      BY <3>2, Zenon
  <2>3. ref["w"] = 0 /\ \A q \in Procs : pc[q] = "close_w" => q = p
    BY <1>0, <2>1, Zenon DEF EndsInv, Closing, Sides
  <2> QED
    <3>1. \A q \in Procs : pc'[q] # "close_w" /\ (pc'[q] = "close_r" => pc[q] = "close_r")
      BY <2>1, <2>2, <2>3, Zenon
    <3>2. /\ ref["r"] > 0 => readopen
          /\ \A q \in Procs : pc[q] = "close_r" => ref["r"] = 0 /\ readopen
          /\ \A q, r \in Procs : pc[q] = "close_r" /\ pc[r] = "close_r" => q = r
          /\ freed => ~readopen /\ ~writeopen
      BY <1>0, Zenon DEF EndsInv, Closing, Open, Sides
    <3>3. freed' => ~readopen' /\ ~writeopen'
      BY <2>1, <3>2, Zenon
    <3>4. ~(ref'["w"] > 0)
      BY <2>1, <2>3
    <3> QED
      BY <2>1, <3>1, <3>2, <3>3, <3>4, Zenon DEF EndsInv, Closing, Open, Sides
<1>5. ASSUME PipecloseRead(p) PROVE EndsInv'
  <2>1. /\ pc[p] = "close_r" /\ readopen' = FALSE /\ UNCHANGED <<writeopen, ref>>
        /\ freed' = (freed \/ ~writeopen)
        /\ wakeup("nwrite", p, "idle")
    BY <1>5 DEF PipecloseRead
  <2>2. /\ pc'[p] = "idle"
        /\ \A q \in Procs \ {p} : pc'[q] = pc[q] \/ pc'[q] \in {"rcall", "wcall"}
    <3>1. "idle" \in PCs
      BY DEF PCs
    <3>2. /\ pc'[p] = "idle"
          /\ \A q \in Procs \ {p} : pc'[q] = pc[q] \/ pc'[q] = "rcall" \/ pc'[q] = "wcall"
      <4>1. Moved(p, "idle")
        BY <1>0, <2>1, <3>1, WakeupMoves, Zenon
      <4> QED
        BY <4>1, Zenon DEF Moved
    <3> QED
      BY <3>2
  <2>3. ref["r"] = 0 /\ \A q \in Procs : pc[q] = "close_r" => q = p
    BY <1>0, <2>1, Zenon DEF EndsInv, Closing, Sides
  <2> QED
    <3>1. \A q \in Procs : pc'[q] # "close_r" /\ (pc'[q] = "close_w" => pc[q] = "close_w")
      BY <2>1, <2>2, <2>3, Zenon
    <3>2. /\ ref["w"] > 0 => writeopen
          /\ \A q \in Procs : pc[q] = "close_w" => ref["w"] = 0 /\ writeopen
          /\ \A q, r \in Procs : pc[q] = "close_w" /\ pc[r] = "close_w" => q = r
          /\ freed => ~readopen /\ ~writeopen
      BY <1>0, Zenon DEF EndsInv, Closing, Open, Sides
    <3>3. freed' => ~readopen' /\ ~writeopen'
      BY <2>1, <3>2, Zenon
    <3>4. ~(ref'["r"] > 0)
      BY <2>1, <2>3
    <3> QED
      BY <2>1, <3>1, <3>2, <3>3, <3>4, Zenon DEF EndsInv, Closing, Open, Sides
<1> QED
  BY <1>1, <1>2, <1>3, <1>4, <1>5

-----------------------------------------------------------------------------
(* The lock and the sleepers *)

\* Every step keeps the lock with the process inside a critical section.
LEMMA LockStep ==
  ASSUME PipeInv, Next
  PROVE  LockInv'
<1>0. /\ pc \in [Procs -> PCs] /\ None \notin Procs
      /\ \A q \in Procs : pc[q] \in LockPCs <=> lock = q
      /\ "idle" \in PCs /\ "wfull" \in PCs
  BY ProcsAssumption DEF PipeInv, TypeOK, LockInv, PCs, WritePCs
<1> PICK p \in Procs :
      \/ \E q \in Procs : Fork(p, q)
      \/ \E n \in 0 .. MaxLen : Write(p, n) \/ Read(p, n)
      \/ \E s \in Sides : fileclose(p, s)
      \/ PipecloseWrite(p) \/ PipecloseRead(p)
      \/ kkill(p) \/ Acquire(p) \/ Locked(p)
  BY DEF Next
<1>1. ASSUME NEW q \in Procs, Fork(p, q) PROVE LockInv'
  BY <1>0, <1>1 DEF Fork, Goto, LockInv, LockPCs
<1>2. ASSUME NEW n \in 0 .. MaxLen, Write(p, n) \/ Read(p, n) PROVE LockInv'
  BY <1>0, <1>2, Zenon DEF Write, Read, Goto, LockInv, LockPCs
<1>3. ASSUME NEW s \in Sides, fileclose(p, s) PROVE LockInv'
  BY <1>0, <1>3 DEF fileclose, Goto, LockInv, LockPCs
<1>4. ASSUME PipecloseWrite(p) \/ PipecloseRead(p) PROVE LockInv'
  <2>1. PICK chan : wakeup(chan, p, "idle")
    BY <1>4, Zenon DEF PipecloseWrite, PipecloseRead
  <2>2. pc[p] \in {"close_w", "close_r"} /\ lock = None /\ lock' = lock
    BY <1>4, Zenon DEF PipecloseWrite, PipecloseRead
  <2>3. /\ pc'[p] = "idle"
        /\ \A q \in Procs \ {p} : pc'[q] = pc[q] \/ pc'[q] = "rcall" \/ pc'[q] = "wcall"
    <3>1. pc \in [Procs -> PCs] /\ "idle" \in PCs
      BY <1>0, Zenon DEF PCs
    <3>2. Moved(p, "idle")
      BY <2>1, <3>1, WakeupMoves, Zenon
    <3> QED
      BY <3>2, Zenon DEF Moved
  <2> QED
    BY <1>0, <2>2, <2>3 DEF LockInv, LockPCs
<1>5. ASSUME kkill(p) PROVE LockInv'
  BY <1>0, <1>5 DEF kkill, Recall, Goto, LockInv, LockPCs
<1>6. ASSUME Acquire(p) PROVE LockInv'
  BY <1>0, <1>6 DEF Acquire, Goto, LockInv, LockPCs
<1>7. ASSUME WriteFail(p) \/ ReadFail(p) PROVE LockInv'
  BY <1>0, <1>7 DEF WriteFail, ReadFail, Writing, Waiting, Release, Goto, LockInv, LockPCs
<1>8. ASSUME WriteFull(p) PROVE LockInv'
  <2>1. pc[p] = "wloop" /\ lock' = lock
    BY <1>8, Zenon DEF WriteFull, Writing
  <2>2. /\ pc'[p] = "wfull"
        /\ \A q \in Procs \ {p} : \/ pc'[q] = pc[q]
                                  \/ pc[q] = "rsleep" /\ pc'[q] = "rcall"
                                  \/ pc[q] = "wsleep" /\ pc'[q] = "wcall"
    BY <1>0, <1>8, WakeupIs, Zenon DEF WriteFull
  <2> QED
    BY <1>0, <2>1, <2>2 DEF LockInv, LockPCs
<1>9. ASSUME WriteSleep(p) \/ ReadSleep(p) PROVE LockInv'
  BY <1>0, <1>9 DEF WriteSleep, ReadSleep, Goto, LockInv, LockPCs
<1>10. ASSUME WriteDone(p) \/ ReadDone(p) PROVE LockInv'
  <2>1. PICK chan : wakeup(chan, p, "idle")
    BY <1>10, Zenon DEF WriteDone, ReadDone
  <2>2. pc[p] \in LockPCs /\ lock' = None
    BY <1>10 DEF WriteDone, ReadDone, Release, LockPCs
  <2>3. /\ pc'[p] = "idle"
        /\ \A q \in Procs \ {p} : pc'[q] = pc[q] \/ pc'[q] = "rcall" \/ pc'[q] = "wcall"
    <3>1. pc \in [Procs -> PCs] /\ "idle" \in PCs
      BY <1>0, Zenon DEF PCs
    <3>2. Moved(p, "idle")
      BY <2>1, <3>1, WakeupMoves, Zenon
    <3> QED
      BY <3>2, Zenon DEF Moved
  <2> QED
    BY <1>0, <2>2, <2>3 DEF LockInv, LockPCs
<1>11. ASSUME ReadBlock(p) \/ ReadStart(p) PROVE LockInv'
  BY <1>0, <1>11, Zenon DEF ReadBlock, ReadStart, Waiting, Goto, LockInv, LockPCs
<1>12. ASSUME (\E b \in Bytes : WriteByte(p, b)) \/ ReadByte(p) PROVE LockInv'
  BY <1>0, <1>12, Zenon DEF WriteByte, ReadByte, LockInv
<1> QED
  BY <1>1, <1>2, <1>3, <1>4, <1>5, <1>6, <1>7, <1>8, <1>9, <1>10, <1>11, <1>12 DEF Locked

\* Every step that makes the condition of a sleeper false wakes it before the
\* lock is free, and nobody goes to sleep on a condition that is already false.
LEMMA WakeStep ==
  ASSUME PipeInv, Next
  PROVE  WakeInv'
<1>0. /\ pc \in [Procs -> PCs] /\ killed \in [Procs -> BOOLEAN] /\ None \notin Procs
      /\ \A q \in Procs : pc[q] \in LockPCs <=> lock = q
      /\ "idle" \in PCs /\ "wfull" \in PCs
      /\ WakeInv
  BY ProcsAssumption, Zenon DEF PipeInv, TypeOK, LockInv, PCs, WritePCs
<1>00. /\ Empty => ~Full
       /\ \A q \in Procs : pc[q] \in {"rsleep", "rcopy"} => readopen
       /\ \A q \in Procs : pc[q] \in {"wsleep", "wloop"} => writeopen
  BY Facts DEF ReadPCs, WritePCs
<1> USE DEF WakeInv, NoMutualWait, WriterNotForgotten, ReaderNotForgotten, SleepInv
<1> PICK p \in Procs :
      \/ \E q \in Procs : Fork(p, q)
      \/ \E n \in 0 .. MaxLen : Write(p, n) \/ Read(p, n)
      \/ \E s \in Sides : fileclose(p, s)
      \/ PipecloseWrite(p) \/ PipecloseRead(p)
      \/ kkill(p) \/ Acquire(p) \/ Locked(p)
  BY DEF Next
\* A step that changes only p's place, from and to none that the invariant names.
<1>1. ASSUME NEW q \in Procs,
             \A r \in Procs \ {q} : pc'[r] = pc[r],
             pc[q] \notin {"rsleep", "wsleep", "rcopy", "wloop", "wfull", "rblock"},
             pc'[q] \notin {"rsleep", "wsleep", "wfull", "rblock"},
             UNCHANGED <<nread, nwrite, readopen, writeopen, killed>>
      PROVE  WakeInv'
  BY <1>0, <1>1, Zenon DEF Full, Empty
<1>2. ASSUME NEW q \in Procs, Fork(p, q) PROVE WakeInv'
  BY <1>0, <1>1, <1>2, Zenon DEF Fork, Goto, pipe
<1>3. ASSUME NEW n \in 0 .. MaxLen, Write(p, n) \/ Read(p, n) PROVE WakeInv'
  BY <1>0, <1>1, <1>3, Zenon DEF Write, Read, Goto, pipe
<1>4. ASSUME NEW s \in Sides, fileclose(p, s) PROVE WakeInv'
  BY <1>0, <1>1, <1>4, Zenon DEF fileclose, Goto, pipe
<1>5. ASSUME PipecloseWrite(p) PROVE WakeInv'
  <2>1. /\ pc[p] = "close_w" /\ lock = None /\ writeopen' = FALSE
        /\ UNCHANGED <<nread, nwrite, readopen, killed>>
    BY <1>5, Zenon DEF PipecloseWrite
  <2>2. /\ pc'[p] = "idle"
        /\ \A q \in Procs \ {p} : \/ pc'[q] = pc[q] /\ pc[q] # "rsleep"
                                  \/ pc[q] = "rsleep" /\ pc'[q] = "rcall"
    BY <1>0, <1>5, WakeupIs DEF PipecloseWrite, Woken
  <2> QED
    BY <1>0, <2>1, <2>2 DEF Full, Empty, LockPCs
<1>6. ASSUME PipecloseRead(p) PROVE WakeInv'
  <2>1. /\ pc[p] = "close_r" /\ lock = None /\ readopen' = FALSE
        /\ UNCHANGED <<nread, nwrite, writeopen, killed>>
    BY <1>6, Zenon DEF PipecloseRead
  <2>2. /\ pc'[p] = "idle"
        /\ \A q \in Procs \ {p} : \/ pc'[q] = pc[q] /\ pc[q] # "wsleep"
                                  \/ pc[q] = "wsleep" /\ pc'[q] = "wcall"
    BY <1>0, <1>6, WakeupIs DEF PipecloseRead, Woken
  <2> QED
    BY <1>0, <2>1, <2>2, Zenon DEF Full, Empty, LockPCs
<1>7. ASSUME kkill(p) PROVE WakeInv'
  <2>1. UNCHANGED <<nread, nwrite, readopen, writeopen>> /\ killed'[p] = TRUE
    BY <1>0, <1>7, Zenon DEF kkill, pipe
  <2>2. /\ \A r \in Procs \ {p} : pc'[r] = pc[r]
        /\ \/ pc'[p] = pc[p]
           \/ pc[p] \in {"rsleep", "wsleep"} /\ pc'[p] \in {"rcall", "wcall"}
    BY <1>0, <1>7, Zenon DEF kkill, Goto, Recall
  <2> QED
    BY <1>0, <2>1, <2>2 DEF Full, Empty
<1>8. ASSUME Acquire(p) PROVE WakeInv'
  BY <1>0, <1>1, <1>8, Zenon DEF Acquire, Goto, pipe
<1>9. ASSUME WriteFail(p) PROVE WakeInv'
  <2>1. /\ pc[p] = "wloop" /\ (~readopen \/ killed[p])
        /\ pc' = [pc EXCEPT ![p] = "idle"]
        /\ UNCHANGED <<nread, nwrite, readopen, writeopen, killed>>
    BY <1>9, Zenon DEF WriteFail, Writing, Hopeless, Goto, pipe
  <2> QED
    BY <1>0, <1>00, <2>1, Zenon DEF Full, Empty, LockPCs
<1>10. ASSUME ReadFail(p) \/ ReadStart(p) PROVE WakeInv'
  BY <1>0, <1>1, <1>10, Zenon DEF ReadFail, ReadStart, Waiting, Goto, pipe
<1>11. ASSUME WriteFull(p) PROVE WakeInv'
  <2>1. /\ pc[p] = "wloop" /\ Full /\ readopen
        /\ UNCHANGED <<nread, nwrite, readopen, writeopen, killed>>
    BY <1>11, Zenon DEF WriteFull, Writing, Hopeless, pipe
  <2>2. /\ pc'[p] = "wfull"
        /\ \A q \in Procs \ {p} : \/ pc'[q] = pc[q] /\ pc[q] # "rsleep"
                                  \/ pc[q] = "rsleep" /\ pc'[q] = "rcall"
    BY <1>0, <1>11, WakeupIs DEF WriteFull, Woken
  <2> QED
    BY <1>0, <2>1, <2>2 DEF Full, Empty, LockPCs
<1>12. ASSUME WriteSleep(p) PROVE WakeInv'
  <2>1. /\ pc[p] = "wfull" /\ pc' = [pc EXCEPT ![p] = "wsleep"]
        /\ UNCHANGED <<nread, nwrite, readopen, writeopen, killed>>
    BY <1>12 DEF WriteSleep, Goto, pipe
  <2>2. Full /\ readopen /\ \A q \in Procs : pc[q] # "rsleep"
    BY <1>0, <2>1, Facts, Zenon
  <2> QED
    BY <1>0, <2>1, <2>2 DEF Full, Empty, LockPCs
<1>13. ASSUME WriteDone(p) PROVE WakeInv'
  <2>1. /\ pc[p] = "wloop"
        /\ UNCHANGED <<nread, nwrite, readopen, writeopen, killed>>
    BY <1>13, Zenon DEF WriteDone, pipe
  <2>2. /\ pc'[p] = "idle"
        /\ \A q \in Procs \ {p} : \/ pc'[q] = pc[q] /\ pc[q] # "rsleep"
                                  \/ pc[q] = "rsleep" /\ pc'[q] = "rcall"
    <3>1. wakeup("nread", p, "idle")
      BY <1>13, Zenon DEF WriteDone
    <3>2. pc \in [Procs -> PCs] /\ "idle" \in PCs
      BY <1>0, Zenon DEF PCs
    <3>3. /\ pc'[p] = "idle"
          /\ \A q \in Procs \ {p} : \/ pc'[q] = pc[q] /\ pc[q] # Woken("nread")
                                    \/ pc[q] = "rsleep" /\ pc'[q] = "rcall"
      BY <3>1, <3>2, WakeupIs, Zenon
    <3> QED
      BY <3>3, Zenon DEF Woken
  <2> QED
    BY <1>0, <2>1, <2>2 DEF Full, Empty, LockPCs
<1>14. ASSUME NEW b \in Bytes, WriteByte(p, b) PROVE WakeInv'
  <2>1. /\ pc[p] = "wloop" /\ readopen /\ ~Full
        /\ UNCHANGED <<pc, readopen, writeopen, killed>>
    BY <1>14, Zenon DEF WriteByte, Writing, Hopeless
  <2>2. \A q \in Procs : pc[q] \notin {"rcopy", "wsleep", "wfull", "rblock"}
    BY <1>0, <2>1, Zenon DEF LockPCs
  <2> QED
    BY <1>0, <2>1, <2>2, Zenon
<1>15. ASSUME ReadBlock(p) PROVE WakeInv'
  <2>1. /\ pc[p] = "rwait" /\ Empty /\ writeopen /\ pc' = [pc EXCEPT ![p] = "rblock"]
        /\ UNCHANGED <<nread, nwrite, readopen, writeopen, killed>>
    BY <1>15 DEF ReadBlock, Waiting, Goto, pipe
  <2> QED
    BY <1>0, <2>1 DEF Full, Empty, LockPCs
<1>16. ASSUME ReadSleep(p) PROVE WakeInv'
  <2>1. /\ pc[p] = "rblock" /\ pc' = [pc EXCEPT ![p] = "rsleep"]
        /\ UNCHANGED <<nread, nwrite, readopen, writeopen, killed>>
    BY <1>16, Zenon DEF ReadSleep, Goto, pipe
  <2>2. Empty /\ ~Full /\ writeopen
    BY <1>0, <1>00, <2>1
  <2>3. \A q \in Procs : pc[q] \notin {"wsleep", "wfull"}
    BY <1>0, <2>1, <2>2 DEF LockPCs
  <2> QED
    BY <1>0, <2>1, <2>2, <2>3 DEF Full, Empty, LockPCs
<1>17. ASSUME ReadByte(p) PROVE WakeInv'
  <2>1. /\ pc[p] = "rcopy" /\ ~Empty /\ UNCHANGED <<pc, readopen, writeopen, killed>>
    BY <1>17, Zenon DEF ReadByte
  <2>2. readopen /\ \A q \in Procs : pc[q] \notin {"wloop", "wfull", "rblock"}
    BY <1>0, <1>00, <2>1 DEF LockPCs
  <2> QED
    BY <1>0, <2>1, <2>2
<1>18. ASSUME ReadDone(p) PROVE WakeInv'
  <2>1. /\ pc[p] = "rcopy"
        /\ UNCHANGED <<nread, nwrite, readopen, writeopen, killed>>
    BY <1>18, Zenon DEF ReadDone, pipe
  <2>2. /\ pc'[p] = "idle"
        /\ \A q \in Procs \ {p} : \/ pc'[q] = pc[q] /\ pc[q] # "wsleep"
                                  \/ pc[q] = "wsleep" /\ pc'[q] = "wcall"
    BY <1>0, <1>18, WakeupIs DEF ReadDone, Woken
  <2> QED
    BY <1>0, <2>1, <2>2 DEF Full, Empty, LockPCs
<1> QED
  BY <1>2, <1>3, <1>4, <1>5, <1>6, <1>7, <1>8, <1>9, <1>10, <1>11, <1>12, <1>13, <1>14,
     <1>15, <1>16, <1>17, <1>18, Zenon DEF Locked

-----------------------------------------------------------------------------
(* The theorems *)

\* After pipealloc() the creator holds one descriptor of each side.
LEMMA PipeStart ==
  ASSUME Init
  PROVE  PipeInv
<1>1. TypeOK
  <2>1. data \in [0 .. PIPESIZE - 1 -> Bytes]
    BY SizeAssumption DEF Init
  <2>2. nread \in 0 .. UINT - 1 /\ nwrite \in 0 .. UINT - 1 /\ Count \in 0 .. PIPESIZE
    BY SizeAssumption DEF Init, Count
  <2> QED
    BY <2>1, <2>2, Zenon DEF Init, TypeOK, PCs
<1>2. RefInv
  <2>1. ASSUME NEW s \in Sides PROVE ref[s] = Cardinality(Holders(s))
    <3>1. Holders(s) = {Creator}
      BY ProcsAssumption DEF Init, Holders
    <3> QED
      BY <3>1, FS_Singleton, Zenon DEF Init
  <2> QED
    BY <2>1 DEF Init, RefInv, WritePCs, ReadPCs
<1>3. EndsInv
  BY Zenon DEF Init, EndsInv, Open, Closing, Sides
<1>4. LockInv
  BY ProcsAssumption, Zenon DEF Init, LockInv, LockPCs
<1>5. WakeInv
  BY Zenon DEF Init, WakeInv, NoMutualWait, WriterNotForgotten, ReaderNotForgotten, SleepInv
<1> QED
  BY <1>1, <1>2, <1>3, <1>4, <1>5 DEF PipeInv

\* A step that changes nothing.
LEMMA PipeStutter ==
  ASSUME PipeInv, UNCHANGED vars
  PROVE  PipeInv'
<1>1. UNCHANGED <<data, nread, nwrite, readopen, writeopen, lock, freed, ref, fd, killed, pc, idx, len>>
  BY DEF vars, pipe, files, call
<1>2. TypeOK'
  BY <1>1, Zenon DEF PipeInv, TypeOK, Count
<1>3. RefInv' /\ EndsInv' /\ LockInv'
  BY <1>1, Zenon DEF PipeInv, RefInv, EndsInv, LockInv, Holders, Open
<1>4. WakeInv'
  BY <1>1, Zenon DEF PipeInv, WakeInv, NoMutualWait, WriterNotForgotten, ReaderNotForgotten, SleepInv,
              Full, Empty
<1> QED
  BY <1>2, <1>3, <1>4 DEF PipeInv

\* The invariant of the pipe.
THEOREM PipeInvariant == Spec => []PipeInv
<1>1. Init => PipeInv
  BY PipeStart
<1>2. PipeInv /\ [Next]_vars => PipeInv'
  BY PipeTypeStep, RefStep, EndsStep, LockStep, WakeStep, PipeStutter DEF PipeInv
<1> QED
  BY <1>1, <1>2, PTL DEF Spec

\* The pipe keeps its types, and never holds more than PIPESIZE bytes, also
\* after nread and nwrite have wrapped.
THEOREM PipeTypeCorrect == Spec => []TypeOK
<1>1. PipeInv => TypeOK
  BY DEF PipeInv
<1> QED
  BY <1>1, PipeInvariant, PTL

\* No process uses a pipe that pipeclose() has freed.
THEOREM FreeTheorem == Spec => []NoUseAfterFree
<1>1. PipeInv => NoUseAfterFree
  <2> SUFFICES ASSUME PipeInv, freed, NEW p \in Procs
               PROVE  pc[p] \in {"unborn", "idle"} /\ fd[p] = {}
    BY DEF NoUseAfterFree
  <2>1. ~readopen /\ ~writeopen
    BY DEF PipeInv, EndsInv
  <2>2. \A s \in Sides : ~Open(s)
    BY <2>1 DEF Open
  <2>3. fd[p] = {}
    BY <2>2, Facts, Zenon DEF PipeInv, TypeOK
  <2>4. pc[p] \notin WritePCs /\ pc[p] \notin ReadPCs /\ pc[p] \in PCs
    BY <2>3, Zenon DEF PipeInv, TypeOK, RefInv
  <2>5. pc[p] # "close_w" /\ pc[p] # "close_r"
    BY <2>2 DEF PipeInv, EndsInv, Sides, Closing
  <2> QED
    BY <2>3, <2>4, <2>5, Zenon DEF PCs
<1> QED
  BY <1>1, PipeInvariant, PTL

\* No reader and writer wait for each other; nobody sleeps on over room, over
\* bytes or over a closed end without somebody who is about to wake it, but
\* for a reader that a killed writer has left.
THEOREM WakeupTheorem == Spec => []SleepersNotForgotten
<1>1. PipeInv => SleepersNotForgotten
  BY DEF PipeInv, WakeInv, SleepersNotForgotten
<1> QED
  BY <1>1, PipeInvariant, PTL

-----------------------------------------------------------------------------
(* First in, first out *)

\* The slot of a counter, without the wrap at UINT.
LEMMA SlotIs ==
  ASSUME NEW r \in 0 .. UINT - 1, NEW j \in 0 .. PIPESIZE
  PROVE  /\ ((r + j) % UINT) % PIPESIZE = (r + j) % PIPESIZE
         /\ (r + j) % PIPESIZE \in 0 .. PIPESIZE - 1
<1>0. j \in 0 .. UINT /\ r + j \in Nat /\ UINT \in Nat
  BY SizeAssumption
<1>1. (r + j) % UINT = IF r + j < UINT THEN r + j ELSE r + j - UINT
  BY <1>0, AddIs, Zenon
<1>2. CASE r + j < UINT
  <2>1. (r + j) % UINT = r + j
    BY <1>1, <1>2
  <2> QED
    BY <1>0, <2>1, SizeAssumption
<1>3. CASE ~(r + j < UINT)
  <2>0. r + j >= UINT
    BY <1>0, <1>3
  <2>1. (r + j) % UINT = r + j - UINT
    BY <1>1, <1>3
  <2>2. (r + j - UINT) % PIPESIZE = (r + j) % PIPESIZE
    BY <1>0, <2>0, SlotWraps
  <2>3. (r + j) % PIPESIZE \in 0 .. PIPESIZE - 1
    BY <1>0, SizeAssumption
  <2> QED
    BY <2>1, <2>2, <2>3, Zenon
<1> QED
  BY <1>2, <1>3, Zenon

\* The bytes in the pipe are a sequence of bytes.
LEMMA BufferedIs ==
  ASSUME NEW d \in [0 .. PIPESIZE - 1 -> Bytes], NEW r \in 0 .. UINT - 1,
         NEW n \in 0 .. PIPESIZE
  PROVE  /\ Buffered(d, r, n) \in Seq(Bytes) /\ Len(Buffered(d, r, n)) = n
         /\ \A k \in 1 .. n : Buffered(d, r, n)[k] = d[(r + (k - 1)) % PIPESIZE]
<1>0. n \in Nat
  BY SizeAssumption
<1>1. ASSUME NEW k \in 1 .. n
      PROVE  /\ ((r + (k - 1)) % UINT) % PIPESIZE = (r + (k - 1)) % PIPESIZE
             /\ (r + (k - 1)) % PIPESIZE \in 0 .. PIPESIZE - 1
  <2>1. k - 1 \in 0 .. PIPESIZE
    BY SizeAssumption
  <2> QED
    BY <2>1, SlotIs, Zenon
<1> DEFINE B == Buffered(d, r, n)
<1>2. B = [k \in 1 .. n |-> d[((r + (k - 1)) % UINT) % PIPESIZE]]
  BY DEF Buffered
<1>3. \A k \in 1 .. n : B[k] = d[(r + (k - 1)) % PIPESIZE] /\ B[k] \in Bytes
  <2> SUFFICES ASSUME NEW k \in 1 .. n
               PROVE  B[k] = d[(r + (k - 1)) % PIPESIZE] /\ B[k] \in Bytes
    OBVIOUS
  <2>1. B[k] = d[((r + (k - 1)) % UINT) % PIPESIZE]
    BY <1>2, Zenon
  <2>2. B[k] = d[(r + (k - 1)) % PIPESIZE]
    BY <1>1, <2>1, Zenon
  <2>3. d[(r + (k - 1)) % PIPESIZE] \in Bytes
    BY <1>1, Zenon
  <2> QED
    BY <2>2, <2>3, Zenon
<1>4. B = [k \in 1 .. n |-> B[k]]
  BY <1>2, Zenon
<1> HIDE DEF B
<1>5. B \in Seq(Bytes) /\ Len(B) = n
  BY <1>0, <1>3, <1>4
<1> QED
  BY <1>3, <1>5, Zenon DEF B

\* Writing a byte at the write counter appends it.
LEMMA PutAppends ==
  ASSUME NEW d \in [0 .. PIPESIZE - 1 -> Bytes], NEW r \in 0 .. UINT - 1,
         NEW n \in 0 .. PIPESIZE - 1, NEW b \in Bytes,
         NEW w \in 0 .. UINT - 1, n = (w - r) % UINT
  PROVE  Buffered([d EXCEPT ![w % PIPESIZE] = b], r, n + 1) = Append(Buffered(d, r, n), b)
<1>0. n \in 0 .. PIPESIZE /\ n + 1 \in 0 .. PIPESIZE /\ UINT \in Nat /\ n \in 0 .. UINT
  BY SizeAssumption
<1>1. w = (r + n) % UINT
  <2>1. n = IF w >= r THEN w - r ELSE w - r + UINT
    BY CountIs
  <2>2. (r + n) % UINT = IF r + n < UINT THEN r + n ELSE r + n - UINT
    BY <1>0, AddIs, Zenon
  <2> HIDE DEF Count
  <2> QED
    BY <1>0, <2>1, <2>2
<1>2. w % PIPESIZE = (r + n) % PIPESIZE /\ w % PIPESIZE \in 0 .. PIPESIZE - 1
  <2>1. ((r + n) % UINT) % PIPESIZE = (r + n) % PIPESIZE
    BY <1>0, SlotIs, Zenon
  <2>2. (r + n) % PIPESIZE \in 0 .. PIPESIZE - 1
    BY <1>0, SlotIs, Zenon
  <2> QED
    BY <1>1, <2>1, <2>2, Zenon
<1>3. PICK e : e = [d EXCEPT ![w % PIPESIZE] = b]
  <2>1. \E e : e = [d EXCEPT ![w % PIPESIZE] = b]
    BY Zenon
  <2> QED
    BY <2>1, Zenon
<1>4. e \in [0 .. PIPESIZE - 1 -> Bytes]
  BY <1>2, <1>3
<1> DEFINE S == Buffered(d, r, n)
           T == Buffered(e, r, n + 1)
<1>5. /\ S \in Seq(Bytes) /\ Len(S) = n
      /\ \A k \in 1 .. n : S[k] = d[(r + (k - 1)) % PIPESIZE]
  BY <1>0, BufferedIs, Zenon
<1>6. /\ T \in Seq(Bytes) /\ Len(T) = n + 1
      /\ \A k \in 1 .. n + 1 : T[k] = e[(r + (k - 1)) % PIPESIZE]
  BY <1>0, <1>4, BufferedIs, Zenon
<1> HIDE DEF S, T
<1>7. ASSUME NEW k \in 1 .. n PROVE T[k] = S[k]
  <2>1. k - 1 \in 0 .. PIPESIZE /\ r + (k - 1) \in Nat /\ r + n \in Nat
        /\ r + (k - 1) < r + n /\ r + n < r + (k - 1) + PIPESIZE
        /\ k \in 1 .. n + 1
    BY <1>0, SizeAssumption
  <2>2. (r + (k - 1)) % PIPESIZE # (r + n) % PIPESIZE
    BY <2>1, SlotsDiffer, Zenon
  <2>3. (r + (k - 1)) % PIPESIZE \in 0 .. PIPESIZE - 1
    BY <2>1, SlotIs, Zenon
  <2>4. PICK x \in 0 .. PIPESIZE - 1 : x = (r + (k - 1)) % PIPESIZE
    BY <2>3, Zenon
  <2>5. x # w % PIPESIZE
    BY <1>2, <2>2, <2>4
  <2>6. e[x] = d[x]
    BY <1>3, <2>4, <2>5
  <2> QED
    BY <1>5, <1>6, <2>1, <2>4, <2>6, Zenon
<1>8. T[n + 1] = b
  <2>1. PICK m \in 1 .. n + 1 : m = n + 1 /\ m - 1 = n
    BY <1>0
  <2>2. T[m] = e[(r + (m - 1)) % PIPESIZE]
    BY <1>6, Zenon
  <2>3. T[m] = e[w % PIPESIZE]
    BY <1>2, <2>1, <2>2, Zenon
  <2> QED
    BY <1>2, <1>3, <2>1, <2>3
<1>9. /\ Append(S, b) \in Seq(Bytes) /\ Len(Append(S, b)) = n + 1
      /\ \A k \in 1 .. n : Append(S, b)[k] = S[k]
      /\ Append(S, b)[n + 1] = b
  BY <1>5, AppendProperties
<1>10. \A k \in 1 .. n + 1 : T[k] = Append(S, b)[k]
  <2>1. \A k \in 1 .. n + 1 : k \in 1 .. n \/ k = n + 1
    BY <1>0
  <2> QED
    BY <1>7, <1>8, <1>9, <2>1, Zenon
<1>11. T = Append(S, b)
  BY <1>6, <1>9, <1>10, SeqEqual, Zenon
<1> QED
  BY <1>3, <1>11, Zenon DEF S, T

\* Reading a byte at the read counter takes the first.
LEMMA GetTails ==
  ASSUME NEW d \in [0 .. PIPESIZE - 1 -> Bytes], NEW r \in 0 .. UINT - 1,
         NEW n \in 1 .. PIPESIZE
  PROVE  /\ Buffered(d, r, n) # <<>>
         /\ Buffered(d, (r + 1) % UINT, n - 1) = Tail(Buffered(d, r, n))
<1>0. /\ n \in 0 .. PIPESIZE /\ n - 1 \in 0 .. PIPESIZE /\ UINT \in Nat /\ PIPESIZE \in Nat
      /\ 1 \in 0 .. UINT
  BY SizeAssumption
<1>1. PICK q : q = (r + 1) % UINT
  OBVIOUS
<1>2. q = IF r + 1 < UINT THEN r + 1 ELSE r + 1 - UINT
  BY <1>0, <1>1, AddIs, Zenon
<1>3. q \in 0 .. UINT - 1
  BY <1>0, <1>2
<1> DEFINE S == Buffered(d, r, n)
           T == Buffered(d, q, n - 1)
<1>4. /\ S \in Seq(Bytes) /\ Len(S) = n
      /\ \A k \in 1 .. n : S[k] = d[(r + (k - 1)) % PIPESIZE]
  BY <1>0, BufferedIs, Zenon
<1>5. /\ T \in Seq(Bytes) /\ Len(T) = n - 1
      /\ \A k \in 1 .. n - 1 : T[k] = d[(q + (k - 1)) % PIPESIZE]
  BY <1>0, <1>3, BufferedIs, Zenon
<1> HIDE DEF S, T
<1>6. S # <<>>
  BY <1>4, EmptySeq
<1>7. ASSUME NEW k \in 1 .. n - 1 PROVE T[k] = S[k + 1]
  <2>1. /\ r + k \in Nat /\ k + 1 \in 1 .. n /\ (k + 1) - 1 = k
        /\ q + (k - 1) = r + k \/ (r + k >= UINT /\ q + (k - 1) = r + k - UINT)
    BY <1>0, <1>2
  <2>2. (q + (k - 1)) % PIPESIZE = (r + k) % PIPESIZE
    <3>1. CASE q + (k - 1) = r + k
      BY <3>1, Zenon
    <3>2. CASE r + k >= UINT /\ q + (k - 1) = r + k - UINT
      <4>1. PICK a \in Nat : a = r + k /\ a >= UINT /\ q + (k - 1) = a - UINT
        BY <1>0, <1>3, <2>1, <3>2
      <4>2. (a - UINT) % PIPESIZE = a % PIPESIZE
        BY <4>1, SlotWraps, Zenon
      <4>3. (q + (k - 1)) % PIPESIZE = a % PIPESIZE
        BY <4>1, <4>2, Zenon
      <4> QED
        BY <4>1, <4>3, Zenon
    <3> QED
      BY <2>1, <3>1, <3>2, Zenon
  <2>3. T[k] = d[(r + k) % PIPESIZE]
    BY <1>5, <2>2, Zenon
  <2>4. S[k + 1] = d[(r + ((k + 1) - 1)) % PIPESIZE]
    BY <1>4, <2>1, Zenon
  <2> QED
    BY <2>1, <2>3, <2>4, Zenon
<1>8. /\ Tail(S) \in Seq(Bytes) /\ Len(Tail(S)) = n - 1
      /\ \A k \in 1 .. n - 1 : Tail(S)[k] = S[k + 1]
  <2>1. Tail(S) \in Seq(Bytes) /\ Len(Tail(S)) = Len(S) - 1
    BY <1>4, <1>6, HeadTailProperties
  <2>2. \A k \in 1 .. Len(Tail(S)) : Tail(S)[k] = S[k + 1]
    BY <1>4, <1>6, HeadTailProperties
  <2> QED
    BY <1>4, <2>1, <2>2, Zenon
<1>9. T = Tail(S)
  <2>1. Len(T) = Len(Tail(S)) /\ \A k \in 1 .. Len(T) : T[k] = Tail(S)[k]
    BY <1>5, <1>7, <1>8, Zenon
  <2> QED
    BY <1>5, <1>8, <2>1, SeqEqual, Zenon
<1> QED
  BY <1>1, <1>6, <1>9, Zenon DEF S, T

\* The pipe implements BytePipe: what pipewrite() puts in comes out of
\* piperead() once and in order, also across the wrap of the two counters.
THEOREM FifoTheorem == Spec => Fifo
<1>1. Init => Bytewise!PipeInit
  <2> SUFFICES ASSUME Init PROVE Bytewise!PipeInit
    OBVIOUS
  <2>1. Count = 0
    BY SizeAssumption DEF Init, Count
  <2>2. Queue \in Seq(Bytes) /\ Len(Queue) = 0
    <3>1. PipeInv
      BY PipeStart
    <3> QED
      BY <2>1, <3>1, BufferedIs, Zenon DEF PipeInv, TypeOK, Queue
  <2>3. Queue = <<>>
    BY <2>2, EmptySeq
  <2> QED
    BY <2>3 DEF Init, Bytewise!PipeInit
<1>2. ASSUME PipeInv, Next PROVE Bytewise!PipeNext \/ UNCHANGED Bytewise!pipeVars
  <2>0. /\ data \in [0 .. PIPESIZE - 1 -> Bytes] /\ Count \in 0 .. PIPESIZE
        /\ nread \in 0 .. UINT - 1 /\ nwrite \in 0 .. UINT - 1
        /\ Full <=> Count = PIPESIZE
        /\ Empty <=> Count = 0
    BY <1>2, Facts, Zenon DEF PipeInv, TypeOK
  <2>1. PICK p \in Procs :
          \/ \E q \in Procs : Fork(p, q)
          \/ \E n \in 0 .. MaxLen : Write(p, n) \/ Read(p, n)
          \/ \E s \in Sides : fileclose(p, s)
          \/ PipecloseWrite(p) \/ PipecloseRead(p)
          \/ kkill(p) \/ Acquire(p) \/ Locked(p)
    BY <1>2, Zenon DEF Next
  <2>2. ASSUME NEW b \in Bytes, WriteByte(p, b) PROVE Bytewise!Put(b)
    <3>1. /\ pc[p] = "wloop" /\ readopen /\ Count # PIPESIZE
          /\ data' = [data EXCEPT ![nwrite % PIPESIZE] = b]
          /\ nwrite' = (nwrite + 1) % UINT /\ UNCHANGED <<nread, readopen, writeopen>>
      BY <2>0, <2>2, Zenon DEF WriteByte, WriteSlot, Writing, Hopeless
    <3>2. writeopen
      BY <1>2, <3>1, Facts, Zenon DEF WritePCs
    <3>3. Count \in 0 .. PIPESIZE - 1 /\ Count < PIPESIZE
      BY <2>0, <3>1, SizeAssumption
    <3>4. Count' = Count + 1
      BY <2>0, <3>1, <3>3, Counting, Zenon DEF Count
    <3>5. Queue' = Buffered(data', nread, Count + 1)
      BY <3>1, <3>4 DEF Queue, Buffered
    <3>6. Queue' = Append(Queue, b)
      <4>1. /\ data \in [0 .. PIPESIZE - 1 -> Bytes]
            /\ nread \in 0 .. UINT - 1 /\ nwrite \in 0 .. UINT - 1
        BY <2>0
      <4>2. Buffered([data EXCEPT ![nwrite % PIPESIZE] = b], nread, Count + 1)
              = Append(Buffered(data, nread, Count), b)
        BY <4>1, <3>3, PutAppends, ZenonT(30) DEF Count
      <4> QED
        BY <3>1, <3>5, <4>2, Zenon DEF Queue
    <3>7. Len(Queue) < PIPESIZE
      BY <2>0, <3>3, BufferedIs, Zenon DEF Queue
    <3> QED
      BY <3>1, <3>2, <3>6, <3>7 DEF Bytewise!Put
  <2>3. ASSUME ReadByte(p) PROVE Bytewise!Get
    <3>1. /\ pc[p] = "rcopy" /\ Count # 0 /\ nread # nwrite
          /\ nread' = (nread + 1) % UINT /\ UNCHANGED <<data, nwrite, readopen, writeopen>>
      BY <2>0, <2>3, Zenon DEF ReadByte, Empty
    <3>2. readopen
      BY <1>2, <3>1, Facts, Zenon DEF ReadPCs
    <3>3. Count \in 1 .. PIPESIZE
      BY <2>0, <3>1, SizeAssumption
    <3>4. Count' = Count - 1
      BY <2>0, <3>1, Counting DEF Count
    <3>5. Queue' = Buffered(data, (nread + 1) % UINT, Count - 1)
      BY <3>1, <3>4 DEF Queue, Buffered
    <3>6. Queue # <<>> /\ Queue' = Tail(Queue)
      BY <2>0, <3>3, <3>5, GetTails, Zenon DEF Queue
    <3> QED
      BY <3>1, <3>2, <3>6 DEF Bytewise!Get
  <2>4. ASSUME UNCHANGED <<data, nread, nwrite>> PROVE Queue' = Queue
    BY <2>4 DEF Queue, Buffered, Count
  <2>5. ASSUME PipecloseWrite(p) PROVE Bytewise!CloseWrite
    <3>1. pc[p] = "close_w" /\ writeopen' = FALSE /\ UNCHANGED <<data, nread, nwrite, readopen>>
      BY <2>5 DEF PipecloseWrite
    <3>2. writeopen
      BY <1>2, <3>1 DEF PipeInv, EndsInv, Closing, Open, Sides
    <3> QED
      BY <2>4, <3>1, <3>2 DEF Bytewise!CloseWrite
  <2>6. ASSUME PipecloseRead(p) PROVE Bytewise!CloseRead
    <3>1. pc[p] = "close_r" /\ readopen' = FALSE /\ UNCHANGED <<data, nread, nwrite, writeopen>>
      BY <2>6 DEF PipecloseRead
    <3>2. readopen
      BY <1>2, <3>1 DEF PipeInv, EndsInv, Closing, Open, Sides
    <3> QED
      BY <2>4, <3>1, <3>2 DEF Bytewise!CloseRead
  <2>7. ASSUME UNCHANGED pipe PROVE UNCHANGED Bytewise!pipeVars
    BY <2>4, <2>7 DEF pipe, Bytewise!pipeVars
  <2>8. \/ \E b \in Bytes : WriteByte(p, b)
        \/ ReadByte(p) \/ PipecloseWrite(p) \/ PipecloseRead(p) \/ UNCHANGED pipe
    BY <2>1, Zenon DEF Fork, Write, Read, fileclose, kkill, Acquire, Locked, WriteFail, WriteFull,
                WriteSleep, WriteDone, ReadFail, ReadBlock, ReadSleep, ReadStart, ReadDone
  <2> QED
    BY <2>2, <2>3, <2>5, <2>6, <2>7, <2>8 DEF Bytewise!PipeNext
<1>3. UNCHANGED vars => UNCHANGED Bytewise!pipeVars
  BY DEF vars, pipe, Bytewise!pipeVars, Queue, Buffered, Count
<1> QED
  BY <1>1, <1>2, <1>3, PipeInvariant, PTL DEF Spec, Fifo, Bytewise!PipeSpec
=============================================================================
