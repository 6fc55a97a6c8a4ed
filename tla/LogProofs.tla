----------------------------- MODULE LogProofs -----------------------------
(***************************************************************************)
(* Proofs about the log, for any processes, blocks and log sizes: the      *)
(* invariant LogInv, what follows from it, and that the log implements     *)
(* AtomicDisk.                                                             *)
(***************************************************************************)
EXTENDS Log, FiniteSetTheorems, TLAPS

\* The time the provers are allowed for a step.
USE SMTT(30), ZenonT(30)

USE DEF Slots

(* Counting *)

\* The sets that the reservation of begin_op() counts are finite.
LEMMA CountFinite ==
  ASSUME TypeOK
  PROVE  /\ IsFiniteSet(Active) /\ Cardinality(Active) \in Nat
         /\ IsFiniteSet(Reserved) /\ Cardinality(Reserved) \in Nat
         /\ \A p \in Procs : IsFiniteSet(wrote[p]) /\ Cardinality(wrote[p]) \in Nat
<1>1. IsFiniteSet(Active)
  BY FS_Subset, LogAssumption DEF Active
<1>2. IsFiniteSet(0 .. MAXOPBLOCKS - 1)
  BY FS_Interval, LogAssumption
<1>3. IsFiniteSet(Procs \X (0 .. MAXOPBLOCKS - 1))
  BY <1>2, FS_Product, LogAssumption
<1>4. IsFiniteSet(Reserved)
  BY <1>3, FS_Subset DEF Reserved
<1>5. ASSUME NEW p \in Procs PROVE IsFiniteSet(wrote[p])
  <2>1. wrote[p] \in SUBSET Blocks
    BY DEF TypeOK
  <2> QED
    BY <2>1, FS_Subset, BlocksAssumption
<1> QED
  BY <1>1, <1>4, <1>5, FS_CardinalityType

\* What log_write() does when it does not panic, and it never does.
LEMMA LogWriteStep ==
  ASSUME LogInv, NEW p \in Procs, NEW b \in Blocks, NEW v \in Values, log_write(p, b, v)
  PROVE  /\ lh.n \in Slots /\ p \in Active
         /\ cache' = [cache EXCEPT ![b] = v]
         /\ pins' = IF b \in Logged(lh) THEN pins ELSE [pins EXCEPT ![b] = @ + 1]
         /\ wrote' = [wrote EXCEPT ![p] = @ \cup {b}]
         /\ b \in Logged(lh) => lh' = lh
         /\ b \notin Logged(lh) =>
              lh' = [n |-> lh.n + 1, block |-> [lh.block EXCEPT ![lh.n] = b]]
         /\ UNCHANGED <<home, logdata, head, outstanding, committing, pc, tail, boot, btail>>
<1>1. p \in Active /\ <<p, Cardinality(wrote[p])>> \in Reserved
  BY CountFinite, LogAssumption DEF log_write, Active, Reserved, LogInv
<1>2. Cardinality(Reserved) > 0 /\ Cardinality(Active) > 0
  BY <1>1, CountFinite, FS_EmptySet DEF LogInv
<1>3. ~(lh.n >= LOGBLOCKS \/ outstanding < 1) /\ lh.n \in Nat
  <2>1. lh.n + Cardinality(Reserved) <= LOGBLOCKS /\ outstanding = Cardinality(Active)
    BY DEF LogInv, RoomInv, WhoInv
  <2>2. lh.n \in Nat /\ LOGBLOCKS \in Nat
    BY LogAssumption DEF LogInv, TypeOK, Headers
  <2>3. Cardinality(Reserved) \in Nat /\ Cardinality(Active) \in Nat
    BY CountFinite DEF LogInv
  <2> QED
    BY <1>2, <2>1, <2>2, <2>3
<1>4. lh.n \in Slots
  BY <1>3, LogAssumption
<1> QED
  BY <1>1, <1>3, <1>4 DEF log_write, Pinned, disk

-----------------------------------------------------------------------------
(* Who is where *)

\* Every step keeps the counts of struct log, the single committer, and the
\* wakers of begin_op()'s sleepers; log_write() and end_op() do not panic.
LEMMA WhoStep ==
  ASSUME LogInv, Next
  PROVE  WhoInv'
<1> USE DEF LogInv
<1>0. /\ outstanding \in Nat /\ pc \in [Procs -> ProcPCs]
      /\ IsFiniteSet(Active) /\ Cardinality(Active) \in Nat
  BY CountFinite DEF TypeOK
<1>1. ASSUME NEW p \in Procs, begin_op(p) PROVE WhoInv'
  <2>1. Active' = Active \cup {p} /\ p \notin Active
    BY <1>0, <1>1 DEF begin_op, Goto, Active
  <2>2. Cardinality(Active') = Cardinality(Active) + 1
    BY <1>0, <2>1, FS_AddElement, Zenon
  <2>3. Committers = {} /\ Committers' = {}
    BY <1>0, <1>1 DEF begin_op, Goto, Committers, WhoInv, CommitPCs
  <2>4. NoPanic' /\ SleeperHasWaker' /\ boot' = "up"
    BY <1>0, <1>1 DEF begin_op, Goto, WhoInv, NoPanic, Panicked, SleeperHasWaker
  <2> QED
    BY <1>0, <1>1, <2>2, <2>3, <2>4 DEF begin_op, WhoInv
<1>2. ASSUME NEW p \in Procs, BeginSleep(p) PROVE WhoInv'
  <2>1. Active' = Active /\ Committers' = Committers
    BY <1>0, <1>2 DEF BeginSleep, Goto, Active, Committers, CommitPCs
  <2>2. NoPanic' /\ boot' = "up"
    BY <1>0, <1>2 DEF BeginSleep, Goto, WhoInv, NoPanic, Panicked
  <2>3. committing \/ outstanding > 0
    <3>1. CASE Active = {}
      <4>1. outstanding = 0
        BY <3>1, FS_EmptySet DEF WhoInv
      <4>2. ~committing => lh.n = 0
        BY <3>1, <1>2 DEF BeginSleep, RoomInv
      <4> QED
        BY <4>1, <4>2, <1>2, LogAssumption DEF BeginSleep, NoRoom
    <3>2. CASE Active # {}
      BY <3>2, <1>0, FS_EmptySet DEF WhoInv
    <3> QED
      BY <3>1, <3>2
  <2> QED
    BY <1>2, <2>1, <2>2, <2>3 DEF BeginSleep, log, WhoInv, SleeperHasWaker
<1>k. ASSUME NEW p \in Procs, kkill(p) PROVE WhoInv'
  <2>1. Active' = Active /\ Committers' = Committers /\ boot' = boot
    BY <1>0, <1>k DEF kkill, Goto, Active, Committers, CommitPCs
  <2>2. NoPanic' /\ SleeperHasWaker' /\ boot = "up"
    BY <1>0, <1>k DEF kkill, Goto, WhoInv, NoPanic, Panicked, SleeperHasWaker, log
  <2> QED
    BY <1>k, <2>1, <2>2 DEF kkill, log, WhoInv
<1>3. ASSUME NEW p \in Procs, NEW b \in Blocks, NEW v \in Values, log_write(p, b, v)
      PROVE  WhoInv' /\ pc' = pc
  <2>2. pc' = pc /\ outstanding' = outstanding /\ committing' = committing /\ boot' = boot
    BY <1>3, LogWriteStep
  <2> QED
    BY <2>2 DEF WhoInv, Active, Committers, NoPanic, Panicked, SleeperHasWaker
<1>4. ASSUME NEW p \in Procs, end_op(p) PROVE WhoInv'
  <2>1. p \in Active /\ ~committing /\ Committers = {} /\ boot = "up"
    BY <1>4 DEF end_op, Active, WhoInv
  <2>2. Active' = Active \ {p}
    BY <1>0, <1>4, <2>1 DEF end_op, Active, Goto, WakeAll, CommitStart
  <2>3. Cardinality(Active') = Cardinality(Active) - 1 /\ outstanding' = outstanding - 1
    BY <1>0, <1>4, <2>1, <2>2, FS_RemoveElement, Zenon DEF end_op
  <2>4. outstanding' = Cardinality(Active') /\ outstanding' \in Nat /\ boot' = "up"
    BY <2>3, <2>1, <1>4, <1>0, CountFinite, FS_EmptySet DEF WhoInv, end_op
  <2>5. NoPanic'
    BY <1>0, <1>4, <2>1 DEF end_op, Goto, WakeAll, WhoInv, NoPanic, Panicked, CommitStart
  <2>6. CASE LastOp(outstanding - 1)
    <3>1. committing' /\ Committers' = {p} /\ outstanding' = 0
      BY <1>0, <1>4, <2>1, <2>6 DEF end_op, Goto, Committers, CommitPCs, LastOp, CommitStart
    <3>2. Active' = {}
      BY <3>1, <2>4, <1>0, <2>2, FS_EmptySet, FS_RemoveElement
    <3> QED
      BY <3>1, <3>2, <2>4, <2>5 DEF WhoInv, SleeperHasWaker
  <2>7. CASE ~LastOp(outstanding - 1)
    <3>1. ~committing' /\ Committers' = {} /\ outstanding' > 0
      BY <1>0, <1>4, <2>1, <2>7, <2>4 DEF end_op, WakeAll, Committers, CommitPCs, LastOp
    <3> QED
      BY <3>1, <2>4, <2>5 DEF WhoInv, SleeperHasWaker
  <2> QED
    BY <2>6, <2>7
<1>5. ASSUME NEW p \in Procs, write_log(p) \/ write_head(p) \/ install_trans(p) \/ erase(p)
      PROVE  WhoInv'
  <2>1. /\ Active' = Active /\ Committers' = Committers /\ boot' = boot
        /\ committing' = committing /\ outstanding' = outstanding
        /\ pc[p] # "out"
    BY <1>0, <1>5, Zenon DEF write_log, write_head, install_trans, erase, log, Goto, Active,
                      Committers, CommitPCs
  <2>2. NoPanic' /\ SleeperHasWaker'
    BY <1>0, <1>5, <2>1, Zenon DEF write_log, write_head, install_trans, erase, Goto, WhoInv, NoPanic,
                            Panicked, SleeperHasWaker
  <2> QED
    BY <2>1, <2>2 DEF WhoInv
<1>6. ASSUME NEW p \in Procs, CommitDone(p) PROVE WhoInv'
  <2>1. Committers = {p} /\ Active = {} /\ boot = "up"
    BY <1>6 DEF CommitDone, Committers, CommitPCs, WhoInv
  <2>2. Active' = {} /\ Committers' = {} /\ committing' = FALSE
    BY <1>0, <1>6, <2>1 DEF CommitDone, WakeAll, Active, Committers, CommitPCs
  <2>3. NoPanic' /\ SleeperHasWaker'
    BY <1>0, <1>6 DEF CommitDone, WakeAll, WhoInv, NoPanic, Panicked, SleeperHasWaker
  <2> QED
    BY <1>6, <2>1, <2>2, <2>3 DEF CommitDone, WhoInv
<1>7. CASE Crash
  <2>1. Active' = {} /\ Committers' = {}
    BY <1>7 DEF Crash, PowerOn, Active, Committers, CommitPCs
  <2> QED
    BY <2>1, <1>7, FS_EmptySet DEF Crash, PowerOn, WhoInv, NoPanic, Panicked, SleeperHasWaker
<1>8. CASE Recovery \/ \E b \in Blocks : Recycle(b)
  <2>1. /\ pc' = pc /\ outstanding' = outstanding /\ committing' = committing
        /\ boot = "up" => boot' = "up"
    BY <1>8 DEF Recovery, read_head, RecoverInstall, RecoverErase, Recycle, procs, log
  <2> QED
    BY <2>1 DEF WhoInv, Active, Committers, NoPanic, Panicked, SleeperHasWaker
<1> QED
  BY <1>1, <1>2, <1>k, <1>3, <1>4, <1>5, <1>6, <1>7, <1>8 DEF Next, ProcStep, CommitStep
-----------------------------------------------------------------------------
(* Room in the log *)

\* Every step keeps what is logged and what is reserved within the log.
LEMMA RoomStep ==
  ASSUME LogInv, Next
  PROVE  RoomInv'
<1> USE DEF LogInv
<1>0. /\ outstanding \in Nat /\ pc \in [Procs -> ProcPCs] /\ lh.n \in Nat
      /\ IsFiniteSet(Active) /\ Cardinality(Active) \in Nat
      /\ IsFiniteSet(Reserved) /\ Cardinality(Reserved) \in Nat
      /\ LOGBLOCKS \in Nat /\ MAXOPBLOCKS \in Nat
      /\ wrote \in [Procs -> SUBSET Blocks]
  BY CountFinite, LogAssumption DEF TypeOK, Headers
<1>00. ASSUME Active' = Active, Reserved' = Reserved, wrote' = wrote, lh' = lh,
              boot' = boot, committing' = committing
       PROVE  RoomInv'
  BY <1>00 DEF RoomInv, Logged
<1>1. ASSUME NEW p \in Procs, begin_op(p) PROVE RoomInv'
  <2> DEFINE I == 0 .. MAXOPBLOCKS - 1
  <2>1. Active' = Active \cup {p} /\ p \notin Active /\ lh' = lh
    BY <1>0, <1>1 DEF begin_op, Goto, Active
  <2>2. IsFiniteSet(Active') /\ Cardinality(Active') = outstanding + 1
    BY <1>0, <2>1, FS_AddElement DEF WhoInv
  <2>3. IsFiniteSet(I) /\ Cardinality(I) = MAXOPBLOCKS
    BY LogAssumption, FS_Interval
  <2>4. /\ IsFiniteSet(Active' \X I)
        /\ Cardinality(Active' \X I) = (outstanding + 1) * MAXOPBLOCKS
    <3> HIDE DEF I
    <3>1. /\ IsFiniteSet(Active' \X I)
          /\ Cardinality(Active' \X I) = Cardinality(Active') * Cardinality(I)
      BY <2>2, <2>3, FS_Product, Zenon
    <3> QED
      BY <3>1, <2>2, <2>3, Zenon
  <2>5. Reserved' \in SUBSET (Active' \X I)
    BY DEF Reserved, Active
  <2>6. Cardinality(Reserved') <= (outstanding + 1) * MAXOPBLOCKS
        /\ Cardinality(Reserved') \in Nat
    BY <2>4, <2>5, FS_Subset, FS_CardinalityType
  <2>7. lh.n + (outstanding + 1) * MAXOPBLOCKS <= LOGBLOCKS
    BY <1>0, <1>1 DEF begin_op, NoRoom
  <2>8. lh'.n + Cardinality(Reserved') <= LOGBLOCKS
    BY <2>1, <2>6, <2>7, <1>0
  <2>9. \A q \in Active' : wrote'[q] \subseteq Logged(lh')
    BY <2>1, <1>0, <1>1 DEF begin_op, RoomInv, Active, Logged
  <2> QED
    BY <2>1, <2>8, <2>9 DEF RoomInv, Logged
<1>2. ASSUME NEW p \in Procs, BeginSleep(p) PROVE RoomInv'
  <2>1. Active' = Active /\ Reserved' = Reserved
    BY <1>0, <1>2 DEF BeginSleep, Goto, Active, Reserved
  <2> QED
    BY <2>1, <1>2, <1>00 DEF BeginSleep, log
<1>k. ASSUME NEW p \in Procs, kkill(p) PROVE RoomInv'
  <2>1. Active' = Active /\ Reserved' = Reserved
    BY <1>0, <1>k DEF kkill, Goto, Active, Reserved
  <2> QED
    BY <2>1, <1>k, <1>00 DEF kkill, log
<1>3. ASSUME NEW p \in Procs, NEW b \in Blocks, NEW v \in Values, log_write(p, b, v)
      PROVE  RoomInv'
  <2> DEFINE s == <<p, Cardinality(wrote[p])>>
  <2>1. /\ pc' = pc /\ boot' = boot /\ committing' = committing
        /\ wrote' = [wrote EXCEPT ![p] = @ \cup {b}] /\ p \in Active
        /\ lh' = IF b \in Logged(lh) THEN lh
                 ELSE [n |-> lh.n + 1, block |-> [lh.block EXCEPT ![lh.n] = b]]
        /\ lh.n < LOGBLOCKS
    <3>1. p \in Active /\ s \in Reserved
      BY <1>3, CountFinite, LogAssumption DEF log_write, Active, Reserved
    <3>2. Cardinality(Reserved) > 0 /\ Cardinality(Active) > 0
      BY <3>1, CountFinite, FS_EmptySet
    <3>3. ~(lh.n >= LOGBLOCKS \/ outstanding < 1)
      BY <3>2, <1>0 DEF RoomInv, WhoInv
    <3> QED
      BY <3>1, <3>3, <1>0, <1>3 DEF log_write
  <2>2. Active' = Active
    BY <2>1 DEF Active
  <2>3. b \in Logged(lh') /\ Logged(lh) \subseteq Logged(lh')
    <3>1. CASE b \in Logged(lh)
      BY <3>1, <2>1
    <3>2. CASE b \notin Logged(lh)
      <4>1. lh'.n = lh.n + 1 /\ lh'.block = [lh.block EXCEPT ![lh.n] = b]
        BY <3>2, <2>1
      <4>2. lh.block \in [Slots -> Blocks] /\ lh.n \in Slots
        BY <2>1, <1>0 DEF TypeOK, Headers
      <4>3. lh'.block[lh.n] = b /\ \A i \in 0 .. lh.n - 1 : lh'.block[i] = lh.block[i]
        BY <4>1, <4>2, <1>0
      <4> QED
        BY <4>1, <4>3, <1>0 DEF Logged
    <3> QED
      BY <3>1, <3>2
  <2>4. \A q \in Active' : wrote'[q] \subseteq Logged(lh')
    BY <2>1, <2>2, <2>3, <1>0 DEF RoomInv, Active
  <2>5. IsFiniteSet(wrote[p]) /\ Cardinality(wrote[p]) \in Nat
    BY CountFinite
  <2>6. Cardinality(wrote'[p]) = IF b \in wrote[p] THEN Cardinality(wrote[p])
                                 ELSE Cardinality(wrote[p]) + 1
    <3>1. wrote'[p] = wrote[p] \cup {b}
      BY <2>1, <1>0
    <3> QED
      BY <3>1, <2>5, FS_AddElement, Zenon
  <2>7. Reserved' \in SUBSET Reserved
    <3>1. ASSUME NEW t \in Procs \X (0 .. MAXOPBLOCKS - 1),
                 pc'[t[1]] = "op", t[2] >= Cardinality(wrote'[t[1]])
          PROVE  pc[t[1]] = "op" /\ t[2] >= Cardinality(wrote[t[1]])
      <4>1. CASE t[1] = p
        BY <4>1, <3>1, <2>1, <2>5, <2>6, <1>0
      <4>2. CASE t[1] # p
        BY <4>2, <3>1, <2>1, <1>0
      <4> QED
        BY <4>1, <4>2
    <3> QED
      BY <3>1 DEF Reserved
  <2>8. Cardinality(Reserved') \in Nat /\ Cardinality(Reserved') <= Cardinality(Reserved)
    BY <2>7, <1>0, FS_Subset, FS_CardinalityType
  <2>9. lh'.n + Cardinality(Reserved') <= LOGBLOCKS
    <3>1. CASE b \in Logged(lh)
      BY <3>1, <2>1, <2>8, <1>0 DEF RoomInv
    <3>2. CASE b \notin Logged(lh)
      <4>1. b \notin wrote[p]
        BY <3>2, <2>1 DEF RoomInv
      <4>2. s \in Reserved
        BY <1>3, <2>5, <1>0 DEF log_write, Reserved
      <4>3. s \notin Reserved'
        BY <4>1, <2>5, <2>6 DEF Reserved
      <4>4. Reserved' \in SUBSET (Reserved \ {s})
        BY <4>3, <2>7
      <4> HIDE DEF s
      <4>5. IsFiniteSet(Reserved \ {s}) /\ Cardinality(Reserved \ {s}) = Cardinality(Reserved) - 1
        BY <4>2, <1>0, FS_RemoveElement
      <4>6. Cardinality(Reserved') <= Cardinality(Reserved) - 1
        BY <4>4, <4>5, FS_Subset
      <4> QED
        BY <4>6, <3>2, <2>1, <2>8, <1>0 DEF RoomInv
    <3> QED
      BY <3>1, <3>2
  <2> QED
    BY <2>1, <2>2, <2>4, <2>9 DEF RoomInv
<1>4. ASSUME NEW p \in Procs, end_op(p) PROVE RoomInv'
  <2>1. p \in Active /\ ~committing /\ lh' = lh /\ boot' = boot
    BY <1>4 DEF end_op, Active, WhoInv
  <2>2. Active' = Active \ {p} /\ \A q \in Active' : wrote'[q] = wrote[q]
    BY <1>0, <1>4, <2>1 DEF end_op, Active, Goto, WakeAll, CommitStart
  <2>3. Reserved' \in SUBSET Reserved
    BY <2>2 DEF Reserved, Active
  <2>4. Cardinality(Reserved') \in Nat /\ Cardinality(Reserved') <= Cardinality(Reserved)
    BY <2>3, <1>0, FS_Subset, FS_CardinalityType
  <2>5. Active' = {} => committing'
    <3>1. ASSUME Active' = {} PROVE outstanding - 1 = 0
      <4>1. Active = {p}
        BY <3>1, <2>1, <2>2
      <4>2. Cardinality(Active) = 1
        BY <4>1, FS_Singleton
      <4> QED
        BY <4>2 DEF WhoInv
    <3> QED
      BY <3>1, <1>4, <2>1 DEF end_op, LastOp
  <2> QED
    BY <2>1, <2>2, <2>4, <2>5, <1>0 DEF RoomInv, Logged
<1>5. ASSUME NEW p \in Procs, write_log(p) \/ write_head(p) \/ install_trans(p)
      PROVE  RoomInv'
  <2>1. Active' = Active /\ Reserved' = Reserved
    BY <1>0, <1>5, Zenon DEF write_log, write_head, install_trans, Goto, Active, Reserved
  <2> QED
    BY <2>1, <1>5, <1>00, Zenon DEF write_log, write_head, install_trans, log
<1>6. ASSUME NEW p \in Procs, erase(p) PROVE RoomInv'
  <2>1. Active' = Active /\ Reserved' = Reserved /\ Active = {}
    BY <1>0, <1>6 DEF erase, Goto, Active, Reserved, WhoInv, Committers, CommitPCs
  <2> QED
    BY <2>1, <1>6, <1>0 DEF erase, RoomInv, NoHeader
<1>7. ASSUME NEW p \in Procs, CommitDone(p) PROVE RoomInv'
  <2>1. Active' = Active /\ Reserved' = Reserved /\ lh.n = 0
    BY <1>0, <1>7, Zenon DEF CommitDone, WakeAll, Active, Reserved, DataInv, CommitInv
  <2> QED
    BY <2>1, <1>7 DEF CommitDone, RoomInv, Logged
<1>8. CASE Crash
  <2>1. Active' = {} /\ Reserved' = {} /\ lh' = NoHeader /\ boot' = "read_head"
    BY <1>8 DEF Crash, PowerOn, Active, Reserved
  <2> QED
    BY <2>1, FS_EmptySet, <1>0 DEF RoomInv, NoHeader
<1>9. CASE Recovery
  <2>1. Active = {} /\ Active' = {} /\ Reserved' = {} /\ Reserved = {}
    BY <1>9 DEF Recovery, read_head, RecoverInstall, RecoverErase, procs, WhoInv, Active,
                Reserved
  <2>2. lh'.n \in 0 .. LOGBLOCKS /\ (boot' = "up" => lh'.n = 0)
    BY <1>9, <1>0 DEF Recovery, read_head, RecoverInstall, RecoverErase, log, TypeOK, Headers,
                      NoHeader
  <2> QED
    BY <2>1, <2>2, FS_EmptySet, <1>0 DEF RoomInv
<1>10. ASSUME NEW b \in Blocks, Recycle(b) PROVE RoomInv'
  BY <1>10, <1>00 DEF Recycle, log, procs, Active, Reserved
<1> QED
  BY <1>1, <1>2, <1>k, <1>3, <1>4, <1>5, <1>6, <1>7, <1>8, <1>9, <1>10
     DEF Next, ProcStep, CommitStep
-----------------------------------------------------------------------------
(* Types *)

\* Headers are headers.
LEMMA HeaderType ==
  NoHeader \in Headers /\ NoHeader.n = 0 /\ Logged(NoHeader) = {} /\ Distinct(NoHeader)
<1>1. NoHeader.n = 0
  BY DEF NoHeader
<1>2. (CHOOSE b \in Blocks : TRUE) \in Blocks
  BY BlocksAssumption
<1> QED
  BY <1>1, <1>2, LogAssumption DEF NoHeader, Headers, Logged, Distinct, Entries

\* Every step keeps the types.
LEMMA TypeStep ==
  ASSUME LogInv, Next
  PROVE  TypeOK'
<1> USE DEF LogInv
<1>0. TypeOK /\ LOGBLOCKS \in Nat
  BY LogAssumption
<1>1. ASSUME NEW p \in Procs, begin_op(p) PROVE TypeOK'
  BY <1>0, <1>1 DEF begin_op, Goto, TypeOK, disk, buffers, ProcPCs
<1>2. ASSUME NEW p \in Procs, BeginSleep(p) PROVE TypeOK'
  BY <1>0, <1>2 DEF BeginSleep, Goto, TypeOK, disk, buffers, log, ProcPCs
<1>k. ASSUME NEW p \in Procs, kkill(p) PROVE TypeOK'
  BY <1>0, <1>k DEF kkill, Goto, TypeOK, disk, buffers, log, ProcPCs
<1>3. ASSUME NEW p \in Procs, NEW b \in Blocks, NEW v \in Values, log_write(p, b, v)
      PROVE  TypeOK'
  <2>1. /\ lh.n \in Slots
        /\ cache' = [cache EXCEPT ![b] = v]
        /\ pins' = IF b \in Logged(lh) THEN pins ELSE [pins EXCEPT ![b] = @ + 1]
        /\ wrote' = [wrote EXCEPT ![p] = @ \cup {b}]
        /\ b \in Logged(lh) => lh' = lh
        /\ b \notin Logged(lh) =>
             lh' = [n |-> lh.n + 1, block |-> [lh.block EXCEPT ![lh.n] = b]]
        /\ UNCHANGED <<home, logdata, head, outstanding, committing, pc, tail, boot, btail>>
    BY <1>3, LogWriteStep
  <2>2. lh' \in Headers
    <3>1. [lh.block EXCEPT ![lh.n] = b] \in [Slots -> Blocks]
      BY <1>0, Zenon DEF TypeOK, Headers
    <3>2. lh.n + 1 \in 0 .. LOGBLOCKS
      BY <2>1, <1>0
    <3>3. lh \in Headers
      BY <1>0 DEF TypeOK
    <3>4. CASE b \in Logged(lh)
      BY <3>3, <3>4, <2>1
    <3>5. CASE b \notin Logged(lh)
      <4> DEFINE x == [lh.block EXCEPT ![lh.n] = b]
      <4>1. lh' = [n |-> lh.n + 1, block |-> x] /\ x \in [Slots -> Blocks]
        BY <3>1, <3>5, <2>1
      <4> HIDE DEF x
      <4> QED
        BY <4>1, <3>2 DEF Headers
    <3> QED
      BY <3>4, <3>5
  <2>3. cache' \in [Blocks -> Values] /\ pins' \in [Blocks -> Nat]
    BY <1>0, <2>1 DEF TypeOK
  <2> QED
    BY <2>1, <2>2, <2>3, <1>0, Zenon DEF TypeOK
<1>4. ASSUME NEW p \in Procs, end_op(p) PROVE TypeOK'
  <2>1. outstanding' \in Nat
    <3>1. p \in Active
      BY <1>4 DEF end_op, Active
    <3>2. Cardinality(Active) # 0
      BY <3>1, CountFinite, FS_EmptySet
    <3> QED
      BY <3>2, <1>4, <1>0 DEF end_op, TypeOK, WhoInv
  <2>2. committing' \in BOOLEAN /\ tail' \in [Procs -> 0 .. LOGBLOCKS]
    <3>1. committing \in BOOLEAN /\ tail \in [Procs -> 0 .. LOGBLOCKS] /\ 0 \in 0 .. LOGBLOCKS
      BY <1>0 DEF TypeOK
    <3>2. \/ committing' = committing /\ tail' = tail
          \/ committing' = TRUE /\ tail' = [tail EXCEPT ![p] = 0]
      BY <1>4 DEF end_op
    <3>3. committing' \in BOOLEAN
      BY <3>1, <3>2, Zenon
    <3>4. tail' \in [Procs -> 0 .. LOGBLOCKS]
      BY <3>1, <3>2
    <3> QED
      BY <3>3, <3>4
  <2>3. pc' \in [Procs -> ProcPCs]
    <3>1. pc \in [Procs -> ProcPCs]
      BY <1>0 DEF TypeOK
    <3>2. CASE Goto(p, "panic") \/ Goto(p, CommitStart)
      BY <3>1, <3>2 DEF Goto, CommitStart, ProcPCs, CommitPCs
    <3>3. CASE WakeAll(p, "out")
      BY <3>1, <3>3 DEF WakeAll, ProcPCs
    <3> QED
      BY <1>4, <3>2, <3>3 DEF end_op
  <2> QED
    BY <2>1, <2>2, <2>3, <1>0, <1>4, Zenon DEF end_op, TypeOK, disk, buffers
<1>5. ASSUME NEW p \in Procs, write_log(p) PROVE TypeOK'
  <2>1. tail[p] \in Slots /\ tail[p] + 1 \in 0 .. LOGBLOCKS /\ lh.block[tail[p]] \in Blocks
    <3>1. tail[p] < lh.n
      BY <1>5, Zenon DEF write_log, DataInv, CommitInv
    <3>2. tail[p] \in Nat /\ lh.n \in 0 .. LOGBLOCKS /\ lh.block \in [Slots -> Blocks]
      BY <1>0 DEF TypeOK, Headers
    <3> QED
      BY <3>1, <3>2, <1>0
  <2>2. logdata' \in [Slots -> Values] /\ tail' \in [Procs -> 0 .. LOGBLOCKS]
    BY <1>0, <1>5, <2>1, Zenon DEF write_log, TypeOK
  <2> QED
    BY <2>2, <1>0, <1>5, Zenon DEF write_log, Goto, TypeOK, buffers, log, ProcPCs, CommitPCs
<1>6. ASSUME NEW p \in Procs, write_head(p) PROVE TypeOK'
  BY <1>0, <1>6 DEF write_head, Goto, TypeOK, buffers, log, ProcPCs, CommitPCs
<1>7. ASSUME NEW p \in Procs, install_trans(p) PROVE TypeOK'
  <2> DEFINE b == lh.block[tail[p]]
  <2>1. tail[p] \in Slots /\ tail[p] + 1 \in 0 .. LOGBLOCKS /\ b \in Blocks /\ pins[b] = 1
    <3>1. head = lh /\ tail[p] < lh.n /\ PinnedFrom(tail[p])
      BY <1>7, Zenon DEF install_trans, DataInv, CommitInv
    <3>2. tail[p] \in Entries(lh) /\ tail[p] \in Nat
      BY <3>1, <1>0 DEF Entries, TypeOK, Headers
    <3>3. pins[b] = 1
      BY <3>1, <3>2 DEF PinnedFrom
    <3>4. lh.n \in 0 .. LOGBLOCKS /\ lh.block \in [Slots -> Blocks]
      BY <1>0, Zenon DEF TypeOK, Headers
    <3> QED
      BY <3>2, <3>3, <3>4, LogAssumption DEF Entries, Slots
  <2>2. logdata[tail[p]] \in Values
    BY <2>1, <1>0 DEF TypeOK
  <2>3. /\ cache' = [cache EXCEPT ![b] = logdata[tail[p]]]
        /\ home' = [home EXCEPT ![b] = logdata[tail[p]]]
        /\ pins' = [pins EXCEPT ![b] = @ - 1]
        /\ tail' = [tail EXCEPT ![p] = tail[p] + 1]
    BY <1>7, Zenon DEF install_trans
  <2>4. /\ cache' \in [Blocks -> Values] /\ home' \in [Blocks -> Values]
        /\ pins' \in [Blocks -> Nat] /\ tail' \in [Procs -> 0 .. LOGBLOCKS]
    <3> HIDE DEF b
    <3> QED
      BY <2>1, <2>2, <2>3, <1>0 DEF TypeOK
  <2> QED
    BY <2>4, <1>0, <1>7, Zenon DEF install_trans, Goto, TypeOK, log, ProcPCs, CommitPCs
<1>8. ASSUME NEW p \in Procs, erase(p) PROVE TypeOK'
  BY <1>0, <1>8, HeaderType DEF erase, Goto, TypeOK, buffers, ProcPCs, CommitPCs
<1>9. ASSUME NEW p \in Procs, CommitDone(p) PROVE TypeOK'
  BY <1>0, <1>9, Zenon DEF CommitDone, WakeAll, TypeOK, disk, buffers, ProcPCs, CommitPCs
<1>10. ASSUME NEW b \in Blocks, Recycle(b) PROVE TypeOK'
  BY <1>0, <1>10 DEF Recycle, TypeOK, disk, log, procs
<1>11. CASE Crash
  <2>1. UNCHANGED <<home, logdata, head>> /\ cache' = home /\ PowerOn
    BY <1>11 DEF Crash, disk
  <2>2. pins' \in [Blocks -> Nat] /\ lh' \in Headers /\ outstanding' \in Nat
    BY <2>1, HeaderType DEF PowerOn
  <2>3. pc' \in [Procs -> ProcPCs] /\ tail' \in [Procs -> 0 .. LOGBLOCKS]
    BY <2>1, <1>0 DEF PowerOn, ProcPCs
  <2>4. wrote' \in [Procs -> SUBSET Blocks] /\ committing' \in BOOLEAN
    BY <2>1, Zenon DEF PowerOn
  <2>5. boot' \in BootPCs /\ btail' \in 0 .. LOGBLOCKS
    BY <2>1, <1>0 DEF PowerOn, BootPCs
  <2> QED
    BY <2>1, <2>2, <2>3, <2>4, <2>5, <1>0 DEF TypeOK
<1>12. CASE read_head
  BY <1>0, <1>12 DEF read_head, TypeOK, disk, buffers, procs, BootPCs
<1>13. CASE RecoverInstall
  <2> DEFINE b == lh.block[btail]
  <2>1. btail \in Slots /\ btail + 1 \in 0 .. LOGBLOCKS /\ b \in Blocks
    BY <1>0, <1>13 DEF RecoverInstall, DataInv, BootInv, TypeOK, Headers
  <2>2. /\ cache' = [cache EXCEPT ![b] = logdata[btail]]
        /\ home' = [home EXCEPT ![b] = logdata[btail]]
    BY <1>13, Zenon DEF RecoverInstall
  <2>3. cache' \in [Blocks -> Values] /\ home' \in [Blocks -> Values]
    <3> HIDE DEF b
    <3> QED
      BY <2>1, <2>2, <1>0 DEF TypeOK
  <2> QED
    BY <2>1, <2>3, <1>0, <1>13, Zenon DEF RecoverInstall, TypeOK, log, procs, BootPCs
<1>14. CASE RecoverErase
  BY <1>0, <1>14, HeaderType DEF RecoverErase, TypeOK, buffers, procs, BootPCs
<1> QED
  BY <1>1, <1>2, <1>k, <1>3, <1>4, <1>5, <1>6, <1>7, <1>8, <1>9, <1>10, <1>11, <1>12, <1>13, <1>14
     DEF Next, ProcStep, CommitStep, Recovery
-----------------------------------------------------------------------------
(* Data *)

\* What appending a new block to a header does.
Appended(h, g, b) ==
  /\ g.block[h.n] = b
  /\ \A i \in 0 .. h.n - 1 : g.block[i] = h.block[i] /\ h.block[i] \in Blocks \ {b}
  /\ Logged(g) = Logged(h) \cup {b}
  /\ Distinct(h) => Distinct(g)

LEMMA AppendBlock ==
  ASSUME NEW h, NEW g, NEW b \in Blocks,
         h.n \in Slots, h.block \in [Slots -> Blocks], b \notin Logged(h),
         g.n = h.n + 1, g.block = [h.block EXCEPT ![h.n] = b]
  PROVE  Appended(h, g, b)
<1> DEFINE n == h.n
           f == h.block
           k == g.block
<1>1. /\ n \in Nat /\ n \in Slots /\ f \in [Slots -> Blocks] /\ k = [f EXCEPT ![n] = b]
      /\ \A i \in 0 .. n - 1 : f[i] # b
  BY LogAssumption DEF Logged
<1>2. Logged(h) = {f[i] : i \in 0 .. n - 1} /\ Logged(g) = {k[i] : i \in 0 .. n}
  BY <1>1 DEF Logged
<1>3. /\ Distinct(h) <=> \A i, j \in 0 .. n - 1 : f[i] = f[j] => i = j
      /\ Distinct(g) <=> \A i, j \in 0 .. n : k[i] = k[j] => i = j
  BY <1>1 DEF Distinct, Entries
<1> HIDE DEF n, f, k
<1>4. k[n] = b /\ \A i \in 0 .. n - 1 : k[i] = f[i] /\ f[i] \in Blocks \ {b}
  BY <1>1, LogAssumption
<1>5. Logged(g) = Logged(h) \cup {b}
  <2>1. \A i \in 0 .. n : i = n \/ i \in 0 .. n - 1
    BY <1>1
  <2>2. n \in 0 .. n /\ \A i \in 0 .. n - 1 : i \in 0 .. n
    BY <1>1
  <2> QED
    BY <1>2, <1>4, <2>1, <2>2
<1>6. Distinct(h) => Distinct(g)
  BY <1>1, <1>3, <1>4
<1> QED
  BY <1>4, <1>5, <1>6 DEF n, f, k, Appended

\* A step that touches neither the data nor the process that commits.
LEMMA DataFrame ==
  ASSUME DataInv,
         UNCHANGED <<home, logdata, head, cache, pins, lh, boot, btail>>,
         \A q \in Committers' : pc'[q] = pc[q] /\ tail'[q] = tail[q],
         Committers' = {} => Committers = {}
  PROVE  DataInv'
<1>1. ASSUME NEW q \in Procs PROVE CommitInv(q)'
  <2>1. CASE q \in Committers'
    <3>1. CommitInv(q) /\ pc'[q] = pc[q] /\ tail'[q] = tail[q]
      BY <2>1, Zenon DEF DataInv
    <3> QED
      BY <3>1, Zenon DEF CommitInv, InLog, PinnedFrom, Entries
  <2>2. CASE q \notin Committers'
    BY <2>2 DEF CommitInv, Committers, CommitPCs
  <2> QED
    BY <2>1, <2>2
<1>2. Distinct(lh)' /\ Distinct(head)'
  BY DEF DataInv, Distinct, Entries
<1>3. CleanOutside'
  BY DEF DataInv, CleanOutside, Logged
<1>4. PinnedFrom(0) => PinnedFrom(0)'
  BY DEF PinnedFrom, Entries
<1>5. BootInv'
  BY Zenon DEF DataInv, BootInv, InHome
<1> QED
  BY <1>1, <1>2, <1>3, <1>4, <1>5 DEF DataInv

\* What the invariant says of the process that commits.
LEMMA TheCommitter ==
  ASSUME LogInv, NEW p \in Procs, pc[p] \in CommitPCs
  PROVE  /\ p \in Committers /\ boot = "up" /\ CommitInv(p)
         /\ \A q \in Procs \ {p} : pc[q] \notin CommitPCs
         /\ Distinct(lh) /\ Distinct(head) /\ CleanOutside
<1>1. p \in Committers /\ \A q \in Procs \ {p} : pc[q] \notin CommitPCs
  BY DEF LogInv, WhoInv, Committers
<1>2. boot = "up"
  BY DEF LogInv, WhoInv, CommitPCs
<1> QED
  BY <1>1, <1>2 DEF LogInv, DataInv

\* A step of commit() to another point of it.
LEMMA CommitMoves ==
  ASSUME LogInv, NEW p \in Procs, pc[p] \in CommitPCs,
         NEW where \in CommitPCs, pc' = [pc EXCEPT ![p] = where], boot' = boot,
         Distinct(lh)', Distinct(head)', CleanOutside', CommitInv(p)'
  PROVE  DataInv'
<1>1. pc \in [Procs -> ProcPCs]
  BY DEF LogInv, TypeOK
<1>2. boot = "up" /\ \A q \in Procs \ {p} : pc'[q] \notin CommitPCs
  BY <1>1, TheCommitter
<1>3. p \in Committers'
  BY <1>1 DEF Committers
<1>4. \A q \in Procs : CommitInv(q)'
  BY <1>2, Zenon DEF CommitInv, CommitPCs
<1>5. BootInv'
  BY <1>2 DEF BootInv
<1> QED
  BY <1>3, <1>4, <1>5 DEF DataInv

\* Every step keeps the disk, the log and the cache related as commit() and
\* recovery need them.
LEMMA DataStep ==
  ASSUME LogInv, Next
  PROVE  DataInv'
<1> USE DEF LogInv
<1>0. /\ pc \in [Procs -> ProcPCs] /\ tail \in [Procs -> 0 .. LOGBLOCKS]
      /\ lh.n \in 0 .. LOGBLOCKS /\ lh.block \in [Slots -> Blocks] /\ LOGBLOCKS \in Nat
      /\ home \in [Blocks -> Values] /\ cache \in [Blocks -> Values]
      /\ pins \in [Blocks -> Nat] /\ logdata \in [Slots -> Values]
      /\ head.n \in 0 .. LOGBLOCKS
  BY LogAssumption DEF TypeOK, Headers
<1>n. lh.n \in Nat /\ LOGBLOCKS \in Nat /\ lh.n <= LOGBLOCKS /\ head.n \in Nat
  BY LogAssumption DEF TypeOK, Headers
<1>e. \A i \in Entries(lh) : i \in Nat /\ i < lh.n /\ i \in Slots /\ lh.block[i] \in Blocks
  <2>1. \A i \in Entries(lh) : i \in Nat /\ i < lh.n /\ i \in Slots
    BY <1>n DEF Entries
  <2>2. lh.block \in [Slots -> Blocks]
    BY DEF TypeOK, Headers
  <2> QED
    BY <2>1, <2>2, Zenon
<1>1. ASSUME NEW p \in Procs, begin_op(p) PROVE DataInv'
  <2>1. Committers = {} /\ Committers' = {}
    BY <1>0, <1>1, Zenon DEF begin_op, Goto, Committers, WhoInv, CommitPCs
  <2> QED
    BY <2>1, <1>1, DataFrame, Zenon DEF begin_op, disk, buffers
<1>2. ASSUME NEW p \in Procs, BeginSleep(p) PROVE DataInv'
  <2>1. Committers' = Committers /\ \A q \in Committers' : pc'[q] = pc[q]
    BY <1>0, <1>2 DEF BeginSleep, Goto, Committers, CommitPCs
  <2> QED
    BY <2>1, <1>2, DataFrame, Zenon DEF BeginSleep, disk, buffers, log
<1>k. ASSUME NEW p \in Procs, kkill(p) PROVE DataInv'
  <2>1. Committers' = Committers /\ \A q \in Committers' : pc'[q] = pc[q]
    BY <1>0, <1>k, Zenon DEF kkill, Goto, Committers, CommitPCs
  <2> QED
    BY <2>1, <1>k, DataFrame DEF kkill, disk, buffers, log
<1>3. ASSUME NEW p \in Procs, NEW b \in Blocks, NEW v \in Values, log_write(p, b, v)
      PROVE  DataInv'
  <2>1. /\ lh.n \in Slots /\ p \in Active
        /\ cache' = [cache EXCEPT ![b] = v]
        /\ pins' = IF b \in Logged(lh) THEN pins ELSE [pins EXCEPT ![b] = @ + 1]
        /\ b \in Logged(lh) => lh' = lh
        /\ b \notin Logged(lh) =>
             lh' = [n |-> lh.n + 1, block |-> [lh.block EXCEPT ![lh.n] = b]]
        /\ UNCHANGED <<home, logdata, head, pc, tail, boot, btail>>
    BY <1>3, LogWriteStep
  <2>2. Committers = {} /\ Committers' = {} /\ boot = "up" /\ boot' = "up"
    BY <2>1, Zenon DEF WhoInv, Committers, Active
  <2>3. head' = NoHeader /\ PinnedFrom(0) /\ CleanOutside /\ Distinct(lh) /\ Distinct(head)'
    BY <2>1, <2>2, Zenon DEF DataInv, Distinct, Entries
  <2>4. Distinct(lh)' /\ CleanOutside' /\ PinnedFrom(0)'
    <3>1. CASE b \in Logged(lh)
      <4>1. lh' = lh /\ pins' = pins /\ \A c \in Blocks \ Logged(lh) : cache'[c] = cache[c]
        BY <3>1, <2>1, <1>0, Zenon
      <4>2. Distinct(lh)'
        BY <4>1, <2>3, Zenon DEF Distinct, Entries
      <4>3. CleanOutside'
        <5>1. Logged(lh)' = Logged(lh)
          BY <4>1, Zenon DEF Logged
        <5> QED
          BY <4>1, <5>1, <2>1, <2>3 DEF CleanOutside
      <4>4. PinnedFrom(0)'
        BY <4>1, <2>3, <1>n DEF PinnedFrom, Entries
      <4> QED
        BY <4>2, <4>3, <4>4
    <3>2. CASE b \notin Logged(lh)
      <4>1. lh'.n = lh.n + 1 /\ lh'.block = [lh.block EXCEPT ![lh.n] = b]
        BY <3>2, <2>1
      <4>2. /\ lh'.block[lh.n] = b
            /\ \A i \in 0 .. lh.n - 1 :
                 lh'.block[i] = lh.block[i] /\ lh.block[i] \in Blocks \ {b}
            /\ Logged(lh') = Logged(lh) \cup {b}
            /\ Distinct(lh')
        <5>1. lh.n \in Slots /\ lh.block \in [Slots -> Blocks] /\ Distinct(lh)
          BY <2>1, <2>3, <1>0, Zenon
        <5>2. Appended(lh, lh', b)
          BY <4>1, <5>1, <3>2, AppendBlock, Zenon
        <5> QED
          BY <5>1, <5>2, Zenon DEF Appended
      <4>4. pins[b] = 0 /\ pins'[b] = 1 /\ \A c \in Blocks \ {b} : pins'[c] = pins[c]
        <5>1. pins[b] = 0
          BY <3>2, <2>3 DEF CleanOutside
        <5> QED
          BY <5>1, <3>2, <2>1, <1>0
      <4>5. Distinct(lh)'
        BY <4>2, Zenon DEF Distinct, Entries
      <4>6. b \in Logged(lh)' /\ Logged(lh) \subseteq Logged(lh)'
        BY <4>2
      <4>7. CleanOutside'
        BY <4>4, <4>6, <2>1, <2>3, <1>0, Zenon DEF CleanOutside
      <4>8. PinnedFrom(0)'
        <5> SUFFICES ASSUME NEW i \in 0 .. lh.n PROVE pins'[lh'.block[i]] = 1
          BY <4>1, <1>n DEF PinnedFrom, Entries
        <5>1. CASE i < lh.n
          <6>1. i \in 0 .. lh.n - 1
            BY <5>1, <1>n
          <6>2. pins[lh.block[i]] = 1
            BY <6>1, <2>3, <1>n DEF PinnedFrom, Entries
          <6> QED
            BY <6>1, <6>2, <4>2, <4>4
        <5>2. CASE i = lh.n
          BY <5>2, <4>2, <4>4
        <5> QED
          BY <5>1, <5>2, <1>n
      <4> QED
        BY <4>5, <4>7, <4>8
    <3> QED
      BY <3>1, <3>2
  <2>5. \A q \in Procs : CommitInv(q)'
    BY <2>2, Zenon DEF CommitInv, Committers, CommitPCs
  <2> QED
    BY <2>2, <2>3, <2>4, <2>5, Zenon DEF DataInv, BootInv
<1>4. ASSUME NEW p \in Procs, end_op(p) PROVE DataInv'
  <2>1. p \in Active /\ ~committing /\ Committers = {} /\ boot = "up"
    BY <1>4 DEF end_op, Active, WhoInv
  <2>2. UNCHANGED <<home, logdata, head, cache, pins, lh, boot, btail>>
    BY <1>4 DEF end_op, disk, buffers
  <2>3. CASE LastOp(outstanding - 1)
    <3>1. pc' = [pc EXCEPT ![p] = CommitStart] /\ tail'[p] = 0
      BY <1>0, <1>4, <2>1, <2>3, Zenon DEF end_op, Goto
    <3>2. Committers' = {p}
      BY <3>1, <2>1, <1>0, Zenon DEF Committers, CommitPCs, CommitStart
    <3>3. CommitInv(p)'
      <4>1. head' = NoHeader /\ PinnedFrom(0)'
        BY <2>1, <2>2, Zenon DEF DataInv, PinnedFrom, Entries
      <4>2. InLog(0)'
        BY DEF InLog
      <4> QED
        BY <3>1, <4>1, <4>2, <2>2, <1>0 DEF CommitInv, CommitStart, InLog
    <3>4. \A q \in Procs \ {p} : CommitInv(q)'
      BY <3>2, Zenon DEF CommitInv, Committers, CommitPCs
    <3> QED
      BY <2>1, <2>2, <3>2, <3>3, <3>4 DEF DataInv, Distinct, Entries, CleanOutside, Logged,
                                          BootInv
  <2>4. CASE ~LastOp(outstanding - 1)
    <3>1. Committers' = {}
      BY <1>0, <1>4, <2>1, <2>4, Zenon DEF end_op, WakeAll, Committers, CommitPCs
    <3> QED
      BY <3>1, <2>1, <2>2, DataFrame
  <2> QED
    BY <2>3, <2>4
<1>6. ASSUME NEW p \in Procs, write_log(p) PROVE DataInv'
  <2>0. PICK t, where : /\ t = tail[p]
                        /\ where = IF t + 1 < lh.n THEN "write_log" ELSE "write_head"
    OBVIOUS
  <2>1. /\ pc[p] = "write_log" /\ pc[p] \in CommitPCs /\ where \in CommitPCs
        /\ pc' = [pc EXCEPT ![p] = where] /\ tail' = [tail EXCEPT ![p] = t + 1] /\ boot' = boot
        /\ logdata' = [logdata EXCEPT ![t] = cache[lh.block[t]]]
        /\ UNCHANGED <<home, head, cache, pins, lh>>
    BY <2>0, <1>6, Zenon DEF write_log, Goto, CommitPCs, buffers, log
  <2>2. CommitInv(p) /\ Distinct(lh) /\ Distinct(head) /\ CleanOutside
    BY <2>1, TheCommitter
  <2>3. head = NoHeader /\ t < lh.n /\ InLog(t) /\ PinnedFrom(0)
    BY <2>0, <2>1, <2>2, Zenon DEF CommitInv
  <2>n. t \in Nat /\ t \in Slots
    <3>1. t \in Nat
      BY <2>0, <1>0
    <3> QED
      BY <3>1, <2>3, <1>n
  <2>4. InLog(t + 1)'
    <3>1. ASSUME NEW i \in 0 .. t PROVE logdata'[i] = cache[lh.block[i]]
      <4>1. i \in Slots /\ (i # t => i \in 0 .. t - 1)
        BY <2>n, <1>n
      <4>2. i # t => logdata[i] = cache[lh.block[i]]
        BY <4>1, <2>3 DEF InLog
      <4> QED
        BY <2>1, <4>1, <4>2, <1>0, Zenon
    <3> QED
      BY <3>1, <2>1, <2>n DEF InLog
  <2>u. UNCHANGED <<home, head, cache, pins, lh>>
    BY <2>1
  <2>5. PinnedFrom(0)' /\ Distinct(lh)' /\ Distinct(head)'
    <3>1. PinnedFrom(0)'
      BY <2>u, <2>3, Zenon DEF PinnedFrom, Entries
    <3>2. Distinct(lh)' /\ Distinct(head)'
      BY <2>u, <2>2 DEF Distinct, Entries
    <3> QED
      BY <3>1, <3>2
  <2>6. CleanOutside'
    BY <2>u, <2>2 DEF CleanOutside, Logged
  <2>7. tail'[p] = t + 1 /\ pc'[p] = where
    BY <2>1, <1>0, Zenon
  <2>8. CommitInv(p)'
    <3>1. CASE t + 1 < lh.n
      <4>1. head' = NoHeader /\ pc'[p] = "write_log" /\ tail'[p] = t + 1 /\ t + 1 < lh'.n
        BY <3>1, <2>0, <2>1, <2>3, <2>7, Zenon
      <4>2. InLog(tail[p])'
        BY <4>1, <2>4, Zenon DEF InLog
      <4> QED
        BY <4>1, <4>2, <2>5, Zenon DEF CommitInv
    <3>2. CASE ~(t + 1 < lh.n)
      <4>1. t + 1 = lh.n /\ 0 < lh.n
        BY <3>2, <2>3, <2>n, <1>n
      <4>2. t + 1 = lh'.n /\ 0 < lh'.n
        BY <4>1, <2>1
      <4>3. InLog(lh.n)'
        BY <4>2, <2>4 DEF InLog
      <4>4. head' = NoHeader /\ pc'[p] = "write_head"
        BY <3>2, <2>0, <2>1, <2>3, <2>7, Zenon
      <4> QED
        BY <4>2, <4>3, <4>4, <2>5, Zenon DEF CommitInv
    <3> QED
      BY <3>1, <3>2
  <2> QED
    BY <2>1, <2>5, <2>6, <2>8, CommitMoves, Zenon
<1>7. ASSUME NEW p \in Procs, write_head(p) PROVE DataInv'
  <2>1. /\ pc[p] = "write_head" /\ pc[p] \in CommitPCs /\ "install" \in CommitPCs
        /\ pc' = [pc EXCEPT ![p] = "install"] /\ tail' = [tail EXCEPT ![p] = 0] /\ boot' = boot
        /\ UNCHANGED <<home, logdata, cache, pins, lh>> /\ head' = lh
    BY <1>7 DEF write_head, Goto, CommitPCs, buffers, log
  <2>2. CommitInv(p) /\ Distinct(lh) /\ CleanOutside
    BY <2>1, TheCommitter
  <2>3. InLog(lh.n) /\ PinnedFrom(0) /\ 0 < lh.n
    BY <2>1, <2>2 DEF CommitInv
  <2>u. UNCHANGED <<home, logdata, cache, pins, lh>> /\ head' = lh
    BY <2>1
  <2>4. InLog(lh.n)' /\ PinnedFrom(0)' /\ Distinct(lh)' /\ Distinct(head)'
    <3>1. InLog(lh.n)' /\ PinnedFrom(0)'
      BY <2>u, <2>3, Zenon DEF InLog, PinnedFrom, Entries
    <3>2. Distinct(lh)' /\ Distinct(head)'
      BY <2>u, <2>2, Zenon DEF Distinct, Entries
    <3> QED
      BY <3>1, <3>2
  <2>5. CleanOutside'
    BY <2>u, <2>2 DEF CleanOutside, Logged
  <2>6. tail'[p] = 0 /\ pc'[p] = "install"
    BY <2>1, <1>0, Zenon
  <2>7. CommitInv(p)'
    BY <2>1, <2>3, <2>4, <2>6, Zenon DEF CommitInv
  <2> QED
    BY <2>1, <2>4, <2>5, <2>7, CommitMoves, Zenon
<1>8. ASSUME NEW p \in Procs, install_trans(p) PROVE DataInv'
  <2>0. PICK t, b, where : /\ t = tail[p] /\ b = lh.block[t]
                           /\ where = IF t + 1 < lh.n THEN "install" ELSE "erase"
    OBVIOUS
  <2>1. /\ pc[p] = "install" /\ pc[p] \in CommitPCs /\ where \in CommitPCs
        /\ pc' = [pc EXCEPT ![p] = where] /\ tail' = [tail EXCEPT ![p] = t + 1] /\ boot' = boot
        /\ cache' = [cache EXCEPT ![b] = logdata[t]] /\ home' = [home EXCEPT ![b] = logdata[t]]
        /\ pins' = [pins EXCEPT ![b] = pins[b] - 1]
        /\ UNCHANGED <<logdata, head, lh>>
    BY <2>0, <1>8, Zenon DEF install_trans, Goto, CommitPCs, log
  <2>2. CommitInv(p) /\ Distinct(lh) /\ Distinct(head) /\ CleanOutside
    BY <2>1, TheCommitter
  <2>3. head = lh /\ t < lh.n /\ InLog(lh.n) /\ PinnedFrom(t)
    BY <2>0, <2>1, <2>2, Zenon DEF CommitInv
  <2>4. t \in Nat /\ t \in Entries(lh) /\ t \in Slots /\ b \in Blocks
    <3>1. t \in Nat
      BY <2>0, <1>0
    <3>2. t \in Entries(lh)
      BY <3>1, <2>3, <1>n DEF Entries
    <3> QED
      BY <3>1, <3>2, <2>0, <1>e
  <2>5. logdata[t] = cache[b] /\ pins[b] = 1
    <3>1. logdata[t] = cache[b]
      BY <2>0, <2>3, <2>4 DEF InLog, Entries
    <3>2. ~(t < t)
      BY <2>4
    <3> QED
      BY <3>1, <3>2, <2>0, <2>3, <2>4, Zenon DEF PinnedFrom
  <2>6. /\ cache' = cache
        /\ \A c \in Blocks : home'[c] = IF c = b THEN cache[b] ELSE home[c]
        /\ \A c \in Blocks : pins'[c] = IF c = b THEN 0 ELSE pins[c]
    BY <2>1, <2>4, <2>5, <1>0
  <2>7. \A i \in Entries(lh) : lh.block[i] \in Blocks /\ (i # t => lh.block[i] # b)
    BY <1>e, <2>0, <2>2, <2>4, Zenon DEF Distinct
  <2>8. PinnedFrom(t + 1)'
    <3> SUFFICES ASSUME NEW i \in Entries(lh)
                 PROVE  IF i < t + 1 THEN pins'[lh.block[i]] = 0
                                          /\ cache[lh.block[i]] = home'[lh.block[i]]
                        ELSE pins'[lh.block[i]] = 1
      BY <2>1, <2>6, Zenon DEF PinnedFrom, Entries
    <3>1. CASE i = t
      <4>1. i < t + 1
        BY <3>1, <2>4
      <4> QED
        BY <3>1, <4>1, <2>0, <2>4, <2>6, Zenon
    <3>2. CASE i # t
      <4>1. pins'[lh.block[i]] = pins[lh.block[i]] /\ home'[lh.block[i]] = home[lh.block[i]]
        BY <3>2, <2>6, <2>7, Zenon
      <4>2. i < t <=> i < t + 1
        <5>1. i \in Int /\ t \in Int
          BY <2>4, <1>n DEF Entries
        <5> QED
          BY <3>2, <5>1
      <4> QED
        BY <4>1, <4>2, <2>3, Zenon DEF PinnedFrom
    <3> QED
      BY <3>1, <3>2, Zenon
  <2>9. tail'[p] = t + 1 /\ pc'[p] = where
    BY <2>1, <1>0, Zenon
  <2>10. InLog(lh.n)' /\ Distinct(lh)' /\ Distinct(head)'
    <3>1. UNCHANGED <<logdata, head, lh, cache>>
      BY <2>1, <2>6
    <3>2. InLog(lh.n)'
      BY <3>1, <2>3 DEF InLog
    <3>3. Distinct(lh)' /\ Distinct(head)'
      BY <3>1, <2>2 DEF Distinct, Entries
    <3> QED
      BY <3>2, <3>3
  <2>11. CommitInv(p)'
    <3>1. CASE t + 1 < lh.n
      <4>1. head' = lh' /\ pc'[p] = "install" /\ tail'[p] = t + 1 /\ t + 1 < lh'.n
        BY <3>1, <2>0, <2>1, <2>3, <2>9, Zenon
      <4>2. PinnedFrom(tail[p])'
        BY <4>1, <2>8, Zenon DEF PinnedFrom
      <4> QED
        BY <4>1, <4>2, <2>10, Zenon DEF CommitInv
    <3>2. CASE ~(t + 1 < lh.n)
      <4>1. t + 1 = lh.n
        BY <3>2, <2>3, <2>4, <1>n
      <4>2. head' = lh' /\ pc'[p] = "erase" /\ t + 1 = lh'.n
        BY <3>2, <4>1, <2>0, <2>1, <2>3, <2>9, Zenon
      <4>3. PinnedFrom(lh.n)'
        BY <4>2, <2>8, Zenon DEF PinnedFrom
      <4> QED
        BY <4>2, <4>3, <2>10, Zenon DEF CommitInv
    <3> QED
      BY <3>1, <3>2
  <2>12. CleanOutside'
    <3>1. Logged(lh)' = Logged(lh) /\ b \in Logged(lh)
      BY <2>0, <2>1, <2>4, Zenon DEF Logged, Entries
    <3> QED
      BY <3>1, <2>2, <2>6, Zenon DEF CleanOutside
  <2> QED
    BY <2>1, <2>10, <2>11, <2>12, CommitMoves, Zenon
<1>9. ASSUME NEW p \in Procs, erase(p) PROVE DataInv'
  <2>1. /\ pc[p] = "erase" /\ pc[p] \in CommitPCs /\ "done" \in CommitPCs
        /\ pc' = [pc EXCEPT ![p] = "done"] /\ boot' = boot
        /\ lh' = NoHeader /\ head' = NoHeader /\ UNCHANGED <<home, cache, pins>>
    BY <1>9 DEF erase, Goto, CommitPCs, buffers
  <2>2. PinnedFrom(lh.n) /\ CleanOutside
    BY <2>1, TheCommitter, Zenon DEF CommitInv
  <2>3. ASSUME NEW b \in Blocks PROVE pins[b] = 0 /\ cache[b] = home[b]
    <3>1. CASE b \notin Logged(lh)
      BY <3>1, <2>2, Zenon DEF CleanOutside
    <3>2. CASE b \in Logged(lh)
      <4>1. PICK i \in Entries(lh) : lh.block[i] = b
        BY <3>2 DEF Logged, Entries
      <4>2. i < lh.n
        BY <1>e
      <4> QED
        BY <4>1, <4>2, <2>2, Zenon DEF PinnedFrom
    <3> QED
      BY <3>1, <3>2
  <2>4. CleanOutside'
    BY <2>1, <2>3 DEF CleanOutside
  <2>5. Distinct(lh)' /\ Distinct(head)'
    BY <2>1, HeaderType DEF Distinct, Entries
  <2>6. pc'[p] = "done"
    BY <2>1, <1>0, Zenon
  <2>7. CommitInv(p)'
    BY <2>1, <2>6, HeaderType, Zenon DEF CommitInv
  <2> QED
    BY <2>1, <2>4, <2>5, <2>7, CommitMoves, Zenon
<1>10. ASSUME NEW p \in Procs, CommitDone(p) PROVE DataInv'
  <2>1. /\ pc[p] = "done" /\ pc[p] \in CommitPCs
        /\ pc' = [q \in Procs |-> IF q = p THEN "out"
                                  ELSE IF pc[q] = "sleep" THEN "begin" ELSE pc[q]]
        /\ UNCHANGED <<home, logdata, head, cache, pins, lh, boot>>
    BY <1>10, Zenon DEF CommitDone, WakeAll, CommitPCs, disk, buffers
  <2>2. /\ CommitInv(p) /\ boot = "up" /\ Distinct(lh) /\ Distinct(head) /\ CleanOutside
        /\ \A q \in Procs \ {p} : pc[q] \notin CommitPCs
    BY <2>1, TheCommitter
  <2>3. head = NoHeader /\ lh.n = 0
    BY <2>1, <2>2, Zenon DEF CommitInv
  <2>4. \A q \in Procs : pc'[q] \notin CommitPCs
    BY <2>1, <2>2 DEF CommitPCs
  <2>5. \A q \in Procs : CommitInv(q)'
    BY <2>4, Zenon DEF CommitInv, CommitPCs
  <2>6. PinnedFrom(0)' /\ Distinct(lh)' /\ Distinct(head)'
    BY <2>1, <2>2, <2>3 DEF PinnedFrom, Distinct, Entries
  <2>7. CleanOutside'
    BY <2>1, <2>2, Zenon DEF CleanOutside, Logged
  <2>8. BootInv'
    BY <2>1, <2>2 DEF BootInv
  <2> QED
    BY <2>1, <2>3, <2>5, <2>6, <2>7, <2>8, Zenon DEF DataInv
<1>11. ASSUME NEW b \in Blocks, Recycle(b) PROVE DataInv'
  <2>1. cache[b] = home[b]
    <3>1. CASE b \notin Logged(lh)
      BY <3>1, <1>11, Zenon DEF DataInv, CleanOutside
    <3>2. CASE b \in Logged(lh)
      <4>1. PICK i \in Entries(lh) : lh.block[i] = b
        BY <3>2, Zenon DEF Logged, Entries
      <4>2. ASSUME NEW m, PinnedFrom(m) PROVE cache[b] = home[b]
        <5>1. IF i < m THEN pins[b] = 0 /\ cache[b] = home[b] ELSE pins[b] = 1
          BY <4>1, <4>2, Zenon DEF PinnedFrom
        <5>2. pins[b] = 0
          BY <1>11, Zenon DEF Recycle
        <5> QED
          BY <5>1, <5>2
      <4>3. (\E m : PinnedFrom(m)) \/ lh.n = 0
        <5>1. CASE Committers = {}
          BY <5>1, <1>11, Zenon DEF Recycle, DataInv
        <5>2. CASE Committers # {}
          <6>1. PICK q \in Procs : pc[q] \in CommitPCs
            BY <5>2 DEF Committers
          <6>2. CommitInv(q)
            BY <6>1 DEF DataInv
          <6> QED
            BY <6>1, <6>2, Zenon DEF CommitInv, CommitPCs
        <5> QED
          BY <5>1, <5>2
      <4> QED
        BY <4>1, <4>2, <4>3 DEF Entries
    <3> QED
      BY <3>1, <3>2
  <2>2. cache' = cache
    BY <2>1, <1>11, <1>0, Zenon DEF Recycle
  <2> QED
    BY <2>2, <1>11, DataFrame, Zenon DEF Recycle, disk, log, procs, Committers
<1>12. CASE Crash
  <2>1. /\ UNCHANGED <<home, logdata, head>> /\ cache' = home /\ lh' = NoHeader
        /\ boot' = "read_head" /\ \A b \in Blocks : pins'[b] = 0
        /\ \A q \in Procs : pc'[q] = "out"
    BY <1>12 DEF Crash, PowerOn, disk
  <2>2. \A q \in Procs : CommitInv(q)'
    BY <2>1, Zenon DEF CommitInv
  <2>3. Distinct(lh)' /\ Distinct(head)'
    BY <2>1, HeaderType DEF DataInv, Distinct, Entries
  <2>4. CleanOutside' /\ BootInv'
    BY <2>1, Zenon DEF CleanOutside, BootInv
  <2> QED
    BY <2>1, <2>2, <2>3, <2>4 DEF DataInv
<1>13. CASE Recovery
  <2>1. boot # "up" /\ pc' = pc /\ pins' = pins
    BY <1>13, Zenon DEF Recovery, read_head, RecoverInstall, RecoverErase, procs, buffers
  <2>2. BootInv /\ Distinct(lh) /\ Distinct(head) /\ \A q \in Procs : pc[q] = "out"
    BY <2>1 DEF WhoInv, DataInv
  <2>3. cache = home /\ \A b \in Blocks : pins[b] = 0
    BY <2>1, <2>2 DEF BootInv
  <2>4. Committers' = {} /\ \A q \in Procs : CommitInv(q)'
    BY <2>1, <2>2, Zenon DEF CommitInv, Committers, CommitPCs
  <2>5. CASE read_head
    <3>1. /\ UNCHANGED <<home, logdata, head, cache>> /\ lh' = head /\ btail' = 0
          /\ boot' = IF head.n > 0 THEN "install" ELSE "erase"
      BY <2>5 DEF read_head, disk, buffers
    <3>2. Distinct(lh)' /\ Distinct(head)'
      BY <3>1, <2>2, Zenon DEF Distinct, Entries
    <3>3. CleanOutside'
      BY <3>1, <2>1, <2>3 DEF CleanOutside
    <3>4. InHome(0)' /\ (head.n = 0 => InHome(lh.n)')
      BY <3>1 DEF InHome
    <3>5. head.n \in Nat /\ (boot' = "erase" => head.n = 0)
      BY <3>1, <1>n
    <3>6. BootInv'
      BY <3>1, <3>4, <3>5, <2>1, <2>3 DEF BootInv
    <3> QED
      BY <3>1, <3>2, <3>3, <3>6, <2>4, Zenon DEF DataInv
  <2>6. CASE RecoverInstall
    <3>0. PICK t, b : t = btail /\ b = lh.block[t]
      OBVIOUS
    <3>1. /\ boot = "install" /\ cache' = [cache EXCEPT ![b] = logdata[t]]
          /\ home' = [home EXCEPT ![b] = logdata[t]]
          /\ btail' = t + 1 /\ boot' = IF t + 1 < lh.n THEN "install" ELSE "erase"
          /\ UNCHANGED <<logdata, head, lh>>
      BY <3>0, <2>6, Zenon DEF RecoverInstall, log
    <3>2. head = lh /\ t < lh.n /\ InHome(t)
      BY <3>0, <3>1, <2>2, Zenon DEF BootInv
    <3>3. t \in Nat /\ t \in Slots /\ b \in Blocks
      <4>1. t \in Nat
        BY <3>0, LogAssumption DEF TypeOK
      <4> QED
        <5>1. t \in Entries(lh)
          BY <4>1, <3>2, <1>n DEF Entries
        <5> QED
          BY <4>1, <5>1, <3>0, <1>e
    <3>4. cache' = home' /\ home'[b] = logdata[t] /\ \A c \in Blocks \ {b} : home'[c] = home[c]
      BY <3>1, <3>3, <2>3, <1>0, Zenon
    <3>5. InHome(t + 1)'
      <4> SUFFICES ASSUME NEW i \in 0 .. t PROVE home'[lh.block[i]] = logdata[i]
        BY <3>1, <3>3 DEF InHome
      <4>1. CASE i = t
        BY <4>1, <3>0, <3>4
      <4>2. CASE i # t
        <5>1. i \in Entries(lh) /\ t \in Entries(lh) /\ i \in 0 .. t - 1 /\ i \in Slots
          BY <4>2, <3>2, <3>3, <1>n DEF Entries
        <5>2. lh.block[i] # b
          BY <5>1, <4>2, <3>0, <2>2, Zenon DEF Distinct
        <5>3. home[lh.block[i]] = logdata[i]
          BY <5>1, <3>2 DEF InHome
        <5>4. lh.block[i] \in Blocks \ {b}
          BY <5>1, <5>2, <1>e
        <5> QED
          BY <5>3, <5>4, <3>4
      <4> QED
        BY <4>1, <4>2
    <3>6. boot' = "erase" => t + 1 = lh.n
      BY <3>1, <3>2, <3>3, <1>n
    <3>7. BootInv'
      BY <3>1, <3>2, <3>4, <3>5, <3>6, <2>1, <2>3, Zenon DEF BootInv, InHome
    <3>8. Distinct(lh)' /\ Distinct(head)'
      BY <3>1, <2>2, Zenon DEF Distinct, Entries
    <3>9. CleanOutside'
      BY <3>4, <2>1, <2>3 DEF CleanOutside
    <3> QED
      BY <3>1, <3>7, <3>8, <3>9, <2>4 DEF DataInv
  <2>7. CASE RecoverErase
    <3>1. /\ boot' = "up" /\ lh' = NoHeader /\ head' = NoHeader
          /\ UNCHANGED <<home, logdata, cache>>
      BY <2>7 DEF RecoverErase, buffers
    <3>2. Distinct(lh)' /\ Distinct(head)'
      BY <3>1, HeaderType DEF Distinct, Entries
    <3>3. CleanOutside' /\ PinnedFrom(0)'
      BY <3>1, <2>1, <2>3, HeaderType DEF CleanOutside, PinnedFrom, Entries
    <3>4. BootInv'
      BY <3>1 DEF BootInv
    <3> QED
      BY <3>1, <3>2, <3>3, <3>4, <2>4 DEF DataInv
  <2> QED
    BY <1>13, <2>5, <2>6, <2>7 DEF Recovery
<1> QED
  BY <1>1, <1>2, <1>k, <1>3, <1>4, <1>6, <1>7, <1>8, <1>9, <1>10, <1>11, <1>12, <1>13
     DEF Next, ProcStep, CommitStep
-----------------------------------------------------------------------------
(* The theorems *)

\* A freshly made disk and a machine just switched on.
LEMMA LogInit ==
  ASSUME Init
  PROVE  LogInv
<1>1. NoHeader \in Headers /\ NoHeader.n = 0
  BY HeaderType
<1>2. Active = {} /\ Committers = {} /\ Reserved = {}
  BY DEF Init, Active, Committers, Reserved, CommitPCs
<1>3. Cardinality({}) = 0
  BY FS_EmptySet
<1>4. TypeOK
  <2>1. home \in [Blocks -> Values] /\ logdata \in [Slots -> Values] /\ cache = home
    BY LogAssumption DEF Init
  <2>2. pins \in [Blocks -> Nat] /\ tail \in [Procs -> 0 .. LOGBLOCKS] /\ btail \in 0 .. LOGBLOCKS
    BY LogAssumption DEF Init
  <2>3. pc \in [Procs -> ProcPCs] /\ wrote \in [Procs -> SUBSET Blocks] /\ boot \in BootPCs
    BY DEF Init, ProcPCs, BootPCs
  <2>4. committing \in BOOLEAN /\ outstanding \in Nat /\ lh = NoHeader /\ head = NoHeader
    BY Zenon DEF Init
  <2> QED
    BY <1>1, <2>1, <2>2, <2>3, <2>4 DEF TypeOK
<1>5. WhoInv
  BY <1>2, <1>3 DEF Init, WhoInv, NoPanic, Panicked, SleeperHasWaker
<1>6. RoomInv
  BY <1>1, <1>2, <1>3, LogAssumption DEF Init, RoomInv
<1>7. DataInv
  <2>1. \A p \in Procs : CommitInv(p)
    BY DEF Init, CommitInv
  <2>2. /\ lh = NoHeader /\ head = NoHeader /\ cache = home /\ boot = "read_head"
        /\ \A b \in Blocks : pins[b] = 0
    BY DEF Init
  <2>3. Distinct(lh) /\ Distinct(head)
    BY <1>1, <2>2 DEF Distinct, Entries
  <2>4. CleanOutside
    BY <2>2, Zenon DEF CleanOutside
  <2>5. BootInv
    BY <2>2 DEF BootInv
  <2> QED
    BY <2>1, <2>2, <2>3, <2>4, <2>5 DEF DataInv
<1> QED
  BY <1>4, <1>5, <1>6, <1>7 DEF LogInv

\* A step that changes nothing.
LEMMA LogStutter ==
  ASSUME LogInv, UNCHANGED vars
  PROVE  LogInv'
<1>1. /\ UNCHANGED <<home, logdata, head, cache, pins, lh, outstanding, committing>>
      /\ UNCHANGED <<pc, tail, wrote, boot, btail>>
  BY DEF vars, disk, buffers, log, procs
<1>2. TypeOK'
  BY <1>1, Zenon DEF LogInv, TypeOK
<1>3. WhoInv' /\ RoomInv'
  <2>1. Active' = Active /\ Committers' = Committers /\ Reserved' = Reserved
    BY <1>1, Zenon DEF Active, Committers, Reserved
  <2>2. WhoInv'
    BY <1>1, <2>1, Zenon DEF LogInv, WhoInv, NoPanic, Panicked, SleeperHasWaker, Active
  <2>3. RoomInv'
    BY <1>1, <2>1, Zenon DEF LogInv, RoomInv, Logged
  <2> QED
    BY <2>2, <2>3
<1>4. DataInv'
  BY <1>1, DataFrame, Zenon DEF LogInv, Committers
<1> QED
  BY <1>2, <1>3, <1>4 DEF LogInv

\* The invariant of the log, for any number of processes and blocks, any log
\* size and any reservation, whatever the crashes.
THEOREM LogInvariant == Spec => []LogInv
<1>1. Init => LogInv
  BY LogInit
<1>2. LogInv /\ [Next]_vars => LogInv'
  BY TypeStep, WhoStep, RoomStep, DataStep, LogStutter DEF LogInv
<1> QED
  BY <1>1, <1>2, PTL DEF Spec

\* The state of the log keeps its types: neither log.lh nor the header on the
\* disk ever counts more blocks than the log has.
THEOREM LogTypeCorrect == Spec => []TypeOK
<1>1. LogInv => TypeOK
  BY DEF LogInv
<1> QED
  BY <1>1, LogInvariant, PTL

\* begin_op()'s reservation suffices: none of the panics of log.c happens.
THEOREM LogNeverPanics == Spec => []NoPanic
<1>1. LogInv => NoPanic
  BY DEF LogInv, WhoInv
<1> QED
  BY <1>1, LogInvariant, PTL

\* Nobody sleeps in begin_op() without an operation or a commit to wake it.
THEOREM BeginOpHasWaker == Spec => []SleeperHasWaker
<1>1. LogInv => SleeperHasWaker
  BY DEF LogInv, WhoInv
<1> QED
  BY <1>1, LogInvariant, PTL

\* What bget() may recycle is on the disk.
LEMMA Clean ==
  ASSUME LogInv
  PROVE  RecycleIsSafe
<1> SUFFICES ASSUME NEW b \in Blocks, pins[b] = 0, boot = "up", b \in Logged(lh)
             PROVE  cache[b] = home[b]
  BY Zenon DEF RecycleIsSafe, LogInv, DataInv, BootInv, CleanOutside
<1>1. PICK i \in Entries(lh) : b = lh.block[i]
  BY DEF Logged, Entries
<1>2. /\ lh.n \in Nat /\ i \in Nat /\ i < lh.n
  BY <1>1 DEF LogInv, TypeOK, Headers, Entries
<1>3. ~PinnedFrom(0)
  BY <1>1, <1>2 DEF PinnedFrom
<1>4. PICK p \in Procs : pc[p] \in CommitPCs /\ CommitInv(p)
  BY <1>3 DEF LogInv, DataInv, Committers
<1>5. \A m : PinnedFrom(m) => cache[b] = home[b]
  BY <1>1 DEF PinnedFrom
<1>6. PinnedFrom(tail[p]) \/ PinnedFrom(lh.n) \/ PinnedFrom(0) \/ lh.n = 0
  BY <1>4, Zenon DEF CommitInv, CommitPCs
<1> QED
  BY <1>2, <1>5, <1>6

\* log_write() pins every buffer whose block the disk does not hold yet.
THEOREM RecycleTheorem == Spec => []RecycleIsSafe
<1>1. LogInv => RecycleIsSafe
  BY Clean
<1> QED
  BY <1>1, LogInvariant, PTL

\* Once no operation runs and no commit is in progress, all is on the disk.
THEOREM QuietTheorem == Spec => []QuietIsDurable
<1>1. LogInv => QuietIsDurable
  <2> SUFFICES ASSUME LogInv, boot = "up", outstanding = 0, ~committing
               PROVE  Durable = cache
    BY DEF QuietIsDurable
  <2>1. IsFiniteSet(Active) /\ Cardinality(Active) = 0
    BY CountFinite, Zenon DEF LogInv, WhoInv
  <2>2. Active = {} /\ Committers = {}
    BY <2>1, FS_EmptySet DEF LogInv, WhoInv
  <2>3. lh.n = 0 /\ head = NoHeader
    BY <2>2, Zenon DEF LogInv, RoomInv, DataInv
  <2>4. Logged(lh) = {} /\ Logged(head) = {}
    BY <2>3, HeaderType, Zenon DEF Logged
  <2>5. \A b \in Blocks : cache[b] = home[b]
    BY <2>4, Zenon DEF LogInv, DataInv, CleanOutside
  <2>6. cache = [b \in Blocks |-> cache[b]]
    BY DEF LogInv, TypeOK
  <2>7. Durable = [b \in Blocks |-> home[b]]
    BY <2>4, Zenon DEF Durable, Recovered
  <2> QED
    BY <2>5, <2>6, <2>7
<1> QED
  BY <1>1, LogInvariant, PTL

-----------------------------------------------------------------------------
(* The refinement of AtomicDisk.  The header on the disk decides what      *)
(* recovery would leave (Durable); write_head() is the only step that      *)
(* changes it, and changes it to what is in memory.                        *)
HIDE DEF Slots

Memory == IF boot = "up" THEN cache ELSE Durable

\* What recovery leaves of a block outside and inside a header.
LEMMA RecoveredIs ==
  ASSUME NEW h, NEW data, NEW old, h.n \in Nat, Distinct(h),
         old = [b \in Blocks |-> old[b]]
  PROVE  /\ \A b \in Blocks \ Logged(h) : Recovered(h, data, old)[b] = old[b]
         /\ \A i \in Entries(h) :
              h.block[i] \in Blocks => Recovered(h, data, old)[h.block[i]] = data[i]
         /\ h.n = 0 => Recovered(h, data, old) = old
<1>1. \A b \in Blocks \ Logged(h) : Recovered(h, data, old)[b] = old[b]
  BY DEF Recovered
<1>2. ASSUME NEW i \in Entries(h), h.block[i] \in Blocks
      PROVE  Recovered(h, data, old)[h.block[i]] = data[i]
  <2> DEFINE j == CHOOSE k \in 0 .. h.n - 1 : h.block[k] = h.block[i]
  <2>1. j \in 0 .. h.n - 1 /\ h.block[j] = h.block[i]
    BY Zenon DEF Entries
  <2>2. j = i
    BY <2>1, Zenon DEF Distinct, Entries
  <2>3. h.block[i] \in Logged(h)
    BY DEF Logged, Entries
  <2>4. Recovered(h, data, old)[h.block[i]] = data[j]
    BY <1>2, <2>3, Zenon DEF Recovered
  <2> QED
    BY <2>2, <2>4, Zenon
<1>3. ASSUME h.n = 0 PROVE Recovered(h, data, old) = old
  <2>1. Logged(h) = {}
    BY <1>3 DEF Logged
  <2> QED
    BY <2>1 DEF Recovered
<1> QED
  BY <1>1, <1>2, <1>3, Zenon

\* Two disks that recover alike block by block are one abstract disk.
LEMMA SameRecovered ==
  ASSUME NEW h, NEW data, NEW old, NEW new,
         \A b \in Blocks \ Logged(h) : new[b] = old[b]
  PROVE  Recovered(h, data, new) = Recovered(h, data, old)
BY DEF Recovered

\* The header that a disk with nothing to install behaves like.
LEMMA Installed ==
  ASSUME NEW h, NEW data, NEW old, NEW mem, h.n \in Nat, Distinct(h),
         h.block \in [Slots -> Blocks], h.n <= LOGBLOCKS,
         old = [b \in Blocks |-> old[b]], mem = [b \in Blocks |-> mem[b]],
         \A b \in Blocks \ Logged(h) : mem[b] = old[b],
         \A i \in Entries(h) : mem[h.block[i]] = data[i]
  PROVE  Recovered(h, data, old) = mem
<1> DEFINE R == Recovered(h, data, old)
<1>1. R = [b \in Blocks |-> R[b]]
  BY DEF Recovered
<1>2. ASSUME NEW b \in Blocks \ Logged(h) PROVE R[b] = mem[b]
  BY <1>2, RecoveredIs
<1>3. ASSUME NEW b \in Logged(h) PROVE R[b] = mem[b]
  <2>1. PICK i \in Entries(h) : b = h.block[i]
    BY DEF Logged, Entries
  <2>2. b \in Blocks
    BY <2>1, LogAssumption DEF Entries, Slots
  <2>3. R[h.block[i]] = data[i]
    BY <2>1, <2>2, RecoveredIs
  <2> QED
    BY <2>1, <2>3, Zenon
<1> HIDE DEF R
<1>4. R = mem
  BY <1>1, <1>2, <1>3, Zenon
<1> QED
  BY <1>4 DEF R

-----------------------------------------------------------------------------

\* Where a header without entries is on the disk, recovery changes nothing.
LEMMA NothingToRecover ==
  ASSUME NEW data, NEW old \in [Blocks -> Values]
  PROVE  Recovered(NoHeader, data, old) = old
<1>1. NoHeader.n = 0 /\ Logged(NoHeader) = {}
  BY HeaderType DEF Logged
<1> QED
  BY <1>1 DEF Recovered

\* Every step of the log is a step of AtomicDisk or changes nothing there.
LEMMA AtomicStep ==
  ASSUME LogInv, LogInv', Next
  PROVE  Atomic!DiskNext \/ UNCHANGED <<Durable, Memory, Active>>
<1>0. /\ home \in [Blocks -> Values] /\ cache \in [Blocks -> Values]
      /\ lh \in Headers /\ lh.n \in Nat /\ lh.n <= LOGBLOCKS /\ lh.block \in [Slots -> Blocks]
      /\ pc \in [Procs -> ProcPCs] /\ Distinct(lh)
  BY DEF LogInv, TypeOK, Headers, DataInv
<1>1. ASSUME NEW p \in Procs, begin_op(p) PROVE Atomic!Begin(p)
  <2>1. Active' = Active \cup {p}
    BY <1>0, <1>1, Zenon DEF begin_op, Goto, Active
  <2>2. UNCHANGED <<Durable, Memory>>
    BY <1>1 DEF begin_op, Durable, Memory, disk, buffers
  <2> QED
    BY <2>1, <2>2, Zenon DEF Atomic!Begin, Active, Memory
<1>2. ASSUME NEW p \in Procs, BeginSleep(p) PROVE UNCHANGED <<Durable, Memory, Active>>
  BY <1>0, <1>2, Zenon DEF BeginSleep, Goto, Active, Durable, Memory, disk, buffers
<1>k. ASSUME NEW p \in Procs, kkill(p) PROVE UNCHANGED <<Durable, Memory, Active>>
  BY <1>0, <1>k, Zenon DEF kkill, Goto, Active, Durable, Memory, disk, buffers
<1>3. ASSUME NEW p \in Procs, NEW b \in Blocks, NEW v \in Values, log_write(p, b, v)
      PROVE  Atomic!Write(p, b, v)
  <2>1. p \in Active /\ Active' = Active /\ cache' = [cache EXCEPT ![b] = v] /\ boot = "up"
    BY <1>3, LogWriteStep DEF LogInv, WhoInv, Active
  <2>2. Durable' = Durable /\ boot' = boot
    BY <1>3, Zenon DEF log_write, Durable, disk
  <2> QED
    BY <2>1, <2>2, Zenon DEF Atomic!Write, Active
<1>4. ASSUME NEW p \in Procs, end_op(p) PROVE Atomic!End(p)
  <2>1. p \in Active /\ Active' = Active \ {p}
    <3>1. pc[p] = "op" /\ pc' \in [Procs -> ProcPCs]
      BY <1>4, Zenon DEF end_op, LogInv, TypeOK
    <3>2. pc'[p] # "op" /\ \A q \in Procs \ {p} : pc'[q] = "op" <=> pc[q] = "op"
      BY <1>0, <1>4, Zenon DEF end_op, Goto, WakeAll, CommitStart
    <3> QED
      BY <3>1, <3>2 DEF Active
  <2>2. UNCHANGED <<Durable, Memory>>
    BY <1>4, Zenon DEF end_op, Durable, Memory, disk, buffers
  <2> QED
    BY <2>1, <2>2, Zenon DEF Atomic!End, Active, Memory
<1>5. ASSUME NEW p \in Procs, CommitStep(p)
      PROVE  /\ pc[p] \in CommitPCs /\ CommitInv(p) /\ boot = "up" /\ boot' = "up"
             /\ Active = {} /\ Active' = {}
  <2>1. pc[p] \in CommitPCs /\ boot' = boot
    BY <1>5, Zenon DEF CommitStep, write_log, write_head, install_trans, erase, CommitDone, CommitPCs
  <2>2. Active = {} /\ CommitInv(p) /\ boot = "up"
    BY <2>1, Zenon DEF LogInv, WhoInv, DataInv, Committers, CommitPCs
  <2>3. \A q \in Procs : pc'[q] = "op" => pc[q] = "op"
    BY <1>0, <1>5, Zenon DEF CommitStep, write_log, write_head, install_trans, erase, CommitDone,
                      Goto, WakeAll
  <2> QED
    BY <2>1, <2>2, <2>3, Zenon DEF Active
<1>6. ASSUME NEW p \in Procs, write_log(p) PROVE UNCHANGED <<Durable, Memory>>
  <2>1. head = NoHeader /\ head' = head /\ home' = home /\ cache' = cache /\ boot' = boot
    BY <1>5, <1>6, Zenon DEF write_log, CommitInv, CommitStep, buffers
  <2>2. Durable = home /\ Durable' = home
    BY <1>0, <2>1, NothingToRecover, Zenon DEF Durable
  <2> QED
    BY <2>1, <2>2 DEF Memory
<1>7. ASSUME NEW p \in Procs, write_head(p) PROVE Atomic!Commit
  <2>1. /\ boot = "up" /\ boot' = "up" /\ Active = {} /\ Active' = {}
        /\ InLog(lh.n)
    BY <1>5, <1>7, Zenon DEF write_head, CommitInv, CommitStep
  <2>2. head' = lh /\ home' = home /\ logdata' = logdata /\ cache' = cache
    BY <1>7 DEF write_head, buffers
  <2>3. Recovered(lh, logdata, home) = cache
    <3>1. \A b \in Blocks \ Logged(lh) : cache[b] = home[b]
      BY Zenon DEF LogInv, DataInv, CleanOutside
    <3>2. \A i \in Entries(lh) : cache[lh.block[i]] = logdata[i]
      BY <2>1, Zenon DEF InLog, Entries
    <3>3. home = [b \in Blocks |-> home[b]] /\ cache = [b \in Blocks |-> cache[b]]
      BY <1>0, Zenon
    <3> QED
      BY <1>0, <3>1, <3>2, <3>3, Installed
  <2>4. Durable' = cache
    BY <2>2, <2>3 DEF Durable
  <2> QED
    BY <2>1, <2>2, <2>4, Zenon DEF Atomic!Commit, Active
<1>8. ASSUME NEW p \in Procs, install_trans(p) PROVE UNCHANGED <<Durable, Memory>>
  <2>0. PICK t : t = tail[p]
    OBVIOUS
  <2>1. /\ boot = "up" /\ boot' = "up" /\ head = lh /\ t < lh.n /\ InLog(lh.n)
        /\ t \in Nat
    <3>1. pc[p] = "install" /\ CommitStep(p) /\ t \in 0 .. LOGBLOCKS
      BY <1>8, <2>0, Zenon DEF install_trans, CommitStep, LogInv, TypeOK
    <3> QED
      <4>1. boot = "up" /\ boot' = "up" /\ head = lh /\ t < lh.n /\ InLog(lh.n)
        BY <1>5, <2>0, <3>1, Zenon DEF CommitInv
      <4>2. t \in Nat
        BY <3>1
      <4> QED
        BY <4>1, <4>2
  <2>2. PICK b : b = lh.block[t]
    OBVIOUS
  <2>3. t \in Entries(lh) /\ b \in Logged(lh) /\ b \in Blocks /\ logdata[t] = cache[b]
    <3>1. t \in 0 .. lh.n - 1 /\ t \in Slots
      BY <1>0, <2>1, LogAssumption DEF Slots
    <3> QED
      BY <1>0, <2>1, <2>2, <3>1, Zenon DEF Entries, Logged, InLog
  <2>4. /\ home' = [home EXCEPT ![b] = logdata[t]] /\ cache' = [cache EXCEPT ![b] = logdata[t]]
        /\ head' = head /\ logdata' = logdata
    BY <1>8, <2>0, <2>2, Zenon DEF install_trans
  <2>5. cache' = cache
    BY <1>0, <2>3, <2>4, Zenon
  <2>6. \A c \in Blocks \ Logged(head) : home'[c] = home[c]
    BY <1>0, <2>1, <2>3, <2>4, Zenon
  <2>7. Durable' = Durable
    <3>1. Recovered(head, logdata, home') = Recovered(head, logdata, home)
      BY <2>6, SameRecovered
    <3> QED
      BY <2>4, <3>1, Zenon DEF Durable, Recovered
  <2> QED
    BY <2>1, <2>5, <2>7 DEF Memory
<1>9. ASSUME NEW p \in Procs, erase(p) PROVE UNCHANGED <<Durable, Memory>>
  <2>1. boot = "up" /\ boot' = "up" /\ head = lh /\ InLog(lh.n) /\ PinnedFrom(lh.n)
    BY <1>5, <1>9, Zenon DEF erase, CommitInv, CommitStep
  <2>2. \A i \in Entries(lh) : home[lh.block[i]] = logdata[i]
    BY <1>0, <2>1 DEF InLog, PinnedFrom, Entries
  <2>3. home = [b \in Blocks |-> home[b]]
    BY <1>0, Zenon
  <2>4. Recovered(lh, logdata, home) = home
    BY <1>0, <2>2, <2>3, Installed
  <2>5. head' = NoHeader /\ home' = home /\ cache' = cache
    BY <1>9 DEF erase, buffers
  <2>6. Durable = home /\ Durable' = home
    BY <1>0, <2>1, <2>4, <2>5, NothingToRecover, Zenon DEF Durable
  <2> QED
    BY <2>1, <2>5, <2>6 DEF Memory
<1>10. ASSUME NEW p \in Procs, CommitDone(p) PROVE UNCHANGED <<Durable, Memory>>
  BY <1>10, Zenon DEF CommitDone, Durable, Memory, disk, buffers
<1>11. ASSUME NEW b \in Blocks, Recycle(b) PROVE UNCHANGED <<Durable, Memory, Active>>
  <2>1. cache[b] = home[b]
    BY <1>11, Clean, Zenon DEF Recycle, RecycleIsSafe
  <2>2. cache' = cache
    BY <1>0, <1>11, <2>1, Zenon DEF Recycle
  <2> QED
    BY <1>11, <2>2, Zenon DEF Recycle, Durable, Memory, Active, disk, procs
<1>12. ASSUME Crash PROVE Atomic!Reboot
  <2>1. Durable' = Durable /\ boot' # "up" /\ Active' = {}
    BY <1>12 DEF Crash, PowerOn, Durable, Active, disk
  <2> QED
    BY <2>1 DEF Atomic!Reboot, Active
<1>13. ASSUME Recovery PROVE UNCHANGED <<Durable, Memory, Active>>
  <2>1. boot # "up" /\ cache = home /\ Active' = Active /\ BootInv
    BY <1>13, Zenon DEF Recovery, read_head, RecoverInstall, RecoverErase, Active, procs,
                 LogInv, DataInv, BootInv
  <2>2. CASE read_head
    BY <2>1, <2>2, Zenon DEF read_head, Durable, Memory, disk
  <2>3. CASE RecoverInstall
    <3>0. PICK b : b = lh.block[btail]
      OBVIOUS
    <3>1. head = lh /\ b \in Logged(lh) /\ b \in Blocks
      <4>1. boot = "install" /\ head = lh /\ btail < lh.n
        BY <2>1, <2>3, Zenon DEF RecoverInstall, BootInv
      <4>2. btail \in 0 .. LOGBLOCKS
        BY Zenon DEF LogInv, TypeOK
      <4>3. btail \in 0 .. lh.n - 1 /\ btail \in Slots
        BY <1>0, <4>1, <4>2, LogAssumption DEF Slots
      <4> QED
        BY <1>0, <3>0, <4>1, <4>3, Zenon DEF Logged
    <3>2. home' = [home EXCEPT ![b] = logdata[btail]] /\ head' = head /\ logdata' = logdata
      BY <2>3, <3>0, Zenon DEF RecoverInstall
    <3>3. \A c \in Blocks \ Logged(head) : home'[c] = home[c]
      BY <1>0, <3>1, <3>2, Zenon
    <3>4. Durable' = Durable
      <4>1. Recovered(head, logdata, home') = Recovered(head, logdata, home)
        BY <3>3, SameRecovered
      <4> QED
        BY <3>2, <4>1, Zenon DEF Durable, Recovered
    <3> QED
      BY <2>1, <2>3, <3>4, Zenon DEF RecoverInstall, Memory
  <2>4. CASE RecoverErase
    <3>1. head = lh /\ InHome(lh.n)
      BY <2>1, <2>4 DEF RecoverErase, BootInv
    <3>2. \A i \in Entries(lh) : home[lh.block[i]] = logdata[i]
      BY <3>1 DEF InHome, Entries
    <3>3. home = [b \in Blocks |-> home[b]]
      BY <1>0, Zenon
    <3>4. Recovered(lh, logdata, home) = home
      BY <1>0, <3>2, <3>3, Installed
    <3>5. head' = NoHeader /\ home' = home /\ cache' = cache /\ boot' = "up"
      BY <2>4 DEF RecoverErase, buffers
    <3>6. Durable = home /\ Durable' = home
      BY <1>0, <3>1, <3>4, <3>5, NothingToRecover, Zenon DEF Durable
    <3> QED
      BY <2>1, <3>5, <3>6 DEF Memory
  <2> QED
    BY <1>13, <2>2, <2>3, <2>4 DEF Recovery
<1>14. ASSUME NEW p \in Procs, CommitStep(p)
       PROVE  Atomic!DiskNext \/ UNCHANGED <<Durable, Memory, Active>>
  BY <1>5, <1>6, <1>7, <1>8, <1>9, <1>10, <1>14 DEF CommitStep, Atomic!DiskNext
<1>15. ASSUME NEW p \in Procs, ProcStep(p)
       PROVE  Atomic!DiskNext \/ UNCHANGED <<Durable, Memory, Active>>
  BY <1>1, <1>2, <1>k, <1>3, <1>4, <1>14, <1>15 DEF ProcStep, Atomic!DiskNext
<1> QED
  BY <1>11, <1>12, <1>13, <1>15 DEF Next, Atomic!DiskNext

\* The log implements AtomicDisk: whatever the crashes, all of the writes of a
\* group of operations reach the disk at once, in write_head(), or none does.
THEOREM AtomicTheorem == Spec => AtomicWrites
<1>1. Init => Atomic!DiskInit
  <2> SUFFICES ASSUME Init PROVE Atomic!DiskInit
    OBVIOUS
  <2>1. home \in [Blocks -> Values]
    BY LogAssumption DEF Init
  <2>2. Durable = [b \in Blocks |-> Zero]
    BY <2>1, NothingToRecover DEF Init, Durable
  <2> QED
    BY <2>2 DEF Init, Atomic!DiskInit
<1>2. LogInv /\ LogInv' /\ [Next]_vars => [Atomic!DiskNext]_(Atomic!diskVars)
  <2>1. UNCHANGED vars => UNCHANGED <<Durable, Memory, Active>>
    BY DEF vars, disk, buffers, procs, Durable, Memory, Active
  <2>2. <<Durable, Memory, Active>> = Atomic!diskVars
    BY DEF Atomic!diskVars, Memory, Active
  <2>3. UNCHANGED <<Durable, Memory, Active>> => UNCHANGED Atomic!diskVars
    BY DEF Atomic!diskVars, Memory, Active
  <2> QED
    BY AtomicStep, <2>1, <2>3
<1> QED
  BY <1>1, <1>2, LogInvariant, PTL DEF Spec, AtomicWrites, Atomic!DiskSpec
=============================================================================
