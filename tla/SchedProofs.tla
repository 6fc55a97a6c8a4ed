---------------------------- MODULE SchedProofs ----------------------------
EXTENDS Sched, TLAPS

\* The time the provers are allowed for a step.
USE SMTT(30), ZenonT(30)

LEMMA ZeroType == 0 \in Procs /\ 0 \in Levels /\ 0 \in 0 .. TickCap /\ 0 \in 0 .. WaitCap
BY SizeAssumption DEF Procs, Levels

LEMMA SuccType ==
  /\ \A i \in Procs : i + 1 < NPROC => i + 1 \in Procs
  /\ \A q \in Levels : q + 1 < NQUEUES => q + 1 \in Levels
BY SizeAssumption DEF Procs, Levels

LEMMA IndexType ==
  /\ \A i, j \in Procs : (i + j) % NPROC \in Procs
  /\ \A i \in Procs : NextIndex(i) \in Procs
<1>1. \A n \in Nat : n % NPROC \in Procs
  BY SizeAssumption DEF Procs
<1>2. \A i, j \in Procs : i + j \in Nat /\ i + 1 \in Nat
  BY SizeAssumption DEF Procs
<1> QED
  BY <1>1, <1>2 DEF NextIndex

LEMMA SliceType ==
  ASSUME NEW l \in Levels
  PROVE  get_time_slice(l) \in 0 .. TickCap
BY SizeAssumption, SliceAssumption DEF get_time_slice

LEMMA AtLevelType ==
  ASSUME NEW r \in ProcRecords, NEW l \in Levels
  PROVE  AtLevel(r, l) \in ProcRecords
<1>1. get_time_slice(l) \in 0 .. TickCap
  BY SliceType
<1>2. 0 \in 0 .. TickCap /\ 0 \in 0 .. WaitCap
  BY SizeAssumption
<1> QED
  BY <1>1, <1>2, Zenon DEF AtLevel, ProcRecords

LEMMA WaitedType ==
  ASSUME NEW r \in ProcRecords
  PROVE  Waited(r) \in ProcRecords
<1>1. Bump(r.wait_timer_ticks, WaitCap) \in 0 .. WaitCap
  BY SizeAssumption DEF Bump, ProcRecords
<1>2. r.queue_level > 0 => r.queue_level - 1 \in Levels
  <2>1. r.queue_level \in Levels
    BY DEF ProcRecords
  <2> QED
    BY <2>1, SizeAssumption DEF Levels
<1>3. r.queue_level > 0 => AtLevel(r, r.queue_level - 1) \in ProcRecords
  BY <1>2, AtLevelType
<1>4. [r EXCEPT !.wait_timer_ticks = Bump(r.wait_timer_ticks, WaitCap)] \in ProcRecords
  BY <1>1 DEF ProcRecords
<1> QED
  BY <1>3, <1>4 DEF Waited

LEMMA DemotedType ==
  ASSUME NEW r \in ProcRecords
  PROVE  Demoted(r) \in ProcRecords
<1>1. r.queue_level < NQUEUES - 1 => r.queue_level + 1 \in Levels
  <2>1. r.queue_level \in Levels
    BY DEF ProcRecords
  <2> QED
    BY <2>1, SizeAssumption DEF Levels
<1> QED
  BY <1>1, AtLevelType DEF Demoted

LEMMA AllocatedType ==
  ASSUME NEW r \in ProcRecords
  PROVE  Allocated(r) \in ProcRecords
<1>1. AtLevel(r, 0) \in ProcRecords
  BY AtLevelType, SizeAssumption DEF Levels
<1> QED
  BY <1>1, Zenon DEF Allocated, ProcRecords, States, Contexts

LEMMA FreedType ==
  ASSUME NEW r \in ProcRecords
  PROVE  Freed(r) \in ProcRecords
<1>1. 0 \in 0 .. TickCap /\ 0 \in 0 .. WaitCap /\ 0 \in Levels
  BY SizeAssumption DEF Levels
<1> QED
  BY <1>1, Zenon DEF Freed, ProcRecords, States, Chans

-----------------------------------------------------------------------------
(* SmpInv *)

\* Steps that leave alone what SmpInv is about: the process table keeps
\* parents, channels and contexts, and wakes at most some sleepers; CPU c
\* stays in the process it runs, or stays in the scheduler loop.
QuietTable ==
  /\ proc' \in [Procs -> ProcRecords]
  /\ \A x \in Procs :
       /\ proc'[x].parent = proc[x].parent
       /\ proc'[x].chan = proc[x].chan
       /\ proc'[x].context = proc[x].context
       /\ proc[x].queue_level = 0 => proc'[x].queue_level = 0
       /\ \/ proc'[x].state = proc[x].state
          \/ proc[x].state = "SLEEPING" /\ proc'[x].state = "RUNNABLE"

QuietCpu(c) ==
  \/ cpu' = cpu
  \/ \E k \in CpuRecords :
       /\ cpu' = [cpu EXCEPT ![c] = k]
       /\ \/ /\ cpu[c].pc \in ProcPCs
             /\ k.proc = cpu[c].proc
             /\ k.pc \in (ProcPCs \cup PanicPCs) \ {"fork1", "fork2", "waitsleep"}
          \/ /\ k.pc \in SchedPCs /\ k.proc = NoProc
             /\ k.pc = "dispatch" => k.chosen \in Procs

LEMMA QuietStep ==
  ASSUME SmpInv, NEW c \in CPUs, QuietTable, QuietCpu(c),
         rr_state' \in [CPUs -> [Levels -> Procs]], wait_lock' = wait_lock
  PROVE  SmpInv'
<1>1. \A x \in Procs : ZombieKids(x)' \subseteq ZombieKids(x)
  BY DEF QuietTable, ZombieKids, Kids
<1>2. TypeOK'
  BY Zenon DEF SmpInv, TypeOK, QuietTable, QuietCpu
<1>3. LiveAtTop'
  BY DEF SmpInv, LiveAtTop, QuietTable
<1>4. NoLostExit'
  BY <1>1 DEF SmpInv, NoLostExit, QuietTable
<1>5. ASSUME NEW d \in CPUs PROVE CpuOK(d)'
  <2>1. CpuOK(d)
    BY DEF SmpInv
  <2>2. cpu[d].pc \in ProcPCs =>
          /\ cpu[d].proc \in Procs
          /\ proc'[cpu[d].proc].state \in {"RUNNING", "RUNNABLE"}
          /\ proc'[cpu[d].proc].queue_level = 0
    BY <2>1 DEF CpuOK, QuietTable
  <2>3. CASE cpu'[d] = cpu[d]
    BY <2>1, <2>2, <2>3 DEF CpuOK, ProcPCs, ZombieKids, Kids, QuietTable
  <2>4. CASE cpu'[d] # cpu[d]
    <3>1. PICK k \in CpuRecords :
            /\ cpu' = [cpu EXCEPT ![c] = k]
            /\ \/ /\ cpu[c].pc \in ProcPCs
                  /\ k.proc = cpu[c].proc
                  /\ k.pc \in (ProcPCs \cup PanicPCs) \ {"fork1", "fork2", "waitsleep"}
               \/ /\ k.pc \in SchedPCs /\ k.proc = NoProc
                  /\ k.pc = "dispatch" => k.chosen \in Procs
      BY <2>4 DEF QuietCpu
    <3>2. d = c /\ cpu'[d] = k
      BY <2>4, <3>1 DEF SmpInv, TypeOK
    <3> QED
      BY <2>1, <2>2, <3>1, <3>2, Zenon DEF CpuOK, ProcPCs, SchedPCs, PanicPCs
  <2> QED
    BY <2>3, <2>4
<1> QED
  BY <1>2, <1>3, <1>4, <1>5 DEF SmpInv

LEMMA PromoteQuiet ==
  ASSUME SmpInv, NEW c \in CPUs, SchedPromote(c)
  PROVE  SmpInv'
<1> DEFINE x == cpu[c].p
<1>1. x \in Procs /\ cpu[c] \in CpuRecords /\ proc \in [Procs -> ProcRecords]
  BY DEF SmpInv, TypeOK, CpuRecords
<1>2. Waited(proc[x]) \in ProcRecords
  BY <1>1, WaitedType
<1>3. /\ Waited(proc[x]).parent = proc[x].parent
      /\ Waited(proc[x]).chan = proc[x].chan
      /\ Waited(proc[x]).context = proc[x].context
      /\ Waited(proc[x]).state = proc[x].state
      /\ proc[x].queue_level = 0 => Waited(proc[x]).queue_level = 0
  BY <1>1 DEF Waited, AtLevel, ProcRecords
<1>4. QuietTable
  BY <1>1, <1>2, <1>3, Zenon DEF SchedPromote, QuietTable
<1>5. 0 \in Procs /\ 0 \in Levels /\ (x + 1 < NPROC => x + 1 \in Procs)
  BY <1>1, SizeAssumption DEF Procs, Levels
<1>6. [SchedLoop EXCEPT !.pc = "choose"] \in CpuRecords
  BY <1>5 DEF SchedLoop, CpuRecords, SchedPCs
<1>7. x + 1 < NPROC => [cpu[c] EXCEPT !.p = x + 1] \in CpuRecords
  BY <1>1, <1>5 DEF CpuRecords
<1>8. CpuOK(c)
  BY DEF SmpInv
<1>9. QuietCpu(c)
  <2>1. CASE x + 1 < NPROC
    <3>1. cpu' = [cpu EXCEPT ![c] = [cpu[c] EXCEPT !.p = x + 1]]
      BY <2>1 DEF SchedPromote, At
    <3>2. /\ [cpu[c] EXCEPT !.p = x + 1].pc = "promote"
          /\ [cpu[c] EXCEPT !.p = x + 1].proc = NoProc
      BY <1>1, <1>8 DEF SchedPromote, CpuOK, SchedPCs, CpuRecords
    <3> QED
      BY <2>1, <1>7, <3>1, <3>2, Zenon DEF QuietCpu, SchedPCs
  <2>2. CASE ~(x + 1 < NPROC)
    <3>1. cpu' = [cpu EXCEPT ![c] = [SchedLoop EXCEPT !.pc = "choose"]]
      BY <2>2 DEF SchedPromote, At
    <3> QED
      BY <1>6, <3>1, Zenon DEF QuietCpu, SchedPCs, SchedLoop
  <2> QED
    BY <2>1, <2>2
<1> QED
  BY <1>4, <1>9, QuietStep DEF SchedPromote, SmpInv, TypeOK

LEMMA ChooseQuiet ==
  ASSUME SmpInv, NEW c \in CPUs, SchedChoose(c)
  PROVE  SmpInv'
<1> DEFINE idx == (rr_state[c][cpu[c].q] + cpu[c].checked) % NPROC
<1>1. /\ cpu[c] \in CpuRecords /\ proc \in [Procs -> ProcRecords]
      /\ cpu[c].q \in Levels /\ cpu[c].checked \in Procs
      /\ rr_state[c][cpu[c].q] \in Procs
      /\ rr_state \in [CPUs -> [Levels -> Procs]]
  BY DEF SmpInv, TypeOK, CpuRecords
<1>3. idx \in Procs /\ NextIndex(idx) \in Procs
  BY <1>1, IndexType
<1>5. QuietTable
  BY <1>1, Zenon DEF SchedChoose, QuietTable
<1>6. rr_state' \in [CPUs -> [Levels -> Procs]]
  <2>1. CASE rr_state' = rr_state
    BY <1>1, <2>1
  <2>2. CASE rr_state' = [rr_state EXCEPT ![c][cpu[c].q] = NextIndex(idx)]
    <3> HIDE DEF idx
    <3> QED
      BY <1>1, <1>3, <2>2
  <2> QED
    BY <2>1, <2>2, Zenon DEF SchedChoose
<1>7. /\ 0 \in Procs /\ 0 \in Levels
      /\ cpu[c].checked + 1 < NPROC => cpu[c].checked + 1 \in Procs
      /\ cpu[c].q + 1 < NQUEUES => cpu[c].q + 1 \in Levels
  BY <1>1, ZeroType, SuccType
<1>8. cpu[c].pc = "choose" /\ cpu[c].proc = NoProc
  BY Zenon DEF SmpInv, CpuOK, SchedChoose, SchedPCs
<1>9. QuietCpu(c)
  <2>1. CASE cpu' = [cpu EXCEPT ![c] =
                       [SchedLoop EXCEPT !.pc = "dispatch", !.chosen = idx]]
    <3>1. [SchedLoop EXCEPT !.pc = "dispatch", !.chosen = idx] \in CpuRecords
      BY <1>3, <1>7, Zenon DEF SchedLoop, CpuRecords, SchedPCs
    <3> QED
      BY <1>3, <2>1, <3>1, Zenon DEF QuietCpu, SchedPCs, SchedLoop
  <2>2. CASE /\ cpu[c].checked + 1 < NPROC
             /\ cpu' = [cpu EXCEPT ![c] = [cpu[c] EXCEPT !.checked = cpu[c].checked + 1]]
    <3> DEFINE k == [cpu[c] EXCEPT !.checked = cpu[c].checked + 1]
    <3>1. k \in CpuRecords /\ k.pc = "choose" /\ k.proc = NoProc
      BY <1>1, <1>7, <1>8, <2>2 DEF CpuRecords
    <3> QED
      BY <2>2, <3>1, Zenon DEF QuietCpu, SchedPCs
  <2>3. CASE /\ cpu[c].q + 1 < NQUEUES
             /\ cpu' = [cpu EXCEPT ![c] = [cpu[c] EXCEPT !.q = cpu[c].q + 1, !.checked = 0]]
    <3> DEFINE k == [cpu[c] EXCEPT !.q = cpu[c].q + 1, !.checked = 0]
    <3>1. k \in CpuRecords /\ k.pc = "choose" /\ k.proc = NoProc
      BY <1>1, <1>7, <1>8, <2>3, Zenon DEF CpuRecords
    <3> QED
      BY <2>3, <3>1, Zenon DEF QuietCpu, SchedPCs
  <2>4. CASE cpu' = [cpu EXCEPT ![c] = SchedLoop]
    <3>1. SchedLoop \in CpuRecords
      BY <1>7 DEF SchedLoop, CpuRecords, SchedPCs
    <3> QED
      BY <2>4, <3>1, Zenon DEF QuietCpu, SchedPCs, SchedLoop
  <2> QED
    BY <2>1, <2>2, <2>3, <2>4, Zenon DEF SchedChoose, At
<1> QED
  BY <1>5, <1>6, <1>9, QuietStep, Zenon DEF SchedChoose

LEMMA SameTableQuiet ==
  ASSUME SmpInv, proc' = proc
  PROVE  QuietTable
BY DEF SmpInv, TypeOK, QuietTable

LEMMA TouchQuiet ==
  ASSUME SmpInv, NEW x \in Procs, NEW r \in ProcRecords,
         proc' = [proc EXCEPT ![x] = r],
         r.parent = proc[x].parent, r.chan = proc[x].chan,
         r.context = proc[x].context, r.queue_level = proc[x].queue_level,
         r.state = proc[x].state \/ (proc[x].state = "SLEEPING" /\ r.state = "RUNNABLE")
  PROVE  QuietTable
BY DEF SmpInv, TypeOK, QuietTable

LEMMA GotoQuiet ==
  ASSUME SmpInv, NEW c \in CPUs, cpu[c].pc \in ProcPCs,
         NEW pc \in (ProcPCs \cup PanicPCs) \ {"fork1", "fork2", "waitsleep"},
         Goto(c, pc)
  PROVE  QuietCpu(c)
<1> DEFINE k == [cpu[c] EXCEPT !.pc = pc]
<1>1. cpu[c] \in CpuRecords
  BY DEF SmpInv, TypeOK
<1>2. k \in CpuRecords /\ k.pc = pc /\ k.proc = cpu[c].proc
  BY <1>1 DEF CpuRecords
<1>3. cpu' = [cpu EXCEPT ![c] = k]
  BY DEF Goto, At
<1> QED
  BY <1>2, <1>3, Zenon DEF QuietCpu

LEMMA SimpleQuiet ==
  ASSUME SmpInv, NEW c \in CPUs,
         \/ Syscall(c) \/ UserTrap(c) \/ Return(c) \/ BootDone(c)
         \/ SysExit(c) \/ SysWait(c) \/ KwaitFail(c)
         \/ kexit(c) /\ cpu[c].proc = InitProc
  PROVE  SmpInv'
<1>1. PICK pc \in {"user", "kernel", "ret", "wait", "exit", "init exiting"} :
        /\ cpu[c].pc \in ProcPCs /\ Goto(c, pc)
        /\ UNCHANGED <<proc, rr_state, wait_lock>>
  BY Zenon DEF Syscall, UserTrap, Return, BootDone, SysExit, SysWait, KwaitFail, kexit,
         UserOrExit, ProcPCs
<1>2. pc \in (ProcPCs \cup PanicPCs) \ {"fork1", "fork2", "waitsleep"}
  BY Zenon DEF ProcPCs, PanicPCs
<1>3. QuietTable /\ QuietCpu(c)
  BY <1>1, <1>2, SameTableQuiet, GotoQuiet, Zenon
<1> QED
  BY <1>1, <1>3, QuietStep, Zenon DEF SmpInv, TypeOK

LEMMA UserFaultQuiet ==
  ASSUME SmpInv, NEW c \in CPUs, UserFault(c)
  PROVE  SmpInv'
<1> DEFINE x == cpu[c].proc
           r == [proc[x] EXCEPT !.killed = TRUE]
<1>1. x \in Procs /\ proc[x] \in ProcRecords /\ cpu[c].pc \in ProcPCs
  BY DEF SmpInv, TypeOK, CpuOK, UserFault, ProcPCs
<1>2. r \in ProcRecords
  BY <1>1, Zenon DEF ProcRecords
<1>3. proc' = [proc EXCEPT ![x] = r]
  BY <1>1 DEF UserFault, SmpInv, TypeOK
<1>4. QuietTable
  BY <1>1, <1>2, <1>3, TouchQuiet, Zenon DEF ProcRecords
<1>5. "exit" \in (ProcPCs \cup PanicPCs) \ {"fork1", "fork2", "waitsleep"}
  BY DEF ProcPCs
<1>6. QuietCpu(c)
  BY <1>1, <1>5, GotoQuiet DEF UserFault
<1> QED
  BY <1>4, <1>6, QuietStep, Zenon DEF UserFault, SmpInv, TypeOK

LEMMA KernelTimerQuiet ==
  ASSUME SmpInv, NEW c \in CPUs, KernelTimer(c)
  PROVE  SmpInv'
<1> DEFINE x == cpu[c].proc
           r == [proc[x] EXCEPT !.timer_ticks_used = Bump(proc[x].timer_ticks_used, TickCap)]
<1>1. x \in Procs /\ proc[x] \in ProcRecords
  BY DEF SmpInv, TypeOK, CpuOK, KernelTimer
<1>2. \A n \in 0 .. TickCap : Bump(n, TickCap) \in 0 .. TickCap
  BY SizeAssumption DEF Bump
<1>3. r \in ProcRecords
  BY <1>1, <1>2 DEF ProcRecords
<1>4. proc' = [proc EXCEPT ![x] = r]
  BY <1>1 DEF KernelTimer, SmpInv, TypeOK
<1>5. QuietTable
  BY <1>1, <1>3, <1>4, TouchQuiet, Zenon DEF ProcRecords
<1> QED
  BY <1>5, QuietStep, Zenon DEF KernelTimer, SmpInv, TypeOK, QuietCpu

LEMMA WakeupQuiet ==
  ASSUME SmpInv, NEW c \in CPUs, NEW p \in Procs, Wakeup(c, p)
  PROVE  SmpInv'
<1> DEFINE r == [proc[p] EXCEPT !.state = "RUNNABLE"]
<1>1. proc[p] \in ProcRecords
  BY DEF SmpInv, TypeOK
<1>2. r \in ProcRecords
  BY <1>1 DEF ProcRecords, States
<1>3. proc' = [proc EXCEPT ![p] = r]
  BY <1>1 DEF Wakeup, SmpInv, TypeOK
<1>4. QuietTable
  BY <1>1, <1>2, <1>3, TouchQuiet, Zenon DEF ProcRecords, Wakeup
<1> QED
  BY <1>4, QuietStep DEF Wakeup, SmpInv, TypeOK, QuietCpu

LEMMA KillQuiet ==
  ASSUME SmpInv, NEW c \in CPUs, NEW p \in Victims, kkill(c, p)
  PROVE  SmpInv'
<1>1. p \in Procs /\ proc[p] \in ProcRecords /\ cpu[c].pc \in ProcPCs
  BY NullAssumption DEF SmpInv, TypeOK, kkill, ProcPCs
<1>2. Killed(proc[p]) \in ProcRecords
  BY <1>1, Zenon DEF ProcRecords, States, Killed
<1>3. proc' = [proc EXCEPT ![p] = Killed(proc[p])]
  BY DEF kkill
<1>4. QuietTable
  BY <1>1, <1>2, <1>3, TouchQuiet, Zenon DEF ProcRecords, Killed
<1>5. "ret" \in (ProcPCs \cup PanicPCs) \ {"fork1", "fork2", "waitsleep"}
  BY DEF ProcPCs
<1>6. QuietCpu(c)
  BY <1>1, <1>5, GotoQuiet DEF kkill
<1> QED
  BY <1>4, <1>6, QuietStep DEF kkill, SmpInv, TypeOK

\* The other CPUs, when CPU c changes the table: it must leave the processes
\* they run alone, and not give a zombie child to one about to sleep.
LEMMA OtherCpus ==
  ASSUME SmpInv, NEW c \in CPUs, NEW d \in CPUs, cpu'[d] = cpu[d],
         cpu[d].pc \in ProcPCs =>
           /\ proc'[cpu[d].proc].state \in {"RUNNING", "RUNNABLE"}
           /\ proc'[cpu[d].proc].queue_level = 0,
         cpu[d].pc = "waitsleep" =>
           /\ wait_lock' = wait_lock
           /\ \A k \in Procs : proc'[k].state = "ZOMBIE" =>
                proc[k].state = "ZOMBIE" /\ proc'[k].parent = proc[k].parent
  PROVE  CpuOK(d)'
<1>1. CpuOK(d)
  BY DEF SmpInv
<1> QED
  BY <1>1 DEF CpuOK, ZombieKids, Kids

LEMMA LoopType == SchedLoop \in CpuRecords
BY ZeroType DEF SchedLoop, CpuRecords, SchedPCs

LEMMA SwitchOutInv ==
  ASSUME SmpInv, ~StackShared, NEW c \in CPUs, cpu[c].pc \in ProcPCs,
         NEW r \in ProcRecords,
         r.parent = proc[cpu[c].proc].parent,
         r.queue_level = proc[cpu[c].proc].queue_level,
         r.voluntarily_yielded = TRUE,
         r.state \in {"RUNNABLE", "SLEEPING"},
         r.state = "SLEEPING" /\ r.chan = "wait" => cpu[c].pc = "waitsleep",
         SwitchOut(c, r),
         rr_state' = rr_state,
         wait_lock' = wait_lock \/ (cpu[c].pc = "waitsleep" /\ wait_lock' = NoCpu)
  PROVE  SmpInv'
<1> DEFINE x == cpu[c].proc
<1>1. CpuOK(c) /\ TypeOK
  BY DEF SmpInv
<1>2. x \in Procs /\ proc[x].queue_level = 0
  BY <1>1 DEF CpuOK
<1>3. proc' = [proc EXCEPT ![x] = r]
  BY Zenon DEF SwitchOut, Demoted
<1>4. cpu' = [cpu EXCEPT ![c] = SchedLoop]
  BY DEF SwitchOut, At
<1>5. TypeOK'
  BY <1>1, <1>2, <1>3, <1>4, LoopType DEF TypeOK
<1>6. LiveAtTop'
  BY <1>1, <1>2, <1>3 DEF SmpInv, LiveAtTop, TypeOK
<1>7. \A k \in Procs : proc'[k].state = "ZOMBIE" =>
                proc[k].state = "ZOMBIE" /\ proc'[k].parent = proc[k].parent
  BY <1>1, <1>2, <1>3 DEF TypeOK
<1>8. NoLostExit'
  <2> SUFFICES ASSUME NEW p \in Procs, NEW k \in Procs,
                      proc'[p].state = "SLEEPING", proc'[p].chan = "wait",
                      proc'[k].parent = p, proc'[k].state = "ZOMBIE"
               PROVE  FALSE
    BY DEF NoLostExit, ZombieKids, Kids
  <2>1. proc[k].state = "ZOMBIE" /\ proc[k].parent = p
    BY <1>7
  <2>2. CASE p = x
    BY <1>1, <1>2, <1>3, <2>1, <2>2 DEF TypeOK, CpuOK, ZombieKids, Kids
  <2>3. CASE p # x
    BY <1>1, <1>3, <2>1, <2>3 DEF TypeOK, SmpInv, NoLostExit, ZombieKids, Kids
  <2> QED
    BY <2>2, <2>3
<1>9. ASSUME NEW d \in CPUs PROVE CpuOK(d)'
  <2>1. CASE d = c
    <3>1. cpu'[d] = SchedLoop
      BY <1>1, <1>4, <2>1 DEF TypeOK
    <3> QED
      BY <3>1 DEF CpuOK, SchedLoop, ProcPCs
  <2>2. CASE d # c
    <3>1. cpu'[d] = cpu[d] /\ CpuOK(d)
      BY <1>1, <1>4, <2>2 DEF TypeOK, SmpInv
    <3>2. cpu[d].pc \in ProcPCs => cpu[d].proc # x
      BY <1>2, <2>2, <3>1, NullAssumption DEF StackShared, CpuOK
    <3>3. cpu[d].pc \in ProcPCs => proc'[cpu[d].proc] = proc[cpu[d].proc]
      BY <1>1, <1>3, <3>1, <3>2 DEF TypeOK, CpuOK
    <3>4. cpu[d].pc = "waitsleep" => wait_lock' = wait_lock
      BY <1>1, <2>2, <3>1, Zenon DEF CpuOK
    <3> QED
      BY <1>7, <3>1, <3>3, <3>4, OtherCpus DEF CpuOK
  <2> QED
    BY <2>1, <2>2
<1> QED
  BY <1>5, <1>6, <1>8, <1>9 DEF SmpInv

LEMMA YieldInv ==
  ASSUME SmpInv, ~StackShared, NEW c \in CPUs, UserTimer(c)
  PROVE  SmpInv'
<1> DEFINE x == cpu[c].proc
<1>1. x \in Procs /\ proc[x] \in ProcRecords /\ cpu[c].pc \in ProcPCs
  BY Zenon DEF SmpInv, TypeOK, CpuOK, UserTimer, ProcPCs
<1>2. CASE proc[x].killed
  <2>1. Goto(c, "exit") /\ proc' = proc
    BY <1>2, Zenon DEF UserTimer
  <2>2. "exit" \in (ProcPCs \cup PanicPCs) \ {"fork1", "fork2", "waitsleep"}
    BY DEF ProcPCs
  <2>3. QuietTable /\ QuietCpu(c)
    BY <1>1, <2>1, <2>2, SameTableQuiet, GotoQuiet
  <2> QED
    BY <2>3, QuietStep DEF UserTimer, SmpInv, TypeOK
<1>3. CASE ~proc[x].killed
  <2> DEFINE r == [proc[x] EXCEPT !.state = "RUNNABLE",
                                  !.voluntarily_yielded = TRUE, !.context = "user"]
  <2>1. /\ r \in ProcRecords /\ r.parent = proc[x].parent
        /\ r.queue_level = proc[x].queue_level
        /\ r.voluntarily_yielded = TRUE /\ r.state = "RUNNABLE"
    BY <1>1, Zenon DEF ProcRecords, States, Contexts
  <2>2. SwitchOut(c, r)
    BY <1>3 DEF UserTimer, yield
  <2> QED
    BY <1>1, <2>1, <2>2, SwitchOutInv, Zenon DEF UserTimer
<1> QED
  BY <1>2, <1>3

LEMMA SleepInv ==
  ASSUME SmpInv, ~StackShared, NEW c \in CPUs, SleepIO(c) \/ KwaitSleep(c)
  PROVE  SmpInv'
<1> DEFINE x == cpu[c].proc
<1>1. x \in Procs /\ proc[x] \in ProcRecords /\ cpu[c].pc \in ProcPCs
  BY DEF SmpInv, TypeOK, CpuOK, SleepIO, KwaitSleep, ProcPCs
<1>2. CASE SleepIO(c)
  <2> DEFINE r == [proc[x] EXCEPT !.state = "SLEEPING", !.chan = "io",
                         !.voluntarily_yielded = TRUE, !.context = cpu[c].pc]
  <2>1. cpu[c].pc \in Contexts
    BY <1>2 DEF SleepIO, Contexts
  <2>2. /\ r \in ProcRecords /\ r.parent = proc[x].parent
        /\ r.queue_level = proc[x].queue_level /\ r.chan = "io"
        /\ r.voluntarily_yielded = TRUE /\ r.state = "SLEEPING"
    BY <1>1, <2>1, Zenon DEF ProcRecords, States, Chans
  <2>3. SwitchOut(c, r)
    BY <1>2 DEF SleepIO
  <2> QED
    BY <1>1, <1>2, <2>2, <2>3, SwitchOutInv, Zenon DEF SleepIO
<1>3. CASE KwaitSleep(c)
  <2> DEFINE r == [proc[x] EXCEPT !.state = "SLEEPING", !.chan = "wait",
                         !.voluntarily_yielded = TRUE, !.context = "wait"]
  <2>1. /\ r \in ProcRecords /\ r.parent = proc[x].parent
        /\ r.queue_level = proc[x].queue_level
        /\ r.voluntarily_yielded = TRUE /\ r.state = "SLEEPING"
    BY <1>1, Zenon DEF ProcRecords, States, Chans, Contexts
  <2>2. SwitchOut(c, r)
    BY <1>3 DEF KwaitSleep
  <2> QED
    BY <1>1, <1>3, <2>1, <2>2, SwitchOutInv, Zenon DEF KwaitSleep
<1> QED
  BY <1>2, <1>3

LEMMA DispatchInv ==
  ASSUME SmpInv, NEW c \in CPUs, SchedDispatch(c)
  PROVE  SmpInv'
<1> DEFINE x == cpu[c].chosen
           ch == IF proc[x].context \in Sleeps THEN "none" ELSE proc[x].chan
           r == [proc[x] EXCEPT !.state = "RUNNING", !.voluntarily_yielded = FALSE,
                                !.chan = ch]
           k == [SchedLoop EXCEPT !.pc = Resumed(x), !.proc = x]
<1>1. CpuOK(c) /\ TypeOK
  BY DEF SmpInv
<1>2. x \in Procs /\ proc[x] \in ProcRecords
  BY <1>1 DEF CpuOK, TypeOK, SchedDispatch
<1>3. /\ r \in ProcRecords /\ r.state = "RUNNING"
      /\ r.queue_level = proc[x].queue_level
      /\ r.context = proc[x].context /\ r.parent = proc[x].parent
  BY <1>2, Zenon DEF ProcRecords, States, Chans
<1>4. proc' = [proc EXCEPT ![x] = r]
  BY <1>1, <1>2, Zenon DEF SchedDispatch, TypeOK
<1>5. /\ Resumed(x) \in (ProcPCs \cup PanicPCs) \ {"fork1", "fork2", "waitsleep"}
      /\ proc[x].context = "zombie" => Resumed(x) \in PanicPCs
  BY <1>2, Zenon DEF Resumed, ProcRecords, Contexts, ProcPCs, PanicPCs
<1>6. k \in CpuRecords /\ k.pc = Resumed(x) /\ k.proc = x
  BY <1>2, <1>5, LoopType, Zenon DEF CpuRecords, SchedLoop
<1>7. cpu' = [cpu EXCEPT ![c] = k]
  BY DEF SchedDispatch, At
<1>8. TypeOK'
  BY <1>1, <1>2, <1>3, <1>4, <1>6, <1>7 DEF TypeOK, SchedDispatch
<1>9. LiveAtTop'
  BY <1>1, <1>2, <1>3, <1>4 DEF SmpInv, LiveAtTop, TypeOK
<1>10. \A y \in Procs : proc'[y].state = "ZOMBIE" =>
                proc[y].state = "ZOMBIE" /\ proc'[y].parent = proc[y].parent
  BY <1>1, <1>2, <1>3, <1>4 DEF TypeOK
<1>11. NoLostExit'
  <2> SUFFICES ASSUME NEW p \in Procs, NEW y \in Procs,
                      proc'[p].state = "SLEEPING", proc'[p].chan = "wait",
                      proc'[y].parent = p, proc'[y].state = "ZOMBIE"
               PROVE  FALSE
    BY DEF NoLostExit, ZombieKids, Kids
  <2>1. p # x
    BY <1>1, <1>2, <1>3, <1>4 DEF TypeOK
  <2> QED
    BY <1>1, <1>4, <1>10, <2>1 DEF TypeOK, SmpInv, NoLostExit, ZombieKids, Kids
<1>12. ASSUME NEW d \in CPUs PROVE CpuOK(d)'
  <2>1. CASE d = c
    <3>1. cpu'[d] = k
      BY <1>1, <1>7, <2>1 DEF TypeOK
    <3>2. Resumed(x) \in ProcPCs => proc[x].queue_level = 0
      BY <1>2, <1>5, Zenon DEF SmpInv, LiveAtTop, ProcPCs, PanicPCs
    <3>3. proc'[x] = r
      BY <1>1, <1>2, <1>4, Zenon DEF TypeOK
    <3> HIDE DEF k, r, x
    <3> QED
      BY <1>2, <1>3, <1>5, <1>6, <3>1, <3>2, <3>3, Zenon
         DEF CpuOK, ProcPCs, PanicPCs, SchedPCs
  <2>2. CASE d # c
    <3>1. cpu'[d] = cpu[d] /\ CpuOK(d)
      BY <1>1, <1>7, <2>2 DEF TypeOK, SmpInv
    <3>2. cpu[d].pc \in ProcPCs =>
            /\ proc'[cpu[d].proc].state \in {"RUNNING", "RUNNABLE"}
            /\ proc'[cpu[d].proc].queue_level = 0
      BY <1>1, <1>2, <1>3, <1>4, <3>1 DEF TypeOK, CpuOK
    <3> QED
      BY <1>10, <3>1, <3>2, OtherCpus, Zenon DEF SchedDispatch
  <2> QED
    BY <2>1, <2>2
<1> QED
  BY <1>8, <1>9, <1>11, <1>12 DEF SmpInv

\* Actions of CPU c that rewrite one slot x other than a running process's,
\* without making it a zombie.
LEMMA SlotInv ==
  ASSUME SmpInv, NEW c \in CPUs, NEW x \in Procs, NEW r \in ProcRecords,
         NEW k \in CpuRecords,
         proc' = [proc EXCEPT ![x] = r],
         cpu' = [cpu EXCEPT ![c] = k],
         rr_state' = rr_state, wait_lock' = wait_lock,
         cpu[c].pc \in ProcPCs, k.proc = cpu[c].proc,
         k.pc \in ProcPCs \ {"waitsleep"},
         k.pc \in {"fork1", "fork2"} => k.np \in Procs,
         r.state \notin {"SLEEPING", "ZOMBIE"},
         \/ r.queue_level = 0
         \/ r.queue_level = proc[x].queue_level /\ r.context = proc[x].context,
         proc[x].state \in {"UNUSED", "ZOMBIE"} \/ r.state \in {"RUNNING", "RUNNABLE"}
  PROVE  SmpInv'
<1>1. TypeOK
  BY DEF SmpInv
<1>2. TypeOK'
  BY <1>1 DEF TypeOK
<1>3. LiveAtTop'
  BY <1>1 DEF SmpInv, LiveAtTop, TypeOK
<1>4. \A y \in Procs : proc'[y].state = "ZOMBIE" =>
                proc[y].state = "ZOMBIE" /\ proc'[y].parent = proc[y].parent
  BY <1>1 DEF TypeOK
<1>5. NoLostExit'
  BY <1>1, <1>4 DEF TypeOK, SmpInv, NoLostExit, ZombieKids, Kids
<1>6. ASSUME NEW d \in CPUs PROVE CpuOK(d)'
  <2>1. CpuOK(d)
    BY DEF SmpInv
  <2>2. cpu[d].pc \in ProcPCs =>
          /\ cpu[d].proc \in Procs
          /\ proc'[cpu[d].proc].state \in {"RUNNING", "RUNNABLE"}
          /\ proc'[cpu[d].proc].queue_level = 0
    BY <1>1, <2>1, Zenon DEF TypeOK, CpuOK
  <2>3. CASE d = c
    <3>1. cpu'[d] = k
      BY <1>1, <2>3 DEF TypeOK
    <3> QED
      BY <2>2, <2>3, <3>1, Zenon DEF CpuOK, ProcPCs, SchedPCs
  <2>4. CASE d # c
    <3>1. cpu'[d] = cpu[d]
      BY <1>1, <2>4 DEF TypeOK
    <3> QED
      BY <1>4, <2>2, <3>1, OtherCpus, Zenon
  <2> QED
    BY <2>3, <2>4
<1> QED
  BY <1>2, <1>3, <1>5, <1>6 DEF SmpInv

LEMMA ForkInv ==
  ASSUME SmpInv, NEW c \in CPUs, NEW np \in Procs,
         ForkAlloc(c, np) \/ ForkFail(c, np)
  PROVE  SmpInv'
<1> DEFINE x == cpu[c].proc
<1>1. /\ x \in Procs /\ proc[x].queue_level = 0 /\ cpu[c].pc \in ProcPCs
      /\ proc[x] \in ProcRecords /\ proc[np] \in ProcRecords
      /\ cpu[c] \in CpuRecords /\ proc[np].state = "UNUSED"
  BY DEF SmpInv, TypeOK, CpuOK, ForkAlloc, ForkFail, ProcPCs
<1>2. Allocated(proc[np]) \in ProcRecords
  BY <1>1, AllocatedType
<1>3. CASE ForkAlloc(c, np)
  <2> DEFINE r == [Allocated(proc[np]) EXCEPT
                     !.priority = proc[x].priority,
                     !.queue_level = proc[x].queue_level,
                     !.max_time_slice = get_time_slice(proc[x].queue_level)]
             k == [cpu[c] EXCEPT !.pc = "fork1", !.np = np]
  <2>1. proc[x].queue_level \in Levels /\ proc[x].priority \in Levels
    BY <1>1, Zenon DEF ProcRecords
  <2>2. get_time_slice(proc[x].queue_level) \in 0 .. TickCap
    BY <2>1, SliceType
  <2>3. r \in ProcRecords
    BY <1>2, <2>1, <2>2, Zenon DEF ProcRecords
  <2>4. r.state = "USED" /\ r.queue_level = 0
    BY <1>1, <1>2, Zenon DEF Allocated, AtLevel, ProcRecords
  <2>5. k \in CpuRecords /\ k.proc = x /\ k.pc = "fork1" /\ k.np = np
    BY <1>1, Zenon DEF CpuRecords, ProcPCs
  <2>6. proc' = [proc EXCEPT ![np] = r] /\ cpu' = [cpu EXCEPT ![c] = k]
    BY <1>3 DEF ForkAlloc, At
  <2> HIDE DEF r, k
  <2> QED
    BY <1>1, <1>3, <2>3, <2>4, <2>5, <2>6, SlotInv, Zenon DEF ForkAlloc, ProcPCs
<1>4. CASE ForkFail(c, np)
  <2>1. PICK ctx \in {proc[np].context, "forkret"} :
          proc' = [proc EXCEPT ![np] =
                     [Freed(Allocated(proc[np])) EXCEPT !.context = ctx]]
    BY <1>4, Zenon DEF ForkFail
  <2> DEFINE r == [Freed(Allocated(proc[np])) EXCEPT !.context = ctx]
             k == [cpu[c] EXCEPT !.pc = "ret"]
  <2>2. ctx \in Contexts
    BY <1>1 DEF ProcRecords, Contexts
  <2>3. Freed(Allocated(proc[np])) \in ProcRecords
    BY <1>2, FreedType
  <2>4. r \in ProcRecords
    BY <2>2, <2>3 DEF ProcRecords
  <2>5. r.state = "UNUSED" /\ r.queue_level = 0
    BY <1>2 DEF Freed, ProcRecords
  <2>6. k \in CpuRecords /\ k.proc = x /\ k.pc = "ret"
    BY <1>1 DEF CpuRecords, ProcPCs
  <2>7. proc' = [proc EXCEPT ![np] = r] /\ cpu' = [cpu EXCEPT ![c] = k]
    BY <1>4, <2>1, Zenon DEF ForkFail, Goto, At
  <2> HIDE DEF r, k
  <2> QED
    BY <1>1, <1>4, <2>4, <2>5, <2>6, <2>7, SlotInv, Zenon DEF ForkFail, ProcPCs
<1> QED
  BY <1>3, <1>4

LEMMA ForkRunnableInv ==
  ASSUME SmpInv, NEW c \in CPUs, ForkRunnable(c)
  PROVE  SmpInv'
<1> DEFINE np == cpu[c].np
           r == [proc[np] EXCEPT !.state = "RUNNABLE"]
           k == [cpu[c] EXCEPT !.pc = "ret", !.np = NoProc]
<1>1. /\ np \in Procs /\ proc[np] \in ProcRecords
      /\ cpu[c].pc \in ProcPCs /\ cpu[c] \in CpuRecords
  BY DEF SmpInv, TypeOK, CpuOK, ForkRunnable, ProcPCs
<1>2. /\ r \in ProcRecords /\ r.state = "RUNNABLE"
      /\ r.queue_level = proc[np].queue_level /\ r.context = proc[np].context
  BY <1>1 DEF ProcRecords, States
<1>3. k \in CpuRecords /\ k.proc = cpu[c].proc /\ k.pc = "ret"
  BY <1>1, Zenon DEF CpuRecords, ProcPCs
<1>4. proc' = [proc EXCEPT ![np] = r] /\ cpu' = [cpu EXCEPT ![c] = k]
  BY <1>1 DEF ForkRunnable, At, SmpInv, TypeOK
<1> HIDE DEF r, k
<1> QED
  BY <1>1, <1>2, <1>3, <1>4, SlotInv, Zenon DEF ForkRunnable, ProcPCs

LEMMA ReapInv ==
  ASSUME SmpInv, NEW c \in CPUs, KwaitReap(c)
  PROVE  SmpInv'
<1>1. PICK pp \in ZombieKids(cpu[c].proc) : proc' = [proc EXCEPT ![pp] = Freed(@)]
  BY Zenon DEF KwaitReap
<1> DEFINE r == Freed(proc[pp])
           k == [cpu[c] EXCEPT !.pc = "ret"]
<1>2. /\ pp \in Procs /\ proc[pp].state = "ZOMBIE" /\ proc[pp] \in ProcRecords
      /\ cpu[c].pc \in ProcPCs /\ cpu[c] \in CpuRecords
  BY DEF SmpInv, TypeOK, KwaitReap, ProcPCs, ZombieKids, Kids
<1>3. r \in ProcRecords /\ r.state = "UNUSED" /\ r.queue_level = 0
  BY <1>2, FreedType, Zenon DEF Freed, ProcRecords
<1>4. k \in CpuRecords /\ k.proc = cpu[c].proc /\ k.pc = "ret"
  BY <1>2 DEF CpuRecords, ProcPCs
<1>5. proc' = [proc EXCEPT ![pp] = r] /\ cpu' = [cpu EXCEPT ![c] = k]
  BY <1>1, Zenon DEF KwaitReap, Goto, At
<1> HIDE DEF r, k
<1> QED
  BY <1>2, <1>3, <1>4, <1>5, SlotInv, Zenon DEF KwaitReap, ProcPCs

LEMMA NobodyWaitsleep ==
  ASSUME SmpInv, wait_lock = NoCpu
  PROVE  \A d \in CPUs : cpu[d].pc # "waitsleep"
BY NullAssumption DEF SmpInv, CpuOK

LEMMA ForkParentInv ==
  ASSUME SmpInv, NEW c \in CPUs, ForkParent(c)
  PROVE  SmpInv'
<1> DEFINE np == cpu[c].np
           x == cpu[c].proc
           r == [proc[np] EXCEPT !.parent = x]
           k == [cpu[c] EXCEPT !.pc = "fork2"]
<1>1. CpuOK(c) /\ TypeOK
  BY DEF SmpInv
<1>2. /\ np \in Procs /\ proc[np] \in ProcRecords /\ x \in Procs
      /\ proc[x].state # "SLEEPING"
      /\ cpu[c].pc \in ProcPCs /\ cpu[c] \in CpuRecords
  BY <1>1 DEF TypeOK, CpuOK, ForkParent, ProcPCs
<1>3. /\ r \in ProcRecords /\ r.state = proc[np].state /\ r.chan = proc[np].chan
      /\ r.queue_level = proc[np].queue_level /\ r.context = proc[np].context
      /\ r.parent = x
  BY <1>2 DEF ProcRecords
<1>4. k \in CpuRecords /\ k.proc = x /\ k.pc = "fork2" /\ k.np = np
  BY <1>2 DEF CpuRecords, ProcPCs
<1>5. proc' = [proc EXCEPT ![np] = r]
  BY <1>1, <1>2 DEF ForkParent, TypeOK
<1>6. cpu' = [cpu EXCEPT ![c] = k] /\ UNCHANGED <<rr_state, wait_lock>>
  BY DEF ForkParent, Goto, At
<1>7. \A d \in CPUs : cpu[d].pc # "waitsleep"
  BY NobodyWaitsleep DEF ForkParent
<1> HIDE DEF np, x, r, k
<1>8. TypeOK'
  BY <1>1, <1>2, <1>3, <1>4, <1>5, <1>6, Zenon DEF TypeOK
<1>9. LiveAtTop'
  BY <1>1, <1>2, <1>3, <1>5 DEF SmpInv, LiveAtTop, TypeOK
<1>10. \A y \in Procs : /\ proc'[y].state = proc[y].state
                        /\ proc'[y].chan = proc[y].chan
                        /\ proc'[y].queue_level = proc[y].queue_level
                        /\ proc'[y].parent \in {proc[y].parent, x}
  BY <1>1, <1>2, <1>3, <1>5 DEF TypeOK
<1>11. NoLostExit'
  BY <1>2, <1>10 DEF SmpInv, NoLostExit, ZombieKids, Kids
<1>12. ASSUME NEW d \in CPUs PROVE CpuOK(d)'
  <2>1. CpuOK(d) /\ cpu[d].pc # "waitsleep"
    BY <1>7 DEF SmpInv
  <2>2. CASE d = c
    <3>1. cpu'[d] = k
      BY <1>1, <1>6, <2>2 DEF TypeOK
    <3>2. proc'[x].state \in {"RUNNING", "RUNNABLE"} /\ proc'[x].queue_level = 0
      BY <1>1, <1>2, <1>10, Zenon DEF CpuOK, x
    <3> QED
      BY <1>2, <1>4, <3>1, <3>2 DEF CpuOK, ProcPCs, SchedPCs
  <2>3. CASE d # c
    <3>1. cpu'[d] = cpu[d]
      BY <1>1, <1>6, <2>3 DEF TypeOK
    <3> QED
      BY <1>10, <2>1, <3>1, OtherCpus, Zenon DEF CpuOK
  <2> QED
    BY <2>2, <2>3
<1> QED
  BY <1>8, <1>9, <1>11, <1>12 DEF SmpInv

LEMMA KwaitBlockInv ==
  ASSUME SmpInv, NEW c \in CPUs, KwaitBlock(c)
  PROVE  SmpInv'
<1> DEFINE k == [cpu[c] EXCEPT !.pc = "waitsleep"]
<1>1. CpuOK(c) /\ TypeOK
  BY DEF SmpInv
<1>2. cpu[c] \in CpuRecords /\ cpu[c].pc \in ProcPCs
  BY <1>1 DEF TypeOK, KwaitBlock, ProcPCs
<1>3. k \in CpuRecords /\ k.proc = cpu[c].proc /\ k.pc = "waitsleep"
  BY <1>2 DEF CpuRecords, ProcPCs
<1>4. cpu' = [cpu EXCEPT ![c] = k] /\ wait_lock' = c /\ UNCHANGED <<proc, rr_state>>
  BY DEF KwaitBlock, Goto, At
<1>5. \A d \in CPUs : cpu[d].pc # "waitsleep"
  BY NobodyWaitsleep DEF KwaitBlock
<1> HIDE DEF k
<1>6. TypeOK'
  BY <1>1, <1>3, <1>4 DEF TypeOK
<1>7. LiveAtTop' /\ NoLostExit'
  BY <1>4 DEF SmpInv, LiveAtTop, NoLostExit, ZombieKids, Kids
<1>8. ASSUME NEW d \in CPUs PROVE CpuOK(d)'
  <2>1. CASE d = c
    <3>1. cpu'[d] = k
      BY <1>1, <1>4, <2>1 DEF TypeOK
    <3> QED
      BY <1>1, <1>2, <1>3, <1>4, <2>1, <3>1
         DEF CpuOK, KwaitBlock, ProcPCs, SchedPCs, ZombieKids, Kids
  <2>2. CASE d # c
    <3>1. cpu'[d] = cpu[d] /\ CpuOK(d)
      BY <1>1, <1>4, <2>2 DEF TypeOK, SmpInv
    <3> QED
      BY <1>4, <1>5, <3>1, OtherCpus, Zenon DEF CpuOK
  <2> QED
    BY <2>1, <2>2
<1> QED
  BY <1>6, <1>7, <1>8 DEF SmpInv

LEMMA ExitInv ==
  ASSUME SmpInv, ~StackShared, NEW c \in CPUs, kexit(c), cpu[c].proc # InitProc
  PROVE  SmpInv'
<1> DEFINE p == cpu[c].proc
           wakes == ({proc[p].parent} \cup (IF Kids(p) = {} THEN {} ELSE {InitProc}))
                       \ {p}
           after(x) == [proc[x] EXCEPT
                     !.parent = reparent(p, proc[x].parent),
                     !.state  = IF x = p THEN "ZOMBIE"
                                ELSE IF x \in wakes /\ proc[x].state = "SLEEPING"
                                        /\ proc[x].chan = "wait"
                                THEN "RUNNABLE" ELSE proc[x].state,
                     !.context = IF x = p THEN "zombie" ELSE proc[x].context]
<1>1. CpuOK(c) /\ TypeOK
  BY DEF SmpInv
<1>2. p \in Procs /\ p # InitProc /\ InitProc \in Procs
  BY <1>1, ZeroType, Zenon DEF CpuOK, kexit, ProcPCs, InitProc
<1>3. proc' = [x \in Procs |-> IF x = p THEN Demoted(after(p)) ELSE after(x)]
  BY Zenon DEF kexit
<1>4. cpu' = [cpu EXCEPT ![c] = SchedLoop] /\ UNCHANGED <<rr_state, wait_lock>>
  BY Zenon DEF kexit, At
<1>5. ASSUME NEW x \in Procs
      PROVE  /\ after(x) \in ProcRecords
             /\ after(x).chan = proc[x].chan
             /\ after(x).parent = reparent(p, proc[x].parent)
             /\ after(x).queue_level = proc[x].queue_level
             /\ after(x).context = IF x = p THEN "zombie" ELSE proc[x].context
             /\ after(x).state = IF x = p THEN "ZOMBIE"
                                 ELSE IF x \in wakes /\ proc[x].state = "SLEEPING"
                                         /\ proc[x].chan = "wait"
                                 THEN "RUNNABLE" ELSE proc[x].state
  <2>1. proc[x] \in ProcRecords
    BY <1>1 DEF TypeOK
  <2>2. reparent(p, proc[x].parent) \in Procs \cup {NoProc}
    BY <1>2, <2>1 DEF reparent, ProcRecords
  <2> HIDE DEF p, wakes
  <2> QED
    BY <2>1, <2>2, Zenon DEF ProcRecords, States, Contexts
<1> HIDE DEF after
<1>6. /\ Demoted(after(p)) \in ProcRecords
      /\ Demoted(after(p)).state = "ZOMBIE"
      /\ Demoted(after(p)).context = "zombie"
      /\ Demoted(after(p)).parent = reparent(p, proc[p].parent)
  BY <1>2, <1>5, DemotedType, Zenon DEF Demoted, AtLevel, ProcRecords
<1>7. \A x \in Procs :
        /\ proc'[x] \in ProcRecords
        /\ proc'[x].parent = reparent(p, proc[x].parent)
        /\ x = p => proc'[x].state = "ZOMBIE" /\ proc'[x].context = "zombie"
        /\ x # p => /\ proc'[x].chan = proc[x].chan
                    /\ proc'[x].context = proc[x].context
                    /\ proc'[x].queue_level = proc[x].queue_level
                    /\ proc'[x].state =
                         IF x \in wakes /\ proc[x].state = "SLEEPING"
                              /\ proc[x].chan = "wait"
                         THEN "RUNNABLE" ELSE proc[x].state
  BY <1>3, <1>5, <1>6, Zenon
<1>8. TypeOK'
  <2>1. proc' \in [Procs -> ProcRecords]
    BY <1>3, <1>7, Zenon
  <2> QED
    BY <1>1, <1>4, <2>1, LoopType DEF TypeOK
<1>9. LiveAtTop'
  BY <1>7, Zenon DEF SmpInv, LiveAtTop
<1>10. NoLostExit'
  <2> SUFFICES ASSUME NEW w \in Procs, NEW y \in Procs,
                      proc'[w].state = "SLEEPING", proc'[w].chan = "wait",
                      proc'[y].parent = w, proc'[y].state = "ZOMBIE"
               PROVE  FALSE
    BY DEF NoLostExit, ZombieKids, Kids
  <2>1. w # p /\ proc[w].state = "SLEEPING" /\ proc[w].chan = "wait" /\ w \notin wakes
    BY <1>7
  <2>2. CASE proc[y].parent = p
    <3>1. w = InitProc /\ y \in Kids(p)
      BY <1>7, <2>2 DEF reparent, Kids
    <3> QED
      BY <1>2, <2>1, <3>1
  <2>3. CASE proc[y].parent # p
    <3>1. proc[y].parent = w
      BY <1>7, <2>3 DEF reparent
    <3>2. y # p
      BY <2>1, <3>1
    <3>3. proc[y].state = "ZOMBIE"
      BY <1>7, <3>2, Zenon
    <3> QED
      BY <2>1, <3>1, <3>3, Zenon DEF SmpInv, NoLostExit, ZombieKids, Kids
  <2> QED
    BY <2>2, <2>3
<1>11. ASSUME NEW d \in CPUs PROVE CpuOK(d)'
  <2>1. CASE d = c
    <3>1. cpu'[d] = SchedLoop
      BY <1>1, <1>4, <2>1 DEF TypeOK
    <3> QED
      BY <3>1 DEF CpuOK, SchedLoop, ProcPCs
  <2>2. CASE d # c
    <3>1. cpu'[d] = cpu[d] /\ CpuOK(d)
      BY <1>1, <1>4, <2>2 DEF TypeOK, SmpInv
    <3>2. cpu[d].pc # "waitsleep"
      BY NobodyWaitsleep, Zenon DEF kexit
    <3>3. cpu[d].pc \in ProcPCs => cpu[d].proc # p
      BY <1>2, <2>2, <3>1, NullAssumption, Zenon DEF StackShared, CpuOK
    <3>4. cpu[d].pc \in ProcPCs =>
            /\ proc'[cpu[d].proc].state \in {"RUNNING", "RUNNABLE"}
            /\ proc'[cpu[d].proc].queue_level = 0
      BY <1>7, <3>1, <3>3, Zenon DEF CpuOK
    <3> QED
      BY <3>1, <3>2, <3>4, OtherCpus, Zenon
  <2> QED
    BY <2>1, <2>2
<1> QED
  BY <1>8, <1>9, <1>10, <1>11 DEF SmpInv

LEMMA UnusedType ==
  /\ UnusedProc \in ProcRecords
  /\ Allocated(UnusedProc) \in ProcRecords
  /\ [Allocated(UnusedProc) EXCEPT !.state = "RUNNABLE"] \in ProcRecords
<1>1. UnusedProc \in ProcRecords
  BY ZeroType DEF UnusedProc, ProcRecords, States, Chans, Contexts
<1>2. Allocated(UnusedProc) \in ProcRecords
  BY <1>1, AllocatedType
<1> QED
  BY <1>1, <1>2 DEF ProcRecords, States

LEMMA SmpInit == Init => SmpInv
<1> SUFFICES ASSUME Init PROVE SmpInv
  OBVIOUS
<1> DEFINE first == [Allocated(UnusedProc) EXCEPT !.state = "RUNNABLE"]
<1>1. /\ first.state = "RUNNABLE" /\ first.queue_level = 0
      /\ UnusedProc.state = "UNUSED" /\ UnusedProc.queue_level = 0
  BY UnusedType, Zenon DEF UnusedProc, Allocated, AtLevel, ProcRecords
<1>2. proc = [p \in Procs |-> IF p = InitProc THEN first ELSE UnusedProc]
  BY DEF Init
<1> HIDE DEF first
<1>3. \A p \in Procs : proc[p].state \notin {"SLEEPING", "ZOMBIE"} /\ proc[p].queue_level = 0
  BY <1>1, <1>2
<1>4. TypeOK
  BY <1>2, UnusedType, LoopType, ZeroType DEF Init, TypeOK, first
<1>5. LiveAtTop /\ NoLostExit
  BY <1>3 DEF LiveAtTop, NoLostExit
<1>6. \A c \in CPUs : CpuOK(c)
  BY DEF Init, CpuOK, SchedLoop, SchedPCs, ProcPCs
<1> QED
  BY <1>4, <1>5, <1>6 DEF SmpInv

LEMMA SmpStep ==
  ASSUME SmpInv, ~StackShared, NEW c \in CPUs, CpuStep(c)
  PROVE  SmpInv'
<1>1. CASE SchedStep(c)
  BY <1>1, PromoteQuiet, ChooseQuiet, DispatchInv DEF SchedStep
<1>2. CASE KernelStep(c)
  <2>1. CASE kexit(c)
    BY <2>1, SimpleQuiet, ExitInv
  <2>2. CASE \E np \in Procs : ForkAlloc(c, np) \/ ForkFail(c, np)
    BY <2>2, ForkInv
  <2>3. CASE \E v \in Victims : kkill(c, v)
    BY <2>3, KillQuiet
  <2>4. CASE \/ Return(c) \/ BootDone(c) \/ SysExit(c) \/ SysWait(c) \/ KwaitFail(c)
    BY <2>4, SimpleQuiet
  <2>5. CASE \/ SleepIO(c) \/ KwaitSleep(c) \/ KwaitReap(c) \/ KwaitBlock(c)
             \/ ForkParent(c) \/ ForkRunnable(c)
    BY <2>5, SleepInv, ReapInv, KwaitBlockInv, ForkParentInv, ForkRunnableInv
  <2> QED
    BY <1>2, <2>1, <2>2, <2>3, <2>4, <2>5 DEF KernelStep
<1>3. CASE Timer(c)
  BY <1>3, YieldInv, KernelTimerQuiet DEF Timer
<1>4. CASE UserStep(c)
  BY <1>4, SimpleQuiet, UserFaultQuiet DEF UserStep
<1>5. CASE \E p \in Procs : Wakeup(c, p)
  BY <1>5, WakeupQuiet
<1> QED
  BY <1>1, <1>2, <1>3, <1>4, <1>5 DEF CpuStep

LEMMA SmpStutter ==
  ASSUME SmpInv, UNCHANGED vars
  PROVE  SmpInv'
BY Zenon DEF vars, SmpInv, TypeOK, CpuOK, LiveAtTop, NoLostExit, ZombieKids, Kids

\* SmpInv is an invariant of the scheduler on any number of CPUs.
THEOREM SmpInvariant == Spec => []SmpInv
<1>1. SmpInv /\ [Next]_vars => SmpInv'
  BY SmpStep, SmpStutter DEF Next
<1> QED
  BY SmpInit, <1>1, PTL DEF Spec

\* Every index the scheduler uses stays in range, on any number of CPUs,
\* processes and levels.
THEOREM TypeCorrect == Spec => []TypeOK
<1>1. SmpInv => TypeOK
  BY DEF SmpInv
<1> QED
  BY SmpInvariant, <1>1, PTL

\* The multilevel queue collapses to its top level: no process that can still
\* run is ever demoted by scheduler(), on any number of CPUs.
THEOREM QueueCollapse == Spec => []LiveAtTop
<1>1. SmpInv => LiveAtTop
  BY DEF SmpInv
<1> QED
  BY SmpInvariant, <1>1, PTL

\* kexit() never loses the wakeup of a parent in kwait(), on any number of CPUs.
THEOREM ExitWakesParent == Spec => []NoLostExit
<1>1. SmpInv => NoLostExit
  BY DEF SmpInv
<1> QED
  BY SmpInvariant, <1>1, PTL
=============================================================================
