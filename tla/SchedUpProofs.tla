--------------------------- MODULE SchedUpProofs ---------------------------
(***************************************************************************)
(* The scheduler on one CPU: scheduler() lets go of the lock of the        *)
(* process it chose, but with interrupts off and no other CPU nothing can  *)
(* change that process before it is run.  UpInv is inductive there, and    *)
(* the process table implements ProcLife.                                  *)
(***************************************************************************)
EXTENDS SchedProofs

\* The time the provers are allowed for a step.
USE SMTT(30), ZenonT(30)

LEMMA OneCpu ==
  ASSUME NCPU = 1
  PROVE  \A c, d \in CPUs : c = d
BY DEF CPUs

LEMMA NotShared ==
  ASSUME NCPU = 1
  PROVE  ~StackShared
BY OneCpu DEF StackShared

\* Steps that change no state and no owner.
LEMMA UpQuiet ==
  ASSUME NCPU = 1, SmpInv, UpInv, SmpInv', NEW c \in CPUs, NEW k \in CpuRecords,
         cpu' = [cpu EXCEPT ![c] = k],
         k.proc = cpu[c].proc,
         k.pc \in SchedPCs <=> cpu[c].pc \in SchedPCs,
         k.pc \notin {"zombie exit", "kerneltrap"},
         k.pc = "dispatch" => proc[k.chosen].state = "RUNNABLE",
         k.pc \in {"fork1", "fork2"} =>
            cpu[c].pc \in {"fork1", "fork2"} /\ k.np = cpu[c].np,
         \A x \in Procs :
            /\ proc'[x].state = proc[x].state
            /\ \/ proc'[x].parent \in {proc[x].parent, NoProc}
               \/ proc'[x].parent = cpu[c].proc /\ cpu[c].pc \notin SchedPCs
            /\ proc'[x].context \in {proc[x].context, "forkret"}
  PROVE  UpInv' /\ UNCHANGED Life!lifeVars
<1>1. cpu \in [CPUs -> CpuRecords] /\ \A d \in CPUs : d = c
  BY OneCpu, Zenon DEF SmpInv, TypeOK
<1>2. \A d \in CPUs : cpu'[d] = k /\ cpu'[d].proc = cpu[d].proc
  BY <1>1, Zenon
<1>3. InitProc \in Procs
  BY ZeroType, Zenon DEF InitProc
<1>4. CpuOK(c)' /\ CpuOK(c)
  BY Zenon DEF SmpInv
<1>5. k.pc = "dispatch" => k.chosen \in Procs
  BY <1>2, <1>4 DEF CpuOK
<1>6. k.pc \in {"fork1", "fork2"} => k.np \in Procs
  BY <1>2, <1>4, Zenon DEF CpuOK
<1>7. NoOrphan'
  <2> SUFFICES ASSUME NEW p \in Procs, proc'[p].parent # NoProc
               PROVE  proc'[proc'[p].parent].state \in {"RUNNABLE", "RUNNING", "SLEEPING"}
    BY Zenon DEF NoOrphan
  <2>1. proc'[p].parent \in Procs
    <3>1. proc' \in [Procs -> ProcRecords]
      BY Zenon DEF SmpInv, TypeOK
    <3>2. proc'[p] \in ProcRecords
      BY <3>1, Zenon
    <3> QED
      BY <3>2, Zenon DEF ProcRecords
  <2>2. proc[proc'[p].parent].state \in {"RUNNABLE", "RUNNING", "SLEEPING"}
    <3>1. CASE proc'[p].parent = proc[p].parent
      BY <3>1, Zenon DEF UpInv, NoOrphan
    <3>2. CASE proc'[p].parent = cpu[c].proc /\ cpu[c].pc \notin SchedPCs
      BY <3>2, Zenon DEF UpInv, UpCpuOK
    <3> QED
      BY <3>1, <3>2, Zenon
  <2> QED
    BY <2>1, <2>2, Zenon
<1>8. UpInv'
  <2>1. ASSUME NEW d \in CPUs PROVE UpCpuOK(d)'
    <3>1. UpCpuOK(c) /\ d = c /\ cpu'[d] = k
      BY <1>1, <1>2, Zenon DEF UpInv
    <3> QED
      BY <1>5, <1>6, <3>1, Zenon DEF UpCpuOK
  <2>2. RunningHasCpu'
    BY <1>2, Zenon DEF UpInv, RunningHasCpu
  <2>3. CanResume'
    BY Zenon DEF UpInv, CanResume
  <2>4. Alive(InitProc)'
    BY <1>3, Zenon DEF UpInv, Alive, InitProc
  <2> QED
    BY <1>7, <2>1, <2>2, <2>3, <2>4, Zenon DEF UpInv
<1>9. UNCHANGED Life!lifeVars
  <2>1. [p \in Procs |-> proc[p].state]' = [p \in Procs |-> proc[p].state]
    BY Zenon
  <2>2. [d \in CPUs |-> cpu[d].proc]' = [d \in CPUs |-> cpu[d].proc]
    BY <1>2, Zenon
  <2> QED
    BY <2>1, <2>2, Zenon DEF Life!lifeVars
<1> QED
  BY <1>8, <1>9, Zenon

\* The record of slot x' is that of x as far as UpInv can tell.
SameSlots ==
  \A x \in Procs : /\ proc'[x].state = proc[x].state
                   /\ proc'[x].parent = proc[x].parent
                   /\ proc'[x].context = proc[x].context

LEMMA UpPromote ==
  ASSUME NCPU = 1, SmpInv, UpInv, SmpInv', NEW c \in CPUs, SchedPromote(c)
  PROVE  UpInv' /\ UNCHANGED Life!lifeVars
<1> DEFINE x == cpu[c].p
           k == IF x + 1 < NPROC THEN [cpu[c] EXCEPT !.p = x + 1]
                ELSE [SchedLoop EXCEPT !.pc = "choose"]
<1>1. /\ x \in Procs /\ cpu[c] \in CpuRecords /\ proc \in [Procs -> ProcRecords]
      /\ cpu[c].pc = "promote" /\ CpuOK(c)
  BY DEF SmpInv, TypeOK, CpuRecords, SchedPromote
<1>2. SameSlots
  <2>1. /\ Waited(proc[x]).parent = proc[x].parent
        /\ Waited(proc[x]).context = proc[x].context
        /\ Waited(proc[x]).state = proc[x].state
    BY <1>1 DEF Waited, AtLevel, ProcRecords
  <2> QED
    BY <1>1, <2>1 DEF SchedPromote, SameSlots
<1>3. k \in CpuRecords /\ k.pc \in {"promote", "choose"} /\ k.proc = NoProc
  BY <1>1, LoopType, SuccType DEF CpuRecords, SchedLoop, SchedPCs, CpuOK
<1>4. cpu' = [cpu EXCEPT ![c] = k]
  BY DEF SchedPromote, At
<1> HIDE DEF k
<1> QED
  BY <1>1, <1>2, <1>3, <1>4, UpQuiet, Zenon DEF CpuOK, SchedPCs, SameSlots

LEMMA UpChoose ==
  ASSUME NCPU = 1, SmpInv, UpInv, SmpInv', NEW c \in CPUs, SchedChoose(c)
  PROVE  UpInv' /\ UNCHANGED Life!lifeVars
<1> DEFINE idx == (rr_state[c][cpu[c].q] + cpu[c].checked) % NPROC
<1>1. /\ cpu[c] \in CpuRecords /\ cpu[c].pc = "choose" /\ CpuOK(c)
      /\ cpu[c].checked \in Procs /\ cpu[c].q \in Levels
      /\ rr_state[c][cpu[c].q] \in Procs
  BY Zenon DEF SmpInv, TypeOK, CpuRecords, SchedChoose
<1>2. idx \in Procs
  BY <1>1, IndexType
<1>3. PICK k : /\ cpu' = [cpu EXCEPT ![c] = k]
               /\ \/ /\ k = [SchedLoop EXCEPT !.pc = "dispatch", !.chosen = idx]
                     /\ proc[idx].state = "RUNNABLE"
                  \/ /\ cpu[c].checked + 1 < NPROC
                     /\ k = [cpu[c] EXCEPT !.checked = cpu[c].checked + 1]
                  \/ /\ cpu[c].q + 1 < NQUEUES
                     /\ k = [cpu[c] EXCEPT !.q = cpu[c].q + 1, !.checked = 0]
                  \/ k = SchedLoop
  BY Zenon DEF SchedChoose, At
<1> HIDE DEF idx
<1>4. /\ k \in CpuRecords /\ k.pc \in SchedPCs /\ k.proc = NoProc
      /\ k.pc = "dispatch" => proc[k.chosen].state = "RUNNABLE"
  <2>1. CASE /\ k = [SchedLoop EXCEPT !.pc = "dispatch", !.chosen = idx]
             /\ proc[idx].state = "RUNNABLE"
    BY <1>2, <2>1, LoopType, Zenon DEF CpuRecords, SchedLoop, SchedPCs
  <2>2. CASE /\ cpu[c].checked + 1 < NPROC
             /\ k = [cpu[c] EXCEPT !.checked = cpu[c].checked + 1]
    BY <1>1, <2>2, SuccType DEF CpuRecords, SchedPCs, CpuOK
  <2>3. CASE /\ cpu[c].q + 1 < NQUEUES
             /\ k = [cpu[c] EXCEPT !.q = cpu[c].q + 1, !.checked = 0]
    BY <1>1, <2>3, SuccType, ZeroType, Zenon DEF CpuRecords, SchedPCs, CpuOK
  <2>4. CASE k = SchedLoop
    BY <2>4, LoopType DEF SchedLoop, SchedPCs
  <2> QED
    BY <1>3, <2>1, <2>2, <2>3, <2>4
<1>5. proc' = proc
  BY Zenon DEF SchedChoose
<1> QED
  BY <1>1, <1>3, <1>4, <1>5, UpQuiet, Zenon DEF CpuOK, SchedPCs

LEMMA UpGoto ==
  ASSUME NCPU = 1, SmpInv, UpInv, SmpInv', NEW c \in CPUs, cpu[c].pc \in ProcPCs,
         NEW pc \in {"user", "kernel", "ret", "wait", "waitsleep", "exit",
                     "init exiting"},
         Goto(c, pc), SameSlots
  PROVE  UpInv' /\ UNCHANGED Life!lifeVars
<1> DEFINE k == [cpu[c] EXCEPT !.pc = pc]
<1>1. cpu[c] \in CpuRecords
  BY Zenon DEF SmpInv, TypeOK
<1>2. k \in CpuRecords /\ k.pc = pc /\ k.proc = cpu[c].proc
  BY <1>1, Zenon DEF CpuRecords, ProcPCs, PanicPCs
<1>3. cpu' = [cpu EXCEPT ![c] = k]
  BY Zenon DEF Goto, At
<1> HIDE DEF k
<1> QED
  BY <1>2, <1>3, UpQuiet, Zenon DEF SchedPCs, ProcPCs, SameSlots

LEMMA UpSimple ==
  ASSUME NCPU = 1, SmpInv, UpInv, SmpInv', NEW c \in CPUs,
         \/ Syscall(c) \/ UserTrap(c) \/ Return(c) \/ BootDone(c)
         \/ SysExit(c) \/ SysWait(c) \/ KwaitFail(c) \/ KwaitBlock(c)
         \/ kexit(c) /\ cpu[c].proc = InitProc
         \/ UserTimer(c) /\ proc[cpu[c].proc].killed
  PROVE  UpInv' /\ UNCHANGED Life!lifeVars
<1>1. PICK pc \in {"user", "kernel", "ret", "wait", "waitsleep", "exit",
                   "init exiting"} :
        cpu[c].pc \in ProcPCs /\ Goto(c, pc) /\ UNCHANGED proc
  BY Zenon DEF Syscall, UserTrap, Return, BootDone, SysExit, SysWait, KwaitFail, KwaitBlock,
         kexit, UserTimer, UserOrExit, ProcPCs
<1> QED
  BY <1>1, UpGoto, Zenon DEF SameSlots

LEMMA UpFaultTick ==
  ASSUME NCPU = 1, SmpInv, UpInv, SmpInv', NEW c \in CPUs, UserFault(c) \/ KernelTimer(c)
  PROVE  UpInv' /\ UNCHANGED Life!lifeVars
<1> DEFINE x == cpu[c].proc
<1>1. /\ x \in Procs /\ proc \in [Procs -> ProcRecords] /\ cpu[c].pc \in ProcPCs
      /\ cpu \in [CPUs -> CpuRecords]
  BY DEF SmpInv, TypeOK, CpuOK, UserFault, KernelTimer, ProcPCs
<1>2. SameSlots
  BY <1>1 DEF UserFault, KernelTimer, SameSlots, ProcRecords
<1>3. CASE UserFault(c)
  BY <1>1, <1>2, <1>3, UpGoto, Zenon DEF UserFault
<1>4. CASE KernelTimer(c)
  <2>1. cpu' = [cpu EXCEPT ![c] = cpu[c]] /\ cpu[c] \in CpuRecords
    BY <1>1, <1>4 DEF KernelTimer
  <2> QED
    BY <1>1, <1>2, <2>1, UpQuiet, Zenon DEF SameSlots, UpInv, UpCpuOK, ProcPCs, SchedPCs
<1> QED
  BY <1>3, <1>4

\* Steps that move one slot x, which no CPU runs, along its life cycle.
LEMMA UpSlot ==
  ASSUME NCPU = 1, SmpInv, UpInv, SmpInv', NEW c \in CPUs, NEW k \in CpuRecords,
         NEW x \in Procs, NEW r \in ProcRecords,
         proc' = [proc EXCEPT ![x] = r],
         cpu' = [cpu EXCEPT ![c] = k],
         k.proc = cpu[c].proc,
         k.pc \in SchedPCs <=> cpu[c].pc \in SchedPCs,
         k.pc \notin {"zombie exit", "kerneltrap", "dispatch"},
         k.pc \in {"fork1", "fork2"} =>
           \/ proc[x].state # "USED" /\ cpu[c].pc \in {"fork1", "fork2"} /\ k.np = cpu[c].np
           \/ k.np = x /\ r.state = "USED",
         \/ proc[x].state = "SLEEPING" /\ r.state = "RUNNABLE"
         \/ proc[x].state = "UNUSED" /\ r.state = "USED"
         \/ proc[x].state = "USED" /\ r.state = "RUNNABLE"
         \/ proc[x].state = "ZOMBIE" /\ r.state = "UNUSED",
         r.parent \in {proc[x].parent, NoProc},
         r.context \in {proc[x].context, "forkret"},
         proc[x].state = "UNUSED" => r.context = "forkret"
  PROVE  UpInv' /\ Life!LifeNext
<1>1. /\ cpu \in [CPUs -> CpuRecords] /\ proc \in [Procs -> ProcRecords]
      /\ \A d \in CPUs : d = c
  BY OneCpu, Zenon DEF SmpInv, TypeOK
<1>2. \A d \in CPUs : cpu'[d] = k /\ cpu'[d].proc = cpu[d].proc
  BY <1>1, Zenon
<1>3. InitProc \in Procs
  BY ZeroType, Zenon DEF InitProc
<1>4. CpuOK(c)' /\ CpuOK(c)
  BY Zenon DEF SmpInv
<1>5. \A y \in Procs : proc'[y] = IF y = x THEN r ELSE proc[y]
  BY <1>1, Zenon
<1>6. NoOrphan'
  <2> SUFFICES ASSUME NEW p \in Procs, proc'[p].parent # NoProc
               PROVE  proc'[proc'[p].parent].state \in {"RUNNABLE", "RUNNING", "SLEEPING"}
    BY Zenon DEF NoOrphan
  <2>1. proc'[p].parent \in Procs /\ proc'[p].parent = proc[p].parent
    BY <1>5, Zenon DEF SmpInv, TypeOK, ProcRecords
  <2>2. proc[proc'[p].parent].state \in {"RUNNABLE", "RUNNING", "SLEEPING"}
    BY <2>1, Zenon DEF UpInv, NoOrphan
  <2> QED
    BY <1>5, <2>1, <2>2, Zenon
<1>7. ASSUME NEW d \in CPUs PROVE UpCpuOK(d)'
  <2>1. UpCpuOK(c) /\ d = c /\ cpu'[d] = k
    BY <1>1, <1>2, Zenon DEF UpInv
  <2>2. k.pc \in {"fork1", "fork2"} => k.np \in Procs
    BY <1>2, <1>4, Zenon DEF CpuOK
  <2>3. k.pc \notin SchedPCs => k.proc \in Procs /\ proc'[k.proc].state = "RUNNING"
    BY <1>5, <2>1, Zenon DEF UpCpuOK
  <2>4. k.pc \in {"fork1", "fork2"} => proc'[k.np].state = "USED"
    BY <1>5, <2>1, <2>2, Zenon DEF UpCpuOK
  <2> QED
    BY <2>1, <2>3, <2>4, Zenon DEF UpCpuOK
<1>8. RunningHasCpu'
  <2> SUFFICES ASSUME NEW y \in Procs, proc'[y].state = "RUNNING"
               PROVE  \E d \in CPUs : cpu'[d].proc = y
    BY Zenon DEF RunningHasCpu
  <2>1. proc[y].state = "RUNNING"
    BY <1>5, Zenon
  <2>2. PICK d \in CPUs : cpu[d].proc = y
    BY <2>1, Zenon DEF UpInv, RunningHasCpu
  <2> QED
    BY <1>2, <2>2, Zenon
<1>9. CanResume'
  <2> SUFFICES ASSUME NEW y \in Procs,
                      proc'[y].state \in {"USED", "RUNNABLE", "RUNNING", "SLEEPING"}
               PROVE  proc'[y].context # "zombie"
    BY Zenon DEF CanResume
  <2>1. CanResume
    BY Zenon DEF UpInv
  <2>2. CASE y # x
    BY <1>5, <2>1, <2>2, Zenon DEF CanResume
  <2>3. CASE y = x
    BY <1>5, <2>1, <2>3, Zenon DEF CanResume
  <2> QED
    BY <2>2, <2>3, Zenon
<1>10. Alive(InitProc)'
  BY <1>3, <1>5, Zenon DEF UpInv, Alive, InitProc
<1>11. Life!LifeNext
  <2> DEFINE st == [p \in Procs |-> proc[p].state]
  <2>1. st' = [st EXCEPT ![x] = r.state]
    <3>1. proc'[x].state = r.state /\ \A y \in Procs : y # x => proc'[y].state = proc[y].state
      BY <1>5, Zenon
    <3> QED
      BY <3>1, Zenon
  <2>2. [d \in CPUs |-> cpu[d].proc]' = [d \in CPUs |-> cpu[d].proc]
    BY <1>2, Zenon
  <2>3. Life!Wake(x) \/ Life!Create(x) \/ Life!Start(x) \/ Life!Free(x)
    BY <2>1, <2>2, Zenon DEF Life!Wake, Life!Create, Life!Start, Life!Free, Life!Set
  <2> QED
    BY <2>3, Zenon DEF Life!LifeNext
<1> QED
  BY <1>6, <1>7, <1>8, <1>9, <1>10, <1>11, Zenon DEF UpInv

LEMMA UpWake ==
  ASSUME NCPU = 1, SmpInv, UpInv, SmpInv', NEW c \in CPUs, NEW p \in Procs, Wakeup(c, p)
  PROVE  UpInv' /\ Life!LifeNext
<1> DEFINE r == [proc[p] EXCEPT !.state = "RUNNABLE"]
<1>1. /\ proc \in [Procs -> ProcRecords] /\ cpu \in [CPUs -> CpuRecords]
      /\ proc[p].state = "SLEEPING" /\ InterruptsOn(c)
  BY DEF SmpInv, TypeOK, Wakeup
<1>2. /\ r \in ProcRecords /\ r.state = "RUNNABLE"
      /\ r.parent = proc[p].parent /\ r.context = proc[p].context
  BY <1>1 DEF ProcRecords, States
<1>3. proc' = [proc EXCEPT ![p] = r] /\ cpu' = [cpu EXCEPT ![c] = cpu[c]]
  BY <1>1 DEF Wakeup
<1>4. cpu[c].pc \notin {"dispatch", "zombie exit", "kerneltrap"} /\ cpu[c] \in CpuRecords
  BY <1>1, Zenon DEF InterruptsOn, ProcPCs
<1> HIDE DEF r
<1> QED
  BY <1>1, <1>2, <1>3, <1>4, UpSlot, Zenon

LEMMA UpKill ==
  ASSUME NCPU = 1, SmpInv, UpInv, SmpInv', NEW c \in CPUs, NEW p \in Victims, kkill(c, p)
  PROVE  UpInv' /\ (Life!LifeNext \/ UNCHANGED Life!lifeVars)
<1> DEFINE r == Killed(proc[p])
           k == [cpu[c] EXCEPT !.pc = "ret"]
<1>1. /\ p \in Procs /\ proc \in [Procs -> ProcRecords] /\ cpu[c] \in CpuRecords
      /\ cpu[c].pc = "kernel"
  BY NullAssumption DEF SmpInv, TypeOK, kkill
<1>2. proc' = [proc EXCEPT ![p] = r] /\ Goto(c, "ret")
  BY DEF kkill
<1>3. CASE proc[p].state = "SLEEPING"
  <2>1. /\ r \in ProcRecords /\ r.state = "RUNNABLE"
        /\ r.parent = proc[p].parent /\ r.context = proc[p].context
    <3>1. proc[p] \in ProcRecords
      BY <1>1
    <3> QED
      BY <3>1, <1>3, Zenon DEF ProcRecords, States, Killed
  <2>2. k \in CpuRecords /\ k.pc = "ret" /\ k.proc = cpu[c].proc
    BY <1>1 DEF CpuRecords, ProcPCs
  <2>3. cpu' = [cpu EXCEPT ![c] = k]
    BY <1>2 DEF Goto, At
  <2> HIDE DEF r, k
  <2> QED
    BY <1>1, <1>2, <1>3, <2>1, <2>2, <2>3, UpSlot, Zenon DEF SchedPCs
<1>4. CASE proc[p].state # "SLEEPING"
  <2>1. SameSlots
    BY <1>1, <1>2, <1>4 DEF SameSlots, Killed, ProcRecords
  <2> QED
    BY <1>1, <1>2, <2>1, UpGoto, Zenon DEF ProcPCs
<1> QED
  BY <1>3, <1>4

LEMMA UpFork ==
  ASSUME NCPU = 1, SmpInv, UpInv, SmpInv', NEW c \in CPUs, NEW np \in Procs,
         ForkAlloc(c, np) \/ ForkFail(c, np)
  PROVE  UpInv' /\ (Life!LifeNext \/ UNCHANGED Life!lifeVars)
<1>1. /\ proc \in [Procs -> ProcRecords] /\ cpu[c] \in CpuRecords
      /\ cpu[c].pc = "kernel" /\ proc[np].state = "UNUSED"
  BY DEF SmpInv, TypeOK, ForkAlloc, ForkFail
<1>2. Allocated(proc[np]) \in ProcRecords
  BY <1>1, AllocatedType
<1>3. CASE ForkAlloc(c, np)
  <2> DEFINE x == cpu[c].proc
             r == [Allocated(proc[np]) EXCEPT
                     !.priority = proc[x].priority,
                     !.queue_level = proc[x].queue_level,
                     !.max_time_slice = get_time_slice(proc[x].queue_level)]
             k == [cpu[c] EXCEPT !.pc = "fork1", !.np = np]
  <2>1. proc' = [proc EXCEPT ![np] = r] /\ cpu' = [cpu EXCEPT ![c] = k]
    BY <1>3 DEF ForkAlloc, At
  <2>2. r \in ProcRecords
    BY <1>1, <2>1 DEF SmpInv, TypeOK
  <2>3. r.state = "USED" /\ r.parent = NoProc /\ r.context = "forkret"
    BY <1>1, <1>2, Zenon DEF Allocated, AtLevel, ProcRecords
  <2>4. k \in CpuRecords /\ k.pc = "fork1" /\ k.proc = cpu[c].proc /\ k.np = np
    BY <1>1, Zenon DEF CpuRecords, ProcPCs
  <2> HIDE DEF r, k
  <2> QED
    BY <1>1, <2>1, <2>2, <2>3, <2>4, UpSlot, Zenon DEF SchedPCs
<1>4. CASE ForkFail(c, np)
  <2>1. PICK ctx \in {proc[np].context, "forkret"} :
          proc' = [proc EXCEPT ![np] =
                     [Freed(Allocated(proc[np])) EXCEPT !.context = ctx]]
    BY <1>4, Zenon DEF ForkFail
  <2> DEFINE r == [Freed(Allocated(proc[np])) EXCEPT !.context = ctx]
             k == [cpu[c] EXCEPT !.pc = "ret"]
  <2>2. Freed(Allocated(proc[np])) \in ProcRecords
    BY <1>2, FreedType
  <2>3. r.state = "UNUSED" /\ r.parent = NoProc /\ r.context = ctx
    BY <1>2, <2>2, Zenon DEF Freed, ProcRecords
  <2>4. k \in CpuRecords /\ k.pc = "ret" /\ k.proc = cpu[c].proc
    BY <1>1 DEF CpuRecords, ProcPCs
  <2>5. cpu' = [cpu EXCEPT ![c] = k]
    BY <1>4 DEF ForkFail, Goto, At
  <2>6. proc'[np] = r /\ \A y \in Procs : y # np => proc'[y] = proc[y]
    BY <1>1, <2>1
  <2> HIDE DEF r, k
  <2>7. \A y \in Procs : /\ proc'[y].state = proc[y].state
                         /\ proc'[y].parent \in {proc[y].parent, NoProc}
                         /\ proc'[y].context \in {proc[y].context, "forkret"}
    BY <1>1, <2>3, <2>6
  <2> QED
    BY <1>1, <2>4, <2>5, <2>7, UpQuiet, Zenon DEF SchedPCs
<1> QED
  BY <1>3, <1>4

LEMMA UpForkParent ==
  ASSUME NCPU = 1, SmpInv, UpInv, SmpInv', NEW c \in CPUs, ForkParent(c)
  PROVE  UpInv' /\ UNCHANGED Life!lifeVars
<1> DEFINE np == cpu[c].np
           k == [cpu[c] EXCEPT !.pc = "fork2"]
<1>1. /\ proc \in [Procs -> ProcRecords] /\ cpu[c] \in CpuRecords
      /\ cpu[c].pc = "fork1" /\ np \in Procs
  BY DEF SmpInv, TypeOK, CpuOK, ForkParent
<1>2. k \in CpuRecords /\ k.pc = "fork2" /\ k.proc = cpu[c].proc /\ k.np = cpu[c].np
  BY <1>1 DEF CpuRecords, ProcPCs
<1>3. cpu' = [cpu EXCEPT ![c] = k]
  BY DEF ForkParent, Goto, At
<1>4. \A x \in Procs : /\ proc'[x].state = proc[x].state
                       /\ proc'[x].parent \in {proc[x].parent, cpu[c].proc}
                       /\ proc'[x].context = proc[x].context
  BY <1>1 DEF ForkParent, ProcRecords
<1> HIDE DEF k
<1> QED
  BY <1>1, <1>2, <1>3, <1>4, UpQuiet, Zenon DEF SchedPCs

LEMMA UpForkRunnable ==
  ASSUME NCPU = 1, SmpInv, UpInv, SmpInv', NEW c \in CPUs, ForkRunnable(c)
  PROVE  UpInv' /\ Life!LifeNext
<1> DEFINE np == cpu[c].np
           r == [proc[np] EXCEPT !.state = "RUNNABLE"]
           k == [cpu[c] EXCEPT !.pc = "ret", !.np = NoProc]
<1>1. /\ proc \in [Procs -> ProcRecords] /\ cpu[c] \in CpuRecords
      /\ cpu[c].pc = "fork2" /\ np \in Procs /\ proc[np].state = "USED"
  BY Zenon DEF SmpInv, TypeOK, CpuOK, UpInv, UpCpuOK, ForkRunnable
<1>2. /\ r \in ProcRecords /\ r.state = "RUNNABLE"
      /\ r.parent = proc[np].parent /\ r.context = proc[np].context
  BY <1>1 DEF ProcRecords, States
<1>3. k \in CpuRecords /\ k.pc = "ret" /\ k.proc = cpu[c].proc
  BY <1>1, Zenon DEF CpuRecords, ProcPCs
<1>4. proc' = [proc EXCEPT ![np] = r] /\ cpu' = [cpu EXCEPT ![c] = k]
  BY <1>1 DEF ForkRunnable, At
<1> HIDE DEF r, k
<1> QED
  BY <1>1, <1>2, <1>3, <1>4, UpSlot, Zenon DEF SchedPCs

LEMMA UpReap ==
  ASSUME NCPU = 1, SmpInv, UpInv, SmpInv', NEW c \in CPUs, KwaitReap(c)
  PROVE  UpInv' /\ Life!LifeNext
<1>1. PICK pp \in ZombieKids(cpu[c].proc) : proc' = [proc EXCEPT ![pp] = Freed(@)]
  BY Zenon DEF KwaitReap
<1> DEFINE r == Freed(proc[pp])
           k == [cpu[c] EXCEPT !.pc = "ret"]
<1>2. /\ pp \in Procs /\ proc[pp].state = "ZOMBIE" /\ proc[pp] \in ProcRecords
      /\ cpu[c].pc = "wait" /\ cpu[c] \in CpuRecords
  BY DEF SmpInv, TypeOK, KwaitReap, ZombieKids, Kids
<1>3. /\ r \in ProcRecords /\ r.state = "UNUSED"
      /\ r.parent = NoProc /\ r.context = proc[pp].context
  BY <1>2, FreedType, Zenon DEF Freed, ProcRecords
<1>4. k \in CpuRecords /\ k.proc = cpu[c].proc /\ k.pc = "ret"
  BY <1>2 DEF CpuRecords, ProcPCs
<1>5. proc' = [proc EXCEPT ![pp] = r] /\ cpu' = [cpu EXCEPT ![c] = k]
  BY <1>1, Zenon DEF KwaitReap, Goto, At
<1> HIDE DEF r, k
<1> QED
  BY <1>2, <1>3, <1>4, <1>5, UpSlot, Zenon DEF SchedPCs

LEMMA UpDispatch ==
  ASSUME NCPU = 1, SmpInv, UpInv, SmpInv', NEW c \in CPUs, SchedDispatch(c)
  PROVE  UpInv' /\ Life!LifeNext
<1> DEFINE x == cpu[c].chosen
           k == [SchedLoop EXCEPT !.pc = Resumed(x), !.proc = x]
<1>1. /\ proc \in [Procs -> ProcRecords] /\ cpu \in [CPUs -> CpuRecords]
      /\ \A d \in CPUs : d = c
      /\ CpuOK(c) /\ UpCpuOK(c) /\ cpu[c].pc = "dispatch"
  BY OneCpu DEF SmpInv, TypeOK, UpInv, SchedDispatch
<1>2. x \in Procs /\ proc[x].state = "RUNNABLE" /\ cpu[c].proc = NoProc
  BY <1>1 DEF CpuOK, UpCpuOK, SchedPCs
<1>3. proc[x].context \in Contexts /\ proc[x].context # "zombie"
  BY <1>1, <1>2 DEF UpInv, CanResume, ProcRecords
<1>4. Resumed(x) \in {"boot", "user", "kernel", "wait", "exit"}
  BY <1>2, <1>3 DEF Resumed, Contexts
<1>5. k.pc = Resumed(x) /\ k.proc = x
  BY DEF SchedLoop
<1>6. \A d \in CPUs : cpu'[d] = k
  BY <1>1 DEF SchedDispatch, At
<1>7. /\ proc'[x].state = "RUNNING" /\ proc'[x].context = proc[x].context
      /\ proc'[x].parent = proc[x].parent
      /\ \A y \in Procs : y # x => proc'[y] = proc[y]
  BY <1>1, <1>2 DEF SchedDispatch, ProcRecords
<1> HIDE DEF k, x
<1>8. ASSUME NEW d \in CPUs PROVE UpCpuOK(d)'
  BY <1>2, <1>4, <1>5, <1>6, <1>7, Zenon DEF UpCpuOK, SchedPCs
<1>9. RunningHasCpu'
  <2>1. \A y \in Procs : y # x => proc[y].state # "RUNNING"
    <3>1. \A y \in Procs : proc[y].state = "RUNNING" => cpu[c].proc = y
      BY <1>1 DEF UpInv, RunningHasCpu
    <3> QED
      BY <1>2, <3>1, NullAssumption
  <2> QED
    BY <1>5, <1>6, <1>7, <2>1 DEF RunningHasCpu
<1>10. CanResume'
  BY <1>3, <1>7 DEF UpInv, CanResume
<1>11. Alive(InitProc)'
  BY <1>7, ZeroType DEF UpInv, Alive, InitProc
<1>12. NoOrphan'
  <2> SUFFICES ASSUME NEW p \in Procs, proc'[p].parent # NoProc
               PROVE  proc'[proc'[p].parent].state \in {"RUNNABLE", "RUNNING", "SLEEPING"}
    BY DEF NoOrphan
  <2>1. proc'[p].parent \in Procs /\ proc'[p].parent = proc[p].parent
    BY <1>7 DEF SmpInv, TypeOK, ProcRecords
  <2>2. proc[proc'[p].parent].state \in {"RUNNABLE", "RUNNING", "SLEEPING"}
    BY <2>1 DEF UpInv, NoOrphan
  <2> QED
    BY <1>7, <2>1, <2>2
<1>13. Life!LifeNext
  <2> DEFINE st == [p \in Procs |-> proc[p].state]
             run == [d \in CPUs |-> cpu[d].proc]
  <2>1. st' = [st EXCEPT ![x] = "RUNNING"]
    <3>1. \A y \in Procs : y # x => proc'[y].state = proc[y].state
      BY <1>7
    <3> QED
      BY <1>2, <1>7, <3>1, Zenon
  <2>2. run' = [run EXCEPT ![c] = x]
    BY <1>1, <1>5, <1>6
  <2>3. PICK y \in Procs : y = x
    BY <1>2
  <2>4. Life!Run(c, y)
    BY <1>2, <2>1, <2>2, <2>3 DEF Life!Run, Life!Set
  <2> QED
    BY <2>4 DEF Life!LifeNext
<1> QED
  BY <1>8, <1>9, <1>10, <1>11, <1>12, <1>13 DEF UpInv

\* Steps that take the process x off the CPU.
LEMMA UpOff ==
  ASSUME NCPU = 1, SmpInv, UpInv, SmpInv', NEW c \in CPUs, NEW x \in Procs,
         x = cpu[c].proc, cpu[c].pc \in ProcPCs,
         cpu' = [cpu EXCEPT ![c] = SchedLoop],
         proc'[x].state \in {"RUNNABLE", "SLEEPING", "ZOMBIE"},
         proc'[x].context = "zombie" => proc'[x].state = "ZOMBIE",
         proc'[x].state = "ZOMBIE" =>
            x # InitProc /\ \A y \in Procs : proc'[y].parent # x,
         \A y \in Procs :
            /\ proc'[y].parent \in {proc[y].parent, InitProc}
            /\ y # x => /\ proc'[y].context = proc[y].context
                        /\ \/ proc'[y].state = proc[y].state
                           \/ /\ proc[y].state = "SLEEPING" /\ proc'[y].state = "RUNNABLE"
                              /\ proc'[x].state = "ZOMBIE"
  PROVE  UpInv' /\ Life!LifeNext
<1>1. /\ proc \in [Procs -> ProcRecords] /\ proc' \in [Procs -> ProcRecords]
      /\ cpu \in [CPUs -> CpuRecords]
      /\ \A d \in CPUs : d = c
      /\ UpCpuOK(c) /\ InitProc \in Procs
  BY OneCpu, ZeroType DEF SmpInv, TypeOK, UpInv, InitProc
<1> proc[x].state = "RUNNING"
  BY <1>1, Zenon DEF UpCpuOK, ProcPCs, SchedPCs
<1>2. \A d \in CPUs : cpu'[d] = SchedLoop /\ cpu'[d].pc = "promote"
  BY <1>1 DEF SchedLoop
<1>3. \A y \in Procs : y # x => proc[y].state # "RUNNING"
  BY <1>1 DEF UpInv, RunningHasCpu
<1>4. ASSUME NEW d \in CPUs PROVE UpCpuOK(d)'
  BY <1>2, Zenon DEF UpCpuOK, SchedPCs
<1>5. RunningHasCpu'
  BY <1>3 DEF RunningHasCpu
<1>6. CanResume'
  <2> SUFFICES ASSUME NEW p \in Procs,
                      proc'[p].state \in {"USED", "RUNNABLE", "RUNNING", "SLEEPING"}
               PROVE  proc'[p].context # "zombie"
    BY DEF CanResume
  <2>1. CASE p = x
    BY <2>1
  <2>2. CASE p # x
    BY <2>2 DEF UpInv, CanResume
  <2> QED
    BY <2>1, <2>2
<1>7. Alive(InitProc)'
  <2>1. proc'[InitProc].state \in {"RUNNABLE", "RUNNING", "SLEEPING"}
    <3>1. CASE x = InitProc
      BY <3>1
    <3>2. CASE x # InitProc
      BY <1>1, <3>2 DEF UpInv, Alive
    <3> QED
      BY <3>1, <3>2
  <2> QED
    BY <2>1 DEF Alive, InitProc
<1>8. NoOrphan'
  <2> SUFFICES ASSUME NEW p \in Procs, proc'[p].parent # NoProc
               PROVE  proc'[proc'[p].parent].state \in {"RUNNABLE", "RUNNING", "SLEEPING"}
    BY DEF NoOrphan
  <2> DEFINE q == proc'[p].parent
  <2>1. q \in Procs
    BY <1>1 DEF ProcRecords
  <2>2. proc[q].state \in {"RUNNABLE", "RUNNING", "SLEEPING"}
    <3>1. CASE q = proc[p].parent
      BY <3>1 DEF UpInv, NoOrphan
    <3>2. CASE q = InitProc
      BY <3>2 DEF UpInv, Alive
    <3> QED
      BY <3>1, <3>2
  <2>3. q = x => proc'[q].state # "ZOMBIE"
    OBVIOUS
  <2> HIDE DEF q
  <2>4. CASE q = x
    BY <2>3, <2>4 DEF q
  <2>5. CASE q # x
    BY <2>1, <2>2, <2>5 DEF q
  <2> QED
    BY <2>4, <2>5 DEF q
<1>9. Life!LifeNext
  <2> DEFINE st == [p \in Procs |-> proc[p].state]
             run == [d \in CPUs |-> cpu[d].proc]
  <2>1. run' = [run EXCEPT ![c] = NoProc]
    BY <1>1, <1>2 DEF SchedLoop
  <2>2. run[c] = x /\ st[x] = "RUNNING"
    BY <1>1
  <2>3. CASE proc'[x].state = "ZOMBIE"
    <3> DEFINE W == {w \in Procs : w # x /\ proc'[w].state # proc[w].state}
    <3>1. W \in SUBSET {w \in Procs : st[w] = "SLEEPING"}
      OBVIOUS
    <3>2. st' = [y \in Procs |-> IF y = x THEN "ZOMBIE"
                                 ELSE IF y \in W THEN "RUNNABLE" ELSE st[y]]
      BY <2>3
    <3>3. x # InitProc
      BY <2>3
    <3> HIDE DEF W, st, run
    <3>4. Life!Exit(c, x)
      BY <2>1, <2>2, <3>1, <3>2, <3>3, Zenon DEF Life!Exit, st, run
    <3> QED
      BY <3>4 DEF Life!LifeNext
  <2>4. CASE proc'[x].state # "ZOMBIE"
    <3>1. \A y \in Procs : y # x => proc'[y].state = proc[y].state
      BY <2>4
    <3>2. st' = [st EXCEPT ![x] = proc'[x].state]
      BY <3>1, Zenon
    <3>3. PICK s \in {"RUNNABLE", "SLEEPING"} : s = proc'[x].state
      BY <2>4
    <3>4. Life!Stop(c, x, s)
      BY <2>1, <2>2, <3>2, <3>3, Zenon DEF Life!Stop, Life!Set
    <3> QED
      BY <3>4 DEF Life!LifeNext
  <2> QED
    BY <2>3, <2>4
<1> QED
  BY <1>4, <1>5, <1>6, <1>7, <1>8, <1>9 DEF UpInv

LEMMA UpStop ==
  ASSUME NCPU = 1, SmpInv, UpInv, SmpInv', NEW c \in CPUs,
         \/ UserTimer(c) /\ ~proc[cpu[c].proc].killed
         \/ SleepIO(c) \/ KwaitSleep(c)
  PROVE  UpInv' /\ Life!LifeNext
<1>1. /\ proc \in [Procs -> ProcRecords] /\ cpu[c].pc \in ProcPCs /\ CpuOK(c)
  BY DEF SmpInv, TypeOK, UserTimer, SleepIO, KwaitSleep, ProcPCs
<1>2. PICK x \in Procs : x = cpu[c].proc
  BY <1>1 DEF CpuOK
<1>3. PICK st \in {"RUNNABLE", "SLEEPING"}, ch \in Chans, ctx \in Contexts \ {"zombie"} :
        SwitchOut(c, [proc[x] EXCEPT !.state = st, !.chan = ch,
                                     !.voluntarily_yielded = TRUE, !.context = ctx])
  <2>1. CASE UserTimer(c) /\ ~proc[cpu[c].proc].killed
    <3>1. [proc[x] EXCEPT !.state = "RUNNABLE", !.voluntarily_yielded = TRUE,
                          !.context = "user"]
          = [proc[x] EXCEPT !.state = "RUNNABLE", !.chan = proc[x].chan,
                            !.voluntarily_yielded = TRUE, !.context = "user"]
      BY <1>1, <1>2, Zenon DEF ProcRecords
    <3>2. proc[x].chan \in Chans /\ "user" \in Contexts \ {"zombie"}
      BY <1>1, <1>2 DEF ProcRecords, Contexts
    <3> QED
      BY <1>2, <2>1, <3>1, <3>2, Zenon DEF UserTimer, yield
  <2>2. CASE SleepIO(c)
    <3>1. "io" \in Chans /\ cpu[c].pc \in Contexts \ {"zombie"}
      BY <2>2 DEF SleepIO, Contexts, Chans
    <3> QED
      BY <1>2, <2>2, <3>1, Zenon DEF SleepIO
  <2>3. CASE KwaitSleep(c)
    <3>1. "wait" \in Chans /\ "wait" \in Contexts \ {"zombie"}
      BY DEF Contexts, Chans
    <3> QED
      BY <1>2, <2>3, <3>1, Zenon DEF KwaitSleep
  <2> QED
    BY <2>1, <2>2, <2>3, Zenon
<1> DEFINE r == [proc[x] EXCEPT !.state = st, !.chan = ch,
                                !.voluntarily_yielded = TRUE, !.context = ctx]
<1>4. /\ r.state = st /\ r.context = ctx /\ r.parent = proc[x].parent
      /\ r.voluntarily_yielded = TRUE
  BY <1>1 DEF ProcRecords
<1>5. proc' = [proc EXCEPT ![x] = r] /\ cpu' = [cpu EXCEPT ![c] = SchedLoop]
  BY <1>2, <1>3, <1>4 DEF SwitchOut, Demoted, At
<1>6. proc'[x] = r /\ \A y \in Procs : y # x => proc'[y] = proc[y]
  BY <1>1, <1>5
<1> HIDE DEF r
<1>7. \A y \in Procs :
            /\ proc'[y].parent \in {proc[y].parent, InitProc}
            /\ y # x => /\ proc'[y].context = proc[y].context
                        /\ proc'[y].state = proc[y].state
  BY <1>4, <1>6
<1>8. /\ proc'[x].state \in {"RUNNABLE", "SLEEPING"} /\ proc'[x].context # "zombie"
  BY <1>3, <1>4, <1>6
<1> QED
  BY <1>1, <1>2, <1>5, <1>7, <1>8, UpOff, Zenon

LEMMA ExitIs ==
  ASSUME NEW c \in CPUs, kexit(c), proc \in [Procs -> ProcRecords],
         cpu[c].proc \in Procs, cpu[c].proc # InitProc
  PROVE  /\ cpu' = [cpu EXCEPT ![c] = SchedLoop]
         /\ \A x \in Procs :
              /\ proc'[x].parent = reparent(cpu[c].proc, proc[x].parent)
              /\ x = cpu[c].proc => proc'[x].state = "ZOMBIE" /\ proc'[x].context = "zombie"
              /\ x # cpu[c].proc =>
                   /\ proc'[x].context = proc[x].context /\ proc'[x].chan = proc[x].chan
                   /\ proc'[x].killed = proc[x].killed
                   /\ \/ proc'[x].state = proc[x].state
                      \/ proc[x].state = "SLEEPING" /\ proc'[x].state = "RUNNABLE"
<1> DEFINE p        == cpu[c].proc
           wakes    == ({proc[p].parent} \cup (IF Kids(p) = {} THEN {} ELSE {InitProc}))
                         \ {p}
           after(x) == [proc[x] EXCEPT
                          !.parent = reparent(p, @),
                          !.state  = IF x = p THEN "ZOMBIE"
                                     ELSE IF x \in wakes /\ @ = "SLEEPING"
                                             /\ proc[x].chan = "wait"
                                     THEN "RUNNABLE" ELSE @,
                          !.context = IF x = p THEN "zombie" ELSE @]
<1>1. proc' = [x \in Procs |-> IF x = p THEN Demoted(after(p)) ELSE after(x)]
  BY Zenon DEF kexit
<1>2. cpu' = [cpu EXCEPT ![c] = SchedLoop]
  BY Zenon DEF kexit, At
<1>3. p \in Procs /\ InitProc \in Procs
  BY ZeroType, Zenon DEF InitProc
<1> HIDE DEF wakes, p
<1>4. \A x \in Procs :
        /\ after(x).parent = reparent(p, proc[x].parent)
        /\ x = p => after(x).state = "ZOMBIE" /\ after(x).context = "zombie"
        /\ x # p => /\ after(x).context = proc[x].context /\ after(x).chan = proc[x].chan
                    /\ after(x).killed = proc[x].killed
                    /\ \/ after(x).state = proc[x].state
                       \/ proc[x].state = "SLEEPING" /\ after(x).state = "RUNNABLE"
  BY DEF ProcRecords
<1>5. after(p) \in ProcRecords
  <2>1. reparent(p, proc[p].parent) \in Procs \cup {NoProc}
    BY <1>3 DEF reparent, ProcRecords
  <2>2. after(p) = [proc[p] EXCEPT !.parent = reparent(p, proc[p].parent),
                                   !.state = "ZOMBIE", !.context = "zombie"]
    OBVIOUS
  <2>3. proc[p] \in ProcRecords
    BY <1>3
  <2> HIDE DEF after
  <2> QED
    BY <2>1, <2>2, <2>3, Zenon DEF ProcRecords, States, Contexts
<1> HIDE DEF after
<1>6. /\ Demoted(after(p)).state = after(p).state
      /\ Demoted(after(p)).context = after(p).context
      /\ Demoted(after(p)).parent = after(p).parent
  BY <1>5 DEF Demoted, AtLevel, ProcRecords
<1>7. \A x \in Procs :
        /\ proc'[x].parent = reparent(p, proc[x].parent)
        /\ x = p => proc'[x].state = "ZOMBIE" /\ proc'[x].context = "zombie"
        /\ x # p => /\ proc'[x].context = proc[x].context /\ proc'[x].chan = proc[x].chan
                    /\ proc'[x].killed = proc[x].killed
                    /\ \/ proc'[x].state = proc[x].state
                       \/ proc[x].state = "SLEEPING" /\ proc'[x].state = "RUNNABLE"
  <2> TAKE x \in Procs
  <2>1. proc'[x] = IF x = p THEN Demoted(after(p)) ELSE after(x)
    BY <1>1, Zenon
  <2>2. CASE x = p
    BY <1>3, <1>4, <1>6, <2>1, <2>2, Zenon
  <2>3. CASE x # p
    BY <1>4, <2>1, <2>3, Zenon
  <2> QED
    BY <2>2, <2>3, Zenon
<1> QED
  BY <1>2, <1>7, Zenon DEF p

LEMMA UpExit ==
  ASSUME NCPU = 1, SmpInv, UpInv, SmpInv', NEW c \in CPUs, kexit(c),
         cpu[c].proc # InitProc
  PROVE  UpInv' /\ Life!LifeNext
<1>1. /\ proc \in [Procs -> ProcRecords] /\ cpu[c].pc \in ProcPCs /\ CpuOK(c)
      /\ InitProc \in Procs
  BY ZeroType, Zenon DEF SmpInv, TypeOK, kexit, ProcPCs, InitProc
<1>2. PICK p \in Procs : p = cpu[c].proc
  BY <1>1 DEF CpuOK
<1>3. cpu' = [cpu EXCEPT ![c] = SchedLoop]
  BY <1>1, <1>2, ExitIs, Zenon
<1>4. \A x \in Procs :
        /\ proc'[x].parent = reparent(p, proc[x].parent)
        /\ x = p => proc'[x].state = "ZOMBIE" /\ proc'[x].context = "zombie"
        /\ x # p => /\ proc'[x].context = proc[x].context
                    /\ \/ proc'[x].state = proc[x].state
                       \/ proc[x].state = "SLEEPING" /\ proc'[x].state = "RUNNABLE"
  BY <1>1, <1>2, ExitIs, Zenon
<1>5. \A x \in Procs : /\ reparent(p, proc[x].parent) \in {proc[x].parent, InitProc}
                       /\ reparent(p, proc[x].parent) # p
  BY <1>2 DEF reparent
<1>6. /\ proc'[p].state = "ZOMBIE" /\ proc'[p].context = "zombie"
       /\ p # InitProc /\ \A y \in Procs : proc'[y].parent # p
  BY <1>2, <1>4, <1>5, Zenon
<1>7. \A y \in Procs :
         /\ proc'[y].parent \in {proc[y].parent, InitProc}
         /\ y # p => /\ proc'[y].context = proc[y].context
                     /\ \/ proc'[y].state = proc[y].state
                        \/ /\ proc[y].state = "SLEEPING" /\ proc'[y].state = "RUNNABLE"
                           /\ proc'[p].state = "ZOMBIE"
  BY <1>4, <1>5, <1>6
<1> QED
  BY <1>1, <1>2, <1>3, <1>6, <1>7, UpOff, Zenon

LEMMA UpInit ==
  ASSUME NCPU = 1, Init
  PROVE  UpInv /\ Life!LifeInit
<1> DEFINE first == [Allocated(UnusedProc) EXCEPT !.state = "RUNNABLE"]
<1>1. /\ first.state = "RUNNABLE" /\ first.context = "forkret" /\ first.parent = NoProc
      /\ UnusedProc.state = "UNUSED" /\ UnusedProc.parent = NoProc
  BY UnusedType, Zenon DEF UnusedProc, Allocated, AtLevel, ProcRecords
<1>2. proc = [p \in Procs |-> IF p = InitProc THEN first ELSE UnusedProc]
  BY DEF Init
<1> HIDE DEF first
<1>3. InitProc \in Procs
  BY ZeroType DEF InitProc
<1>4. \A c \in CPUs : cpu[c].pc = "promote" /\ cpu[c].proc = NoProc
  BY DEF Init, SchedLoop
<1>5. \A p \in Procs : /\ p = InitProc => proc[p].state = "RUNNABLE"
                       /\ p # InitProc => proc[p].state = "UNUSED"
                       /\ proc[p].parent = NoProc
                       /\ proc[p].state # "UNUSED" => proc[p].context = "forkret"
  BY <1>1, <1>2
<1>6. UpInv
  BY <1>3, <1>4, <1>5, Zenon
     DEF UpInv, UpCpuOK, RunningHasCpu, CanResume, Alive, NoOrphan, SchedPCs
<1>7. Life!LifeInit
  BY <1>4, <1>5 DEF Life!LifeInit
<1> QED
  BY <1>6, <1>7

LEMMA UpStep ==
  ASSUME NCPU = 1, SmpInv, UpInv, NEW c \in CPUs, CpuStep(c)
  PROVE  UpInv' /\ [Life!LifeNext]_(Life!lifeVars)
<1> ~StackShared
  BY NotShared
<1> SmpInv'
  BY SmpStep
<1>1. CASE SchedStep(c)
  BY <1>1, UpPromote, UpChoose, UpDispatch DEF SchedStep
<1>2. CASE KernelStep(c)
  <2>1. CASE kexit(c)
    BY <2>1, UpSimple, UpExit, Zenon
  <2>2. CASE \E np \in Procs : ForkAlloc(c, np) \/ ForkFail(c, np)
    BY <2>2, UpFork
  <2>3. CASE \E v \in Victims : kkill(c, v)
    BY <2>3, UpKill
  <2>4. CASE \/ Return(c) \/ BootDone(c) \/ SysExit(c) \/ SysWait(c) \/ KwaitFail(c)
             \/ KwaitBlock(c)
    BY <2>4, UpSimple
  <2>5. CASE \/ SleepIO(c) \/ KwaitSleep(c) \/ KwaitReap(c)
             \/ ForkParent(c) \/ ForkRunnable(c)
    BY <2>5, UpStop, UpReap, UpForkParent, UpForkRunnable
  <2> QED
    BY <1>2, <2>1, <2>2, <2>3, <2>4, <2>5 DEF KernelStep
<1>3. CASE Timer(c)
  BY <1>3, UpSimple, UpStop, UpFaultTick, Zenon DEF Timer
<1>4. CASE UserStep(c)
  BY <1>4, UpSimple, UpFaultTick, Zenon DEF UserStep
<1>5. CASE \E p \in Procs : Wakeup(c, p)
  BY <1>5, UpWake
<1> QED
  BY <1>1, <1>2, <1>3, <1>4, <1>5 DEF CpuStep

LEMMA UpStutter ==
  ASSUME UpInv, UNCHANGED vars
  PROVE  UpInv' /\ UNCHANGED Life!lifeVars
<1>1. UpInv'
  BY Zenon DEF vars, UpInv, UpCpuOK, RunningHasCpu, CanResume, Alive, NoOrphan
<1>2. UNCHANGED Life!lifeVars
  BY DEF vars, Life!lifeVars
<1> QED
  BY <1>1, <1>2

\* On one CPU, UpInv holds throughout.
THEOREM UpInvariant == (NCPU = 1) => (Spec => []UpInv)
<1> SUFFICES ASSUME NCPU = 1 PROVE Spec => []UpInv
  OBVIOUS
<1>1. Init => UpInv
  BY UpInit
<1>2. SmpInv /\ UpInv /\ [Next]_vars => UpInv'
  BY UpStep, UpStutter DEF Next
<1> QED
  BY <1>1, <1>2, SmpInvariant, PTL DEF Spec

\* On one CPU a process is RUNNING exactly when the CPU runs it.
THEOREM RunningTheorem == (NCPU = 1) => (Spec => []RunningIffOnCpu)
<1> SUFFICES ASSUME NCPU = 1 PROVE Spec => []RunningIffOnCpu
  OBVIOUS
<1>1. SmpInv /\ UpInv => RunningIffOnCpu
  <2> SUFFICES ASSUME SmpInv, UpInv, NEW p \in Procs
               PROVE  proc[p].state = "RUNNING" <=> \E c \in CPUs : cpu[c].proc = p
    BY DEF RunningIffOnCpu
  <2>1. ASSUME NEW c \in CPUs, cpu[c].proc = p PROVE proc[p].state = "RUNNING"
    <3>1. cpu[c].pc \notin SchedPCs
      BY <2>1, NullAssumption DEF SmpInv, CpuOK
    <3> QED
      BY <2>1, <3>1, Zenon DEF UpInv, UpCpuOK
  <2> QED
    BY <2>1 DEF UpInv, RunningHasCpu
<1> QED
  BY <1>1, SmpInvariant, UpInvariant, PTL

\* On one CPU every child has a parent that can still wait for it.
THEOREM OrphanTheorem == (NCPU = 1) => (Spec => []NoOrphan)
<1> SUFFICES ASSUME NCPU = 1 PROVE Spec => []NoOrphan
  OBVIOUS
<1>1. UpInv => NoOrphan
  BY DEF UpInv
<1> QED
  BY <1>1, UpInvariant, PTL

\* On one CPU the process table implements the life cycle of ProcLife.
THEOREM LifeCycleTheorem == (NCPU = 1) => (Spec => LifeCycle)
<1> SUFFICES ASSUME NCPU = 1 PROVE Spec => LifeCycle
  OBVIOUS
<1>1. Init => Life!LifeInit
  BY UpInit
<1>2. SmpInv /\ UpInv /\ [Next]_vars => [Life!LifeNext]_(Life!lifeVars)
  BY UpStep, UpStutter DEF Next
<1> QED
  BY <1>1, <1>2, SmpInvariant, UpInvariant, PTL DEF Spec, LifeCycle, Life!LifeSpec

-----------------------------------------------------------------------------
(* A process that was killed does not sleep in kwait() *)

\* kwait() sleeps only if killed was not set when it looked; on one CPU nobody
\* can set it between the look and sleep().
KillInv ==
  KilledWaiterAwake /\ \A c \in CPUs : cpu[c].pc = "waitsleep" => ~proc[cpu[c].proc].killed

NoNewSleeper ==
  \A x \in Procs : proc'[x].state = "SLEEPING" =>
    /\ proc[x].state = "SLEEPING" /\ proc'[x].chan = proc[x].chan
    /\ proc'[x].killed => proc[x].killed

LEMMA SchedSleepers ==
  ASSUME SmpInv, UpInv, NEW c \in CPUs, SchedStep(c)
  PROVE  NoNewSleeper
<1>1. proc \in [Procs -> ProcRecords] /\ cpu[c] \in CpuRecords /\ CpuOK(c)
  BY DEF SmpInv, TypeOK
<1>2. CASE SchedPromote(c)
  <2>1. PICK x \in Procs : x = cpu[c].p
    BY <1>1 DEF CpuRecords
  <2>2. /\ Waited(proc[x]).state = proc[x].state /\ Waited(proc[x]).chan = proc[x].chan
        /\ Waited(proc[x]).killed = proc[x].killed
    BY <1>1 DEF Waited, AtLevel, ProcRecords
  <2> QED
    BY <1>1, <1>2, <2>1, <2>2, Zenon DEF SchedPromote, NoNewSleeper
<1>3. CASE SchedChoose(c)
  BY <1>3, Zenon DEF SchedChoose, NoNewSleeper
<1>4. CASE SchedDispatch(c)
  <2>1. PICK x \in Procs : x = cpu[c].chosen
    BY <1>1, <1>4, Zenon DEF CpuOK, SchedDispatch
  <2>2. proc'[x].state = "RUNNING" /\ \A y \in Procs : y # x => proc'[y] = proc[y]
    BY <1>1, <1>4, <2>1, Zenon DEF SchedDispatch, ProcRecords
  <2> QED
    BY <2>2 DEF NoNewSleeper
<1> QED
  BY <1>2, <1>3, <1>4 DEF SchedStep

LEMMA SlotSleepers ==
  ASSUME SmpInv, UpInv, NEW c \in CPUs,
         \/ KwaitReap(c) \/ ForkParent(c) \/ ForkRunnable(c)
         \/ \E np \in Procs : ForkAlloc(c, np) \/ ForkFail(c, np)
         \/ \E v \in Victims : kkill(c, v)
         \/ \E p \in Procs : Wakeup(c, p)
  PROVE  NoNewSleeper
<1>1. proc \in [Procs -> ProcRecords] /\ cpu[c] \in CpuRecords /\ CpuOK(c)
  BY DEF SmpInv, TypeOK
<1> SUFFICES \E x \in Procs : \E r :
               /\ proc' = [proc EXCEPT ![x] = r]
               /\ r.state = "SLEEPING" => /\ proc[x].state = "SLEEPING" /\ r.chan = proc[x].chan
                                          /\ r.killed => proc[x].killed
  BY <1>1 DEF NoNewSleeper
<1>2. CASE KwaitReap(c)
  <2>1. PICK pp \in ZombieKids(cpu[c].proc) : proc' = [proc EXCEPT ![pp] = Freed(proc[pp])]
    BY <1>2, Zenon DEF KwaitReap
  <2>2. pp \in Procs /\ Freed(proc[pp]).state = "UNUSED"
    BY <1>1 DEF Freed, ProcRecords, ZombieKids, Kids
  <2> QED
    BY <2>1, <2>2, Zenon
<1>3. CASE ForkParent(c)
  <2>1. PICK np \in Procs : np = cpu[c].np
    BY <1>1, <1>3 DEF ForkParent, CpuOK
  <2> DEFINE r == [proc[np] EXCEPT !.parent = cpu[c].proc]
  <2>2. r.state = proc[np].state /\ r.chan = proc[np].chan /\ r.killed = proc[np].killed
    BY <1>1 DEF ProcRecords
  <2>3. proc' = [proc EXCEPT ![np] = r]
    BY <1>3, <2>1 DEF ForkParent
  <2> HIDE DEF r
  <2> QED
    BY <2>2, <2>3, Zenon
<1>4. CASE ForkRunnable(c)
  <2>1. PICK np \in Procs : np = cpu[c].np
    BY <1>1, <1>4, Zenon DEF ForkRunnable, CpuOK
  <2> DEFINE r == [proc[np] EXCEPT !.state = "RUNNABLE"]
  <2>2. r.state = "RUNNABLE"
    BY <1>1 DEF ProcRecords
  <2>3. proc' = [proc EXCEPT ![np] = r]
    BY <1>4, <2>1 DEF ForkRunnable
  <2> HIDE DEF r
  <2> QED
    BY <2>2, <2>3, Zenon
<1>5. ASSUME NEW np \in Procs, ForkAlloc(c, np)
      PROVE  \E r : proc' = [proc EXCEPT ![np] = r] /\ r.state # "SLEEPING"
  <2>1. Allocated(proc[np]) \in ProcRecords
    BY <1>1, AllocatedType
  <2> DEFINE x == cpu[c].proc
             r == [Allocated(proc[np]) EXCEPT
                     !.priority = proc[x].priority,
                     !.queue_level = proc[x].queue_level,
                     !.max_time_slice = get_time_slice(proc[x].queue_level)]
  <2>2. proc' = [proc EXCEPT ![np] = r]
    BY <1>5, Zenon DEF ForkAlloc
  <2>3. r.state = "USED"
    BY <1>1, <2>1, Zenon DEF Allocated, AtLevel, ProcRecords
  <2> HIDE DEF r
  <2> QED
    BY <2>2, <2>3, Zenon
<1>6. ASSUME NEW np \in Procs, ForkFail(c, np)
      PROVE  \E r : proc' = [proc EXCEPT ![np] = r] /\ r.state # "SLEEPING"
  <2>1. Allocated(proc[np]) \in ProcRecords
    BY <1>1, AllocatedType
  <2>2. PICK ctx \in {proc[np].context, "forkret"} :
          proc' = [proc EXCEPT ![np] = [Freed(Allocated(proc[np])) EXCEPT !.context = ctx]]
    BY <1>6, Zenon DEF ForkFail
  <2> DEFINE r == [Freed(Allocated(proc[np])) EXCEPT !.context = ctx]
  <2>3. Freed(Allocated(proc[np])) \in ProcRecords
    BY <2>1, FreedType, Zenon
  <2>4. r.state = "UNUSED"
    BY <2>1, <2>3, Zenon DEF Freed, ProcRecords
  <2> HIDE DEF r
  <2> QED
    BY <2>2, <2>4, Zenon DEF r
<1>7. ASSUME NEW v \in Victims, kkill(c, v)
      PROVE  v \in Procs /\ proc' = [proc EXCEPT ![v] = Killed(proc[v])]
             /\ Killed(proc[v]).state # "SLEEPING"
  <2>1. v \in Procs
    BY NullAssumption
  <2>2. proc[v] \in ProcRecords
    BY <1>1, <2>1
  <2>3. Killed(proc[v]).state # "SLEEPING"
    BY <2>2 DEF Killed, ProcRecords
  <2> QED
    BY <1>7, <2>1, <2>3, Zenon DEF kkill
<1>8. ASSUME NEW p \in Procs, Wakeup(c, p)
      PROVE  \E r : proc' = [proc EXCEPT ![p] = r] /\ r.state # "SLEEPING"
  <2> DEFINE r == [proc[p] EXCEPT !.state = "RUNNABLE"]
  <2>1. r.state = "RUNNABLE"
    BY <1>1 DEF ProcRecords
  <2>2. proc' = [proc EXCEPT ![p] = r]
    BY <1>8 DEF Wakeup
  <2> HIDE DEF r
  <2> QED
    BY <2>1, <2>2, Zenon
<1> QED
  <2>1. CASE KwaitReap(c) \/ ForkParent(c) \/ ForkRunnable(c)
    BY <1>2, <1>3, <1>4, <2>1, Zenon
  <2>2. CASE \E np \in Procs : ForkAlloc(c, np) \/ ForkFail(c, np)
    BY <1>5, <1>6, <2>2, Zenon
  <2>3. CASE \E v \in Victims : kkill(c, v)
    <3>1. PICK v \in Victims : kkill(c, v)
      BY <2>3, Zenon
    <3>2. PICK r : r = Killed(proc[v])
      BY Zenon
    <3>3. v \in Procs /\ proc' = [proc EXCEPT ![v] = r] /\ r.state # "SLEEPING"
      BY <1>7, <3>1, <3>2, Zenon
    <3> QED
      BY <3>3, Zenon
  <2>4. CASE \E q \in Procs : Wakeup(c, q)
    BY <1>8, <2>4, Zenon
  <2> QED
    BY <2>1, <2>2, <2>3, <2>4, Zenon

LEMMA OwnSleepers ==
  ASSUME NCPU = 1, SmpInv, UpInv, NEW c \in CPUs,
         \/ Return(c) \/ BootDone(c) \/ SysExit(c) \/ SysWait(c) \/ KwaitFail(c) \/ KwaitBlock(c)
         \/ kexit(c) \/ Timer(c) \/ UserStep(c)
  PROVE  NoNewSleeper
<1>1. /\ proc \in [Procs -> ProcRecords] /\ cpu[c] \in CpuRecords
      /\ CpuOK(c) /\ UpCpuOK(c) /\ cpu[c].pc \in ProcPCs
  BY Zenon DEF SmpInv, UpInv, TypeOK, Return, BootDone, SysExit, SysWait, KwaitFail, KwaitBlock, kexit,
         Timer, UserTimer, KernelTimer, UserStep, Syscall, UserTrap, UserFault, ProcPCs
<1>2. PICK p \in Procs : p = cpu[c].proc /\ proc[p].state = "RUNNING"
  BY <1>1, Zenon DEF CpuOK, UpCpuOK, ProcPCs, SchedPCs
<1>3. CASE proc' = proc
  BY <1>3, Zenon DEF NoNewSleeper
<1>4. CASE UserFault(c) \/ KernelTimer(c)
  <2>1. proc'[p].state = "RUNNING" /\ \A y \in Procs : y # p => proc'[y] = proc[y]
    BY <1>1, <1>2, <1>4 DEF UserFault, KernelTimer, ProcRecords
  <2> QED
    BY <2>1, Zenon DEF NoNewSleeper
<1>5. CASE yield(c)
  <2> DEFINE r == [proc[p] EXCEPT !.state = "RUNNABLE", !.voluntarily_yielded = TRUE,
                                  !.context = "user"]
  <2>1. r.state = "RUNNABLE" /\ r.voluntarily_yielded = TRUE
    BY <1>1 DEF ProcRecords
  <2>2. proc' = [proc EXCEPT ![p] = r]
    BY <1>2, <1>5, <2>1, Zenon DEF yield, SwitchOut, Demoted
  <2> HIDE DEF r
  <2> QED
    BY <1>1, <2>1, <2>2 DEF NoNewSleeper
<1>6. CASE kexit(c)
  <2> SUFFICES ASSUME p # InitProc
               PROVE  NoNewSleeper
    BY <1>2, <1>3, <1>6, Zenon DEF kexit
  <2>1. \A x \in Procs :
          /\ x = p => proc'[x].state = "ZOMBIE"
          /\ x # p => /\ proc'[x].chan = proc[x].chan /\ proc'[x].killed = proc[x].killed
                      /\ \/ proc'[x].state = proc[x].state
                         \/ proc'[x].state = "RUNNABLE"
    BY <1>1, <1>2, <1>6, ExitIs, Zenon
  <2> QED
    BY <2>1 DEF NoNewSleeper
<1> QED
  BY <1>3, <1>4, <1>5, <1>6, Zenon DEF Return, BootDone, SysExit, SysWait, KwaitFail, KwaitBlock,
     Timer, UserTimer, UserStep, Syscall, UserTrap

\* A CPU comes to the call of sleep() in kwait() by KwaitBlock() only.
LEMMA BlockOnly ==
  ASSUME NCPU = 1, SmpInv, UpInv, NEW c \in CPUs, CpuStep(c), ~KwaitBlock(c)
  PROVE  cpu'[c].pc # "waitsleep"
<1>1. cpu \in [CPUs -> CpuRecords] /\ cpu[c] \in CpuRecords /\ CpuOK(c) /\ proc \in [Procs -> ProcRecords]
  BY DEF SmpInv, TypeOK
<1>2. SchedLoop.pc = "promote"
  BY Zenon DEF SchedLoop
<1>3. ASSUME NEW pc, Goto(c, pc)
      PROVE  cpu'[c].pc = pc
  BY <1>1, <1>3 DEF Goto, At, CpuRecords
<1>4. ASSUME NEW r, SwitchOut(c, r)
      PROVE  cpu'[c].pc = "promote"
  BY <1>1, <1>2, <1>4 DEF SwitchOut, At
<1>5. CASE SchedStep(c)
  <2>1. CASE SchedPromote(c)
    BY <1>1, <2>1 DEF SchedPromote, At, SchedLoop, CpuRecords
  <2>2. CASE SchedChoose(c)
    <3>1. PICK x : \/ At(c, [SchedLoop EXCEPT !.pc = "dispatch", !.chosen = x])
                   \/ At(c, [cpu[c] EXCEPT !.checked = x])
                   \/ At(c, [cpu[c] EXCEPT !.q = x, !.checked = 0])
                   \/ At(c, SchedLoop)
      BY <2>2, Zenon DEF SchedChoose
    <3>2. /\ cpu[c].pc = "choose"
          /\ [SchedLoop EXCEPT !.pc = "dispatch", !.chosen = x].pc = "dispatch"
          /\ [cpu[c] EXCEPT !.checked = x].pc = cpu[c].pc
          /\ [cpu[c] EXCEPT !.q = x, !.checked = 0].pc = cpu[c].pc
      BY <1>1, <2>2, Zenon DEF SchedChoose, SchedLoop, CpuRecords
    <3>3. \A k : At(c, k) => cpu'[c] = k
      BY <1>1 DEF At
    <3> QED
      BY <1>2, <3>1, <3>2, <3>3, Zenon
  <2>3. CASE SchedDispatch(c)
    <3>1. PICK x \in Procs : x = cpu[c].chosen
      BY <1>1, <2>3, Zenon DEF CpuOK, SchedDispatch
    <3>2. proc[x].context \in Contexts
      BY <1>1 DEF ProcRecords
    <3>3. Resumed(x) # "waitsleep"
      BY <3>2 DEF Resumed, Contexts
    <3>4. cpu'[c].pc = Resumed(x)
      BY <1>1, <2>3, <3>1 DEF SchedDispatch, At, SchedLoop
    <3> QED
      BY <3>3, <3>4
  <2> QED
    BY <1>5, <2>1, <2>2, <2>3, Zenon DEF SchedStep
<1>6. CASE \/ SysExit(c) \/ SysWait(c) \/ KwaitReap(c) \/ KwaitFail(c) \/ ForkParent(c)
           \/ Return(c) \/ BootDone(c) \/ UserStep(c)
           \/ (\E np \in Procs : ForkFail(c, np)) \/ (\E v \in Victims : kkill(c, v))
  <2>1. PICK pc \in {"user", "kernel", "ret", "wait", "exit", "fork2"} : Goto(c, pc)
    BY <1>6, Zenon DEF SysExit, SysWait, KwaitReap, KwaitFail, ForkParent, Return, BootDone, ForkFail, kkill,
       UserStep, Syscall, UserTrap, UserFault, UserOrExit
  <2> QED
    BY <1>3, <2>1
<1>7. CASE kexit(c)
  <2>1. CASE cpu[c].proc = InitProc
    BY <1>3, <1>7, <2>1, Zenon DEF kexit
  <2>2. CASE cpu[c].proc # InitProc
    BY <1>1, <1>2, <1>7, <2>2, Zenon DEF kexit, At
  <2> QED
    BY <2>1, <2>2
<1>8. CASE SleepIO(c) \/ KwaitSleep(c)
  BY <1>4, <1>8 DEF SleepIO, KwaitSleep
<1>9. CASE UserTimer(c)
  BY <1>3, <1>4, <1>9 DEF UserTimer, yield
<1>10. CASE KernelTimer(c) \/ \E p \in Procs : Wakeup(c, p)
  BY <1>10 DEF KernelTimer, Wakeup, InterruptsOn
<1>11. CASE ForkRunnable(c) \/ \E np \in Procs : ForkAlloc(c, np)
  <2>1. \A x : /\ [cpu[c] EXCEPT !.pc = "ret", !.np = x].pc = "ret"
               /\ [cpu[c] EXCEPT !.pc = "fork1", !.np = x].pc = "fork1"
    BY <1>1 DEF CpuRecords
  <2>2. CASE ForkRunnable(c)
    <3>1. At(c, [cpu[c] EXCEPT !.pc = "ret", !.np = NoProc])
      BY <2>2 DEF ForkRunnable
    <3> QED
      BY <1>1, <2>1, <3>1 DEF At
  <2>3. ASSUME NEW np \in Procs, ForkAlloc(c, np)
        PROVE  cpu'[c].pc = "fork1"
    <3>1. At(c, [cpu[c] EXCEPT !.pc = "fork1", !.np = np])
      BY <2>3 DEF ForkAlloc
    <3> QED
      BY <1>1, <2>1, <3>1 DEF At
  <2> QED
    BY <1>11, <2>2, <2>3
<1> QED
  BY <1>5, <1>6, <1>7, <1>8, <1>9, <1>10, <1>11, Zenon DEF CpuStep, KernelStep, Timer

LEMMA KillStep ==
  ASSUME NCPU = 1, SmpInv, UpInv, KillInv, NEW c \in CPUs, CpuStep(c)
  PROVE  KillInv'
<1>1. \A d \in CPUs : d = c
  BY OneCpu
<1>2. proc \in [Procs -> ProcRecords] /\ cpu \in [CPUs -> CpuRecords] /\ CpuOK(c)
  BY DEF SmpInv, TypeOK
<1>3. KilledWaiterAwake'
  <2>1. CASE NoNewSleeper
    BY <2>1, Zenon DEF KillInv, KilledWaiterAwake, NoNewSleeper
  <2>2. CASE SleepIO(c)
    <3>1. PICK p \in Procs : p = cpu[c].proc
      BY <1>2, <2>2 DEF SleepIO, CpuOK, ProcPCs
    <3> DEFINE r == [proc[p] EXCEPT !.state = "SLEEPING", !.chan = "io",
                                    !.voluntarily_yielded = TRUE, !.context = cpu[c].pc]
    <3>2. r.chan = "io" /\ r.voluntarily_yielded = TRUE
      BY <1>2 DEF ProcRecords
    <3>3. proc' = [proc EXCEPT ![p] = r]
      BY <2>2, <3>1, <3>2 DEF SleepIO, SwitchOut, Demoted
    <3> HIDE DEF r
    <3> QED
      BY <1>2, <3>2, <3>3 DEF KillInv, KilledWaiterAwake
  <2>3. CASE KwaitSleep(c)
    <3>1. PICK p \in Procs : p = cpu[c].proc /\ ~proc[p].killed
      BY <1>2, <2>3 DEF KwaitSleep, CpuOK, ProcPCs, KillInv
    <3> DEFINE r == [proc[p] EXCEPT !.state = "SLEEPING", !.chan = "wait",
                                    !.voluntarily_yielded = TRUE, !.context = "wait"]
    <3>2. r.killed = proc[p].killed /\ r.voluntarily_yielded = TRUE
      BY <1>2 DEF ProcRecords
    <3>3. proc' = [proc EXCEPT ![p] = r]
      BY <2>3, <3>1, <3>2 DEF KwaitSleep, SwitchOut, Demoted
    <3> HIDE DEF r
    <3> QED
      BY <1>2, <3>1, <3>2, <3>3 DEF KillInv, KilledWaiterAwake
  <2> QED
    BY <2>1, <2>2, <2>3, SchedSleepers, SlotSleepers, OwnSleepers, Zenon DEF CpuStep, KernelStep
<1>4. cpu'[c].pc = "waitsleep" => ~proc'[cpu'[c].proc].killed
  <2> SUFFICES ASSUME KwaitBlock(c)
               PROVE  ~proc'[cpu'[c].proc].killed
    BY BlockOnly, Zenon
  <2>1. proc' = proc /\ ~proc[cpu[c].proc].killed /\ Goto(c, "waitsleep")
    BY Zenon DEF KwaitBlock
  <2>2. cpu'[c].proc = cpu[c].proc
    BY <1>2, <2>1 DEF Goto, At, CpuRecords
  <2> QED
    BY <2>1, <2>2
<1> QED
  BY <1>1, <1>3, <1>4, Zenon DEF KillInv

\* On one CPU a process that was killed never sleeps in kwait(): kkill() wakes
\* it, or kwait() saw the flag.
THEOREM KillTheorem == (NCPU = 1) => (Spec => []KilledWaiterAwake)
<1> SUFFICES ASSUME NCPU = 1 PROVE Spec => []KilledWaiterAwake
  OBVIOUS
<1>1. Init => KillInv
  <2> SUFFICES ASSUME Init PROVE KillInv
    OBVIOUS
  <2>1. \A c \in CPUs : cpu[c].pc = "promote"
    BY DEF Init, SchedLoop
  <2>2. \A p \in Procs : proc[p].state # "SLEEPING"
    <3>1. SmpInv /\ Life!LifeInit
      BY SmpInit, UpInit
    <3>2. \A p \in Procs : [q \in Procs |-> proc[q].state][p] # "SLEEPING"
      BY <3>1 DEF Life!LifeInit
    <3> QED
      BY <3>2
  <2> QED
    BY <2>1, <2>2 DEF KillInv, KilledWaiterAwake
<1>2. SmpInv /\ UpInv /\ KillInv /\ [Next]_vars => KillInv'
  <2>1. KillInv /\ UNCHANGED vars => KillInv'
    BY DEF KillInv, KilledWaiterAwake, vars
  <2> QED
    BY <2>1, KillStep DEF Next
<1>3. KillInv => KilledWaiterAwake
  BY DEF KillInv
<1> QED
  BY <1>1, <1>2, <1>3, SmpInvariant, UpInvariant, PTL DEF Spec
=============================================================================
