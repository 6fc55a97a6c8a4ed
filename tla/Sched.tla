------------------------------- MODULE Sched -------------------------------
(***************************************************************************)
(* The process table and the per-CPU MLFQ scheduler of kernel/proc.c, with *)
(* the timer paths of kernel/trap.c that drive it.                         *)
(*                                                                         *)
(* Granularity.  Every field of struct proc used here is protected by      *)
(* p->lock (parent by wait_lock), so one action is one critical section of *)
(* p->lock, from the acquire to the matching release, even when the        *)
(* release is done by another context after swtch().  wait_lock, which is  *)
(* held over several such sections, is a variable.                         *)
(*                                                                         *)
(* proc[p].context is the point at which p resumes when it is switched to, *)
(* i.e. what swtch() saved; cpu[c].pc is the point CPU c is executing.     *)
(***************************************************************************)
EXTENDS Integers

CONSTANTS
  NPROC,            \* slots of the process table
  NCPU,             \* CPUs
  NQUEUES,          \* priority levels
  TIME_SLICE,       \* TIME_SLICE[l]: ticks of a slice at level l
  PROMO_THRESHOLD,  \* slices of waiting before a promotion
  TickCap, WaitCap, \* where the two counters saturate, see Bump
  Victims,          \* slots whose occupant user programs pass to kill()
  NoProc, NoCpu     \* null pointers

Procs  == 0 .. NPROC - 1
CPUs   == 0 .. NCPU - 1
Levels == 0 .. NQUEUES - 1

ASSUME SizeAssumption ==
  /\ NPROC \in Nat \ {0} /\ NCPU \in Nat \ {0} /\ NQUEUES \in Nat \ {0}
  /\ TickCap \in Nat /\ WaitCap \in Nat

ASSUME SliceAssumption ==
  /\ TIME_SLICE \in [Levels -> 1 .. TickCap]
  /\ PROMO_THRESHOLD \in Nat \ {0}
  /\ \A l \in Levels : TIME_SLICE[l] * PROMO_THRESHOLD <= WaitCap

ASSUME NullAssumption ==
  NoProc \notin Procs /\ NoCpu \notin CPUs /\ Victims \subseteq Procs

\* userinit() takes the first slot of the empty table.
InitProc == 0

States == {"UNUSED", "USED", "SLEEPING", "RUNNABLE", "RUNNING", "ZOMBIE"}

\* Channels told apart: a process sleeping in kwait() sleeps on its own
\* struct proc ("wait"); every other channel is "io".
Chans == {"none", "wait", "io"}

\* Points of the scheduler loop, and points of a process in the kernel.
SchedPCs == {"promote", "choose", "dispatch"}
ProcPCs  == {"boot", "user", "kernel", "ret", "fork1", "fork2", "wait",
             "waitsleep", "exit"}
PanicPCs == {"zombie exit", "init exiting", "kerneltrap"}
Contexts == {"forkret", "boot", "user", "kernel", "wait", "exit", "zombie"}

\* Points at which a process can be inside sleep().
Sleeps   == {"boot", "kernel", "wait", "exit"}

VARIABLES proc, cpu, rr_state, wait_lock

vars == <<proc, cpu, rr_state, wait_lock>>

-----------------------------------------------------------------------------
(* MLFQ helpers *)

get_time_slice(level) ==
  TIME_SLICE[IF level \in Levels THEN level ELSE NQUEUES - 1]

has_to_demote(r) == r.timer_ticks_used >= r.max_time_slice

\* The two int counters are only ever compared with a slice, or with a slice
\* times PROMO_THRESHOLD; saturating them above every such bound changes no
\* comparison and keeps the state finite.
Bump(n, cap) == IF n < cap THEN n + 1 ELSE n

AtLevel(r, l) ==
  [r EXCEPT !.queue_level = l, !.priority = l,
            !.max_time_slice = get_time_slice(l),
            !.timer_ticks_used = 0, !.wait_timer_ticks = 0]

\* One RUNNABLE process visited by the promotion loop of scheduler().
Waited(r) ==
  LET w == Bump(r.wait_timer_ticks, WaitCap)
  IN  IF w >= get_time_slice(r.queue_level) * PROMO_THRESHOLD
           /\ r.queue_level > 0
      THEN AtLevel(r, r.queue_level - 1)
      ELSE [r EXCEPT !.wait_timer_ticks = w]

\* The demotion check of scheduler() after the process switched back.
Demoted(r) ==
  IF ~r.voluntarily_yielded /\ has_to_demote(r) /\ r.queue_level < NQUEUES - 1
  THEN AtLevel(r, r.queue_level + 1)
  ELSE r

-----------------------------------------------------------------------------
(* The records of struct proc and of struct cpu plus scheduler()'s locals *)

\* A slot as procinit() leaves it: static storage, all zero.
UnusedProc ==
  [state |-> "UNUSED", killed |-> FALSE, parent |-> NoProc, chan |-> "none",
   context |-> "zombie", queue_level |-> 0, priority |-> 0,
   max_time_slice |-> 0, timer_ticks_used |-> 0, wait_timer_ticks |-> 0,
   voluntarily_yielded |-> FALSE]

\* allocproc(): killed is left as it is.
Allocated(r) ==
  [AtLevel(r, 0) EXCEPT !.state = "USED", !.parent = NoProc,
                        !.voluntarily_yielded = FALSE, !.context = "forkret"]

\* freeproc(): max_time_slice and context are left as they are.
Freed(r) ==
  [r EXCEPT !.state = "UNUSED", !.parent = NoProc, !.chan = "none",
            !.killed = FALSE, !.priority = 0, !.queue_level = 0,
            !.timer_ticks_used = 0, !.wait_timer_ticks = 0,
            !.voluntarily_yielded = FALSE]

\* The head of the for(;;) of scheduler().
SchedLoop ==
  [pc |-> "promote", proc |-> NoProc, p |-> 0, q |-> 0, checked |-> 0,
   chosen |-> NoProc, np |-> NoProc]

\* main(): procinit() and userinit() on hart 0, then scheduler() everywhere.
Init ==
  /\ proc = [p \in Procs |->
               IF p = InitProc
               THEN [Allocated(UnusedProc) EXCEPT !.state = "RUNNABLE"]
               ELSE UnusedProc]
  /\ cpu = [c \in CPUs |-> SchedLoop]
  /\ rr_state = [c \in CPUs |-> [q \in Levels |-> 0]]
  /\ wait_lock = NoCpu

At(c, k)    == cpu' = [cpu EXCEPT ![c] = k]
Goto(c, pc) == At(c, [cpu[c] EXCEPT !.pc = pc])

-----------------------------------------------------------------------------
(* scheduler() *)

\* One iteration of the promotion loop.
SchedPromote(c) ==
  LET p == cpu[c].p
  IN  /\ cpu[c].pc = "promote"
      /\ proc' = IF proc[p].state = "RUNNABLE"
                 THEN [proc EXCEPT ![p] = Waited(@)] ELSE proc
      /\ At(c, IF p + 1 < NPROC THEN [cpu[c] EXCEPT !.p = p + 1]
               ELSE [SchedLoop EXCEPT !.pc = "choose"])
      /\ UNCHANGED <<rr_state, wait_lock>>

NextIndexStays(idx) == idx           \* mutant: no round robin

\* Where the next round-robin scan of the level starts.
NextIndex(idx) == (idx + 1) % NPROC

\* One iteration of the selection loop.  last_queued_proc[q] does not move
\* while level q is scanned, so the code's start_index is read from it.
SchedChoose(c) ==
  LET q    == cpu[c].q
      idx  == (rr_state[c][q] + cpu[c].checked) % NPROC
      fits == proc[idx].state = "RUNNABLE" /\ proc[idx].queue_level = q
  IN  /\ cpu[c].pc = "choose"
      /\ \/ /\ fits
            /\ rr_state' = [rr_state EXCEPT ![c][q] = NextIndex(idx)]
            /\ At(c, [SchedLoop EXCEPT !.pc = "dispatch", !.chosen = idx])
         \/ /\ ~fits /\ cpu[c].checked + 1 < NPROC
            /\ At(c, [cpu[c] EXCEPT !.checked = cpu[c].checked + 1])
            /\ UNCHANGED rr_state
         \/ /\ ~fits /\ cpu[c].checked + 1 = NPROC /\ q + 1 < NQUEUES
            /\ At(c, [cpu[c] EXCEPT !.q = q + 1, !.checked = 0])
            /\ UNCHANGED rr_state
         \/ /\ ~fits /\ cpu[c].checked + 1 = NPROC /\ q + 1 = NQUEUES
            /\ At(c, SchedLoop)                \* wfi, then the next round
            /\ UNCHANGED rr_state
      /\ UNCHANGED <<proc, wait_lock>>

\* Where a process goes on after swtch() loads its context and it releases
\* p->lock.  forkret() of the first process runs fsinit() and kexec(); in a
\* slot that is free it faults on the null trapframe.
Resumed(p) ==
  CASE proc[p].context = "zombie"  -> "zombie exit"
    [] proc[p].context = "forkret" -> IF proc[p].state = "UNUSED" THEN "kerneltrap"
                                      ELSE IF p = InitProc THEN "boot" ELSE "user"
    [] OTHER                       -> proc[p].context

\* The chosen process is locked again and run, whatever its state is by now.
SchedDispatch(c) ==
  LET p == cpu[c].chosen
  IN  /\ cpu[c].pc = "dispatch"
      /\ proc' = [proc EXCEPT ![p].state = "RUNNING",
                              ![p].voluntarily_yielded = FALSE,
                              ![p].chan = IF proc[p].context \in Sleeps
                                          THEN "none" ELSE @]
      /\ At(c, [SchedLoop EXCEPT !.pc = Resumed(p), !.proc = p])
      /\ UNCHANGED <<rr_state, wait_lock>>

\* mutant: c->proc is not cleared
SwitchOutKeepsProc(c, r) ==
  /\ proc' = [proc EXCEPT ![cpu[c].proc] = Demoted(r)]
  /\ At(c, [SchedLoop EXCEPT !.proc = cpu[c].proc])

\* sched() by the process on c, whose record is now r, up to the release of
\* chosen->lock in scheduler().
SwitchOut(c, r) ==
  /\ proc' = [proc EXCEPT ![cpu[c].proc] = Demoted(r)]
  /\ At(c, SchedLoop)

-----------------------------------------------------------------------------
(* Traps *)

\* The killed() checks of usertrap().
UserOrExit(p) == IF proc[p].killed THEN "exit" ELSE "user"

\* mutant: a preempted process does not count as having yielded
yieldInvoluntary(c) ==
  SwitchOut(c, [proc[cpu[c].proc] EXCEPT !.state = "RUNNABLE",
                                         !.context = "user"])

yield(c) ==
  SwitchOut(c, [proc[cpu[c].proc] EXCEPT !.state = "RUNNABLE",
                                         !.voluntarily_yielded = TRUE,
                                         !.context = "user"])

\* usertrap() on a timer interrupt.
UserTimer(c) ==
  /\ cpu[c].pc = "user"
  /\ IF proc[cpu[c].proc].killed
     THEN Goto(c, "exit") /\ UNCHANGED proc
     ELSE yield(c)
  /\ UNCHANGED <<rr_state, wait_lock>>

\* usertrap() on a system call.
Syscall(c) ==
  /\ cpu[c].pc = "user"
  /\ Goto(c, IF proc[cpu[c].proc].killed THEN "exit" ELSE "kernel")
  /\ UNCHANGED <<proc, rr_state, wait_lock>>

\* usertrap() on a device interrupt or a page fault that vmfault() repairs.
UserTrap(c) ==
  /\ cpu[c].pc = "user"
  /\ Goto(c, UserOrExit(cpu[c].proc))
  /\ UNCHANGED <<proc, rr_state, wait_lock>>

\* usertrap() on an exception it cannot handle: setkilled(), kexit(-1).
UserFault(c) ==
  /\ cpu[c].pc = "user"
  /\ proc' = [proc EXCEPT ![cpu[c].proc].killed = TRUE]
  /\ Goto(c, "exit")
  /\ UNCHANGED <<rr_state, wait_lock>>

\* The end of usertrap() after a system call.
Return(c) ==
  /\ cpu[c].pc \in {"kernel", "ret"}
  /\ Goto(c, UserOrExit(cpu[c].proc))
  /\ UNCHANGED <<proc, rr_state, wait_lock>>

\* forkret() of the first process goes to user space.
BootDone(c) ==
  /\ cpu[c].pc = "boot"
  /\ Goto(c, "user")
  /\ UNCHANGED <<proc, rr_state, wait_lock>>

\* Interrupts are off in scheduler() except at its head, while a spinlock is
\* held, and in forkret(), which inherits them off from scheduler().  kexit()
\* has them off when usertrap() called it and on when sys_exit() did.
InterruptsOn(c) ==
  \/ cpu[c].pc \in ProcPCs \ {"boot", "waitsleep"}
  \/ cpu[c].pc = "promote" /\ cpu[c].p = 0

\* kerneltrap() on a timer interrupt: counts the tick, does not yield.
KernelTimer(c) ==
  LET p == cpu[c].proc
  IN  /\ cpu[c].pc \in ProcPCs \ {"boot", "user", "waitsleep"}
      /\ proc[p].state = "RUNNING"
      /\ proc' = [proc EXCEPT ![p].timer_ticks_used = Bump(@, TickCap)]
      /\ UNCHANGED <<cpu, rr_state, wait_lock>>

\* One iteration of wakeup() on a channel other than kwait()'s, from a
\* device or clock interrupt or from a system call.
Wakeup(c, p) ==
  /\ InterruptsOn(c)
  /\ proc[p].state = "SLEEPING" /\ proc[p].chan = "io"
  /\ proc' = [proc EXCEPT ![p].state = "RUNNABLE"]
  /\ UNCHANGED <<cpu, rr_state, wait_lock>>

-----------------------------------------------------------------------------
(* System calls of the process on CPU c *)

\* sleep() on a device, a pipe, a lock, the log or the clock.
SleepIO(c) ==
  /\ cpu[c].pc \in {"boot", "kernel", "exit"}
  /\ cpu[c].pc = "exit" => cpu[c].proc # InitProc
  /\ SwitchOut(c, [proc[cpu[c].proc] EXCEPT !.state = "SLEEPING", !.chan = "io",
                                            !.voluntarily_yielded = TRUE,
                                            !.context = cpu[c].pc])
  /\ UNCHANGED <<rr_state, wait_lock>>

KilledAsleep(r) == [r EXCEPT !.killed = TRUE]              \* mutant: no wakeup
KilledRuns(r) == [r EXCEPT !.killed = TRUE, !.state = "RUNNABLE"] \* mutant

Killed(r) ==
  [r EXCEPT !.killed = TRUE,
            !.state = IF @ = "SLEEPING" THEN "RUNNABLE" ELSE @]

\* kkill(): the first slot with that pid; every UNUSED slot has pid 0.
kkill(c, p) ==
  /\ cpu[c].pc = "kernel"
  /\ proc[p].state = "UNUSED" => \A k \in 0 .. p - 1 : proc[k].state # "UNUSED"
  /\ proc' = [proc EXCEPT ![p] = Killed(@)]
  /\ Goto(c, "ret")
  /\ UNCHANGED <<rr_state, wait_lock>>

\* kfork() up to the first release of np->lock.
ForkAlloc(c, np) ==
  LET p == cpu[c].proc
  IN  /\ cpu[c].pc = "kernel"
      /\ proc[np].state = "UNUSED"
      /\ proc' = [proc EXCEPT ![np] =
                    [Allocated(@) EXCEPT
                       !.priority = proc[p].priority,
                       !.queue_level = proc[p].queue_level,
                       !.max_time_slice = get_time_slice(proc[p].queue_level)]]
      /\ At(c, [cpu[c] EXCEPT !.pc = "fork1", !.np = np])
      /\ UNCHANGED <<rr_state, wait_lock>>

\* allocproc() or kfork() out of memory: freeproc(np) in the same section.
ForkFail(c, np) ==
  /\ cpu[c].pc = "kernel"
  /\ proc[np].state = "UNUSED"
  /\ \E ctx \in {proc[np].context, "forkret"} :
       proc' = [proc EXCEPT ![np] = [Freed(Allocated(@)) EXCEPT !.context = ctx]]
  /\ Goto(c, "ret")
  /\ UNCHANGED <<rr_state, wait_lock>>

ForkParent(c) ==
  /\ cpu[c].pc = "fork1"
  /\ wait_lock = NoCpu
  /\ proc' = [proc EXCEPT ![cpu[c].np].parent = cpu[c].proc]
  /\ Goto(c, "fork2")
  /\ UNCHANGED <<rr_state, wait_lock>>

ForkRunnable(c) ==
  /\ cpu[c].pc = "fork2"
  /\ proc' = [proc EXCEPT ![cpu[c].np].state = "RUNNABLE"]
  /\ At(c, [cpu[c] EXCEPT !.pc = "ret", !.np = NoProc])
  /\ UNCHANGED <<rr_state, wait_lock>>

SysExit(c) ==
  /\ cpu[c].pc = "kernel"
  /\ Goto(c, "exit")
  /\ UNCHANGED <<proc, rr_state, wait_lock>>

Kids(p)       == {pp \in Procs : proc[pp].parent = p}
ZombieKids(p) == {pp \in Kids(p) : proc[pp].state = "ZOMBIE"}

reparentNone(p, parent) == parent                          \* mutant

\* The parent of a process after reparent(p).
reparent(p, parent) == IF parent = p THEN InitProc ELSE parent

\* The wait_lock section of kexit(): reparent() with its wakeup(initproc),
\* wakeup(p->parent), then ZOMBIE and sched().  The first panic of kexit()
\* is here too.
kexit(c) ==
  LET p        == cpu[c].proc
      wakes    == ({proc[p].parent} \cup (IF Kids(p) = {} THEN {} ELSE {InitProc}))
                    \ {p}
      after(x) == [proc[x] EXCEPT
                     !.parent = reparent(p, @),
                     !.state  = IF x = p THEN "ZOMBIE"
                                ELSE IF x \in wakes /\ @ = "SLEEPING"
                                        /\ proc[x].chan = "wait"
                                THEN "RUNNABLE" ELSE @,
                     !.context = IF x = p THEN "zombie" ELSE @]
  IN  /\ cpu[c].pc = "exit"
      /\ UNCHANGED <<rr_state, wait_lock>>
      /\ IF p = InitProc
         THEN Goto(c, "init exiting") /\ UNCHANGED proc
         ELSE /\ wait_lock = NoCpu
              /\ proc' = [x \in Procs |->
                            IF x = p THEN Demoted(after(p)) ELSE after(x)]
              /\ At(c, SchedLoop)

SysWait(c) ==
  /\ cpu[c].pc = "kernel"
  /\ Goto(c, "wait")
  /\ UNCHANGED <<proc, rr_state, wait_lock>>

\* kwait() finds a zombie child, the first in table order, and frees it.
KwaitReap(c) ==
  LET p == cpu[c].proc
  IN  /\ cpu[c].pc = "wait" /\ wait_lock = NoCpu
      /\ \E pp \in ZombieKids(p) :
           /\ \A k \in ZombieKids(p) : pp <= k
           /\ proc' = [proc EXCEPT ![pp] = Freed(@)]
      /\ Goto(c, "ret")
      /\ UNCHANGED <<rr_state, wait_lock>>

\* kwait() returns -1: copyout() fails, no children, or killed.
KwaitFail(c) ==
  LET p == cpu[c].proc
  IN  /\ cpu[c].pc = "wait" /\ wait_lock = NoCpu
      /\ ZombieKids(p) # {} \/ Kids(p) = {} \/ proc[p].killed
      /\ Goto(c, "ret")
      /\ UNCHANGED <<proc, rr_state, wait_lock>>

\* mutant: wait_lock is released before sleep()
KwaitBlockUnlocked(c) ==
  LET p == cpu[c].proc
  IN  /\ cpu[c].pc = "wait" /\ wait_lock = NoCpu
      /\ ZombieKids(p) = {} /\ Kids(p) # {} /\ ~proc[p].killed
      /\ Goto(c, "waitsleep")
      /\ UNCHANGED <<proc, rr_state, wait_lock>>

\* kwait() has live children only and was not killed when it looked; it
\* still holds wait_lock and is about to call sleep().
KwaitBlock(c) ==
  LET p == cpu[c].proc
  IN  /\ cpu[c].pc = "wait" /\ wait_lock = NoCpu
      /\ ZombieKids(p) = {} /\ Kids(p) # {} /\ ~proc[p].killed
      /\ wait_lock' = c
      /\ Goto(c, "waitsleep")
      /\ UNCHANGED <<proc, rr_state>>

\* sleep(p, &wait_lock).
KwaitSleep(c) ==
  /\ cpu[c].pc = "waitsleep"
  /\ wait_lock' = NoCpu
  /\ SwitchOut(c, [proc[cpu[c].proc] EXCEPT !.state = "SLEEPING", !.chan = "wait",
                                            !.voluntarily_yielded = TRUE,
                                            !.context = "wait"])
  /\ UNCHANGED rr_state

-----------------------------------------------------------------------------
(* Specification *)

\* Two CPUs on one kernel stack: what they execute from there is undefined,
\* so the specification says nothing beyond such a state.
StackShared ==
  \E c, d \in CPUs : c # d /\ cpu[c].proc = cpu[d].proc /\ cpu[c].proc # NoProc

\* panic() never returns.
Panicked == \E c \in CPUs : cpu[c].pc \in PanicPCs

SchedStep(c) == SchedPromote(c) \/ SchedChoose(c) \/ SchedDispatch(c)

KernelStep(c) ==
  \/ Return(c) \/ BootDone(c) \/ SleepIO(c) \/ SysExit(c) \/ kexit(c)
  \/ SysWait(c) \/ KwaitReap(c) \/ KwaitFail(c) \/ KwaitBlock(c) \/ KwaitSleep(c)
  \/ ForkParent(c) \/ ForkRunnable(c)
  \/ \E np \in Procs : ForkAlloc(c, np) \/ ForkFail(c, np)
  \/ \E v \in Victims : kkill(c, v)

Timer(c) == UserTimer(c) \/ KernelTimer(c)

UserStep(c) == Syscall(c) \/ UserTrap(c) \/ UserFault(c)

CpuStep(c) ==
  \/ SchedStep(c) \/ KernelStep(c) \/ Timer(c) \/ UserStep(c)
  \/ \E p \in Procs : Wakeup(c, p)

\* Nothing is said of the machine after a panic either: it spins.
Next ==
  \/ ~StackShared /\ ~Panicked /\ \E c \in CPUs : CpuStep(c)
  \/ Panicked /\ UNCHANGED vars

Spec == Init /\ [][Next]_vars

\* The scheduler loop and the kernel code of a process keep running; the
\* timer keeps interrupting.  Nothing obliges a tick to find a process in
\* user mode, where alone it preempts: TimerSpec assumes only that ticks
\* come, UserTickSpec also that they do not for ever miss user mode.
Progress == \A c \in CPUs : WF_vars(SchedStep(c)) /\ WF_vars(KernelStep(c))

TimerSpec    == Spec /\ Progress /\ \A c \in CPUs : WF_vars(Timer(c))
UserTickSpec == Spec /\ Progress /\ \A c \in CPUs : SF_vars(UserTimer(c))

-----------------------------------------------------------------------------
(* Properties *)

ProcRecords ==
  [state : States, killed : BOOLEAN, parent : Procs \cup {NoProc}, chan : Chans,
   context : Contexts, queue_level : Levels, priority : Levels,
   max_time_slice : 0 .. TickCap, timer_ticks_used : 0 .. TickCap,
   wait_timer_ticks : 0 .. WaitCap, voluntarily_yielded : BOOLEAN]

CpuRecords ==
  [pc : SchedPCs \cup ProcPCs \cup PanicPCs, proc : Procs \cup {NoProc},
   p : Procs, q : Levels, checked : Procs,
   chosen : Procs \cup {NoProc}, np : Procs \cup {NoProc}]

\* Every field of struct proc, struct cpu and rr_state keeps its range; in
\* particular queue_level always indexes last_queued_proc[] and
\* last_queued_proc[] always indexes proc[] (scheduler()).
TypeOK ==
  /\ proc \in [Procs -> ProcRecords]
  /\ cpu \in [CPUs -> CpuRecords]
  /\ rr_state \in [CPUs -> [Levels -> Procs]]
  /\ wait_lock \in CPUs \cup {NoCpu}

\* No process that can still run is ever below the top queue: the demotion of
\* scheduler() reaches a process only after its last switch, in kexit(),
\* because yield() and sleep() both set voluntarily_yielded.
LiveAtTop == \A p \in Procs : proc[p].context # "zombie" => proc[p].queue_level = 0

\* A process sleeping in kwait() has no zombie child: the wakeups of kexit()
\* and reparent() reach every parent that went to sleep, whatever the order of
\* the two (wait_lock is held from the scan of kwait() into sleep()).
NoLostExit ==
  \A p \in Procs : proc[p].state = "SLEEPING" /\ proc[p].chan = "wait"
                     => ZombieKids(p) = {}

\* A child always has a parent that can still wait for it: reparent() hands
\* over the children of an exiting process before it can be freed.
NoOrphan ==
  \A p \in Procs : proc[p].parent # NoProc =>
     proc[proc[p].parent].state \in {"RUNNABLE", "RUNNING", "SLEEPING"}

\* A process is RUNNING exactly when some CPU runs it.
RunningIffOnCpu ==
  \A p \in Procs : proc[p].state = "RUNNING" <=> \E c \in CPUs : cpu[c].proc = p

\* The process that scheduler() picked, and whose lock it released, is still
\* RUNNABLE when it is locked again to be run.
ChosenStillRunnable ==
  \A c \in CPUs : cpu[c].pc = "dispatch" => proc[cpu[c].chosen].state = "RUNNABLE"

\* No two CPUs run the same process, hence use the same kernel stack.
OneCpuPerProcess == ~StackShared

\* A process that was killed is not asleep in kwait(): kkill() wakes it or
\* kwait() sees the flag before it sleeps.
KilledWaiterAwake ==
  \A p \in Procs : proc[p].killed /\ proc[p].chan = "wait" => proc[p].state # "SLEEPING"

Life == INSTANCE ProcLife WITH
          state   <- [p \in Procs |-> proc[p].state],
          running <- [c \in CPUs |-> cpu[c].proc]

\* The process table implements the life cycle of ProcLife.
LifeCycle == Life!LifeSpec

\* README.md, rule 2 of the MLFQ: a process preempted by the timer after its
\* whole slice moves one level down.
DemotedOnExpiry ==
  [][\A p \in Procs :
       proc[p].state = "RUNNING" /\ proc'[p].state = "RUNNABLE"
       /\ has_to_demote(proc[p]) /\ proc[p].queue_level < NQUEUES - 1
         => proc'[p].queue_level = proc[p].queue_level + 1]_vars

\* A new process is not killed before it runs: the flag in its slot is not
\* left over from a kkill() of the slot while it was free.
NewbornAlive ==
  [][\A p \in Procs : proc[p].state = "UNUSED" /\ proc'[p].state = "USED"
                        => ~proc'[p].killed]_vars

\* A RUNNABLE process is eventually run by scheduler().
NoStarvation ==
  \A p \in Procs :
    proc[p].state = "RUNNABLE" ~> (proc[p].state # "RUNNABLE" \/ Panicked)

-----------------------------------------------------------------------------
(* The inductive invariants behind the theorems of SchedProofs *)

\* What the point a CPU is at says about its locals and the process it runs.
CpuOK(c) ==
  /\ cpu[c].pc \in SchedPCs => cpu[c].proc = NoProc
  /\ cpu[c].pc = "dispatch" => cpu[c].chosen \in Procs
  /\ cpu[c].pc \in ProcPCs =>
       /\ cpu[c].proc \in Procs
       /\ proc[cpu[c].proc].state \in {"RUNNING", "RUNNABLE"}
       /\ proc[cpu[c].proc].queue_level = 0
  /\ cpu[c].pc \in {"fork1", "fork2"} => cpu[c].np \in Procs
  /\ cpu[c].pc = "waitsleep" =>
       wait_lock = c /\ ZombieKids(cpu[c].proc) = {}

\* Inductive on any number of CPUs.
SmpInv == TypeOK /\ (\A c \in CPUs : CpuOK(c)) /\ LiveAtTop /\ NoLostExit

\* With one CPU nothing runs between the choice of a process and its switch.
UpCpuOK(c) ==
  /\ cpu[c].pc = "dispatch" => proc[cpu[c].chosen].state = "RUNNABLE"
  /\ cpu[c].pc \notin SchedPCs =>
       cpu[c].proc \in Procs /\ proc[cpu[c].proc].state = "RUNNING"
  /\ cpu[c].pc \in {"fork1", "fork2"} => proc[cpu[c].np].state = "USED"
  /\ cpu[c].pc \notin {"zombie exit", "kerneltrap"}

RunningHasCpu ==
  \A p \in Procs : proc[p].state = "RUNNING" => \E c \in CPUs : cpu[c].proc = p

CanResume ==
  \A p \in Procs : proc[p].state \in {"USED", "RUNNABLE", "RUNNING", "SLEEPING"}
                     => proc[p].context # "zombie"

Alive(p) == proc[p].state \in {"RUNNABLE", "RUNNING", "SLEEPING"}

UpInv ==
  /\ \A c \in CPUs : UpCpuOK(c)
  /\ RunningHasCpu /\ CanResume /\ Alive(InitProc) /\ NoOrphan

=============================================================================
