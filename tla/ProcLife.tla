------------------------------ MODULE ProcLife ------------------------------
(***************************************************************************)
(* What the process table promises the rest of the kernel: the life cycle  *)
(* of a slot and its ownership by a CPU, with no locks, no queues and no   *)
(* intermediate steps.  A CPU takes only a RUNNABLE process, which becomes *)
(* RUNNING; a RUNNING process leaves its state only through the CPU that   *)
(* runs it; ZOMBIE is left only by being freed.                            *)
(***************************************************************************)
CONSTANTS Procs, CPUs, NoProc, InitProc

VARIABLES state,    \* enum procstate of each slot
          running   \* cpu[c].proc: the process CPU c runs

lifeVars == <<state, running>>

LifeInit ==
  /\ state = [p \in Procs |-> IF p = InitProc THEN "RUNNABLE" ELSE "UNUSED"]
  /\ running = [c \in CPUs |-> NoProc]

Set(p, s) == state' = [state EXCEPT ![p] = s]

Run(c, p) ==
  /\ running[c] = NoProc /\ state[p] = "RUNNABLE"
  /\ Set(p, "RUNNING") /\ running' = [running EXCEPT ![c] = p]

\* The process on c gives it up, to run again or to sleep.
Stop(c, p, s) ==
  /\ running[c] = p /\ state[p] = "RUNNING"
  /\ s \in {"RUNNABLE", "SLEEPING"}
  /\ Set(p, s) /\ running' = [running EXCEPT ![c] = NoProc]

\* The process on c exits; some sleepers (its parent, init) are woken.
Exit(c, p) ==
  /\ running[c] = p /\ state[p] = "RUNNING" /\ p # InitProc
  /\ \E W \in SUBSET {w \in Procs : state[w] = "SLEEPING"} :
       state' = [x \in Procs |-> IF x = p THEN "ZOMBIE"
                                 ELSE IF x \in W THEN "RUNNABLE" ELSE state[x]]
  /\ running' = [running EXCEPT ![c] = NoProc]

Wake(p)   == state[p] = "SLEEPING" /\ Set(p, "RUNNABLE") /\ UNCHANGED running
Create(p) == state[p] = "UNUSED"   /\ Set(p, "USED")     /\ UNCHANGED running
Start(p)  == state[p] = "USED"     /\ Set(p, "RUNNABLE") /\ UNCHANGED running
Free(p)   == state[p] = "ZOMBIE"   /\ Set(p, "UNUSED")   /\ UNCHANGED running

LifeNext ==
  \E p \in Procs :
    \/ Wake(p) \/ Create(p) \/ Start(p) \/ Free(p)
    \/ \E c \in CPUs : \/ Run(c, p) \/ Exit(c, p)
                       \/ \E s \in {"RUNNABLE", "SLEEPING"} : Stop(c, p, s)

LifeSpec == LifeInit /\ [][LifeNext]_lifeVars
=============================================================================
