----------------------------- MODULE AtomicDisk -----------------------------
(***************************************************************************)
(* What the log promises the file system: the writes of operations go to   *)
(* memory, and reach the disk all at once at a moment when no operation is *)
(* in progress; a crash goes back to what the disk holds.                  *)
(***************************************************************************)
CONSTANTS Procs, Blocks, Values, Zero

VARIABLES disk,    \* what a reboot finds
          mem,     \* what operations read and write
          active   \* processes inside an operation

diskVars == <<disk, mem, active>>

DiskInit ==
  /\ disk = [b \in Blocks |-> Zero]
  /\ mem = disk
  /\ active = {}

Begin(p) == active' = active \cup {p} /\ UNCHANGED <<disk, mem>>

End(p) == p \in active /\ active' = active \ {p} /\ UNCHANGED <<disk, mem>>

Write(p, b, v) ==
  /\ p \in active
  /\ mem' = [mem EXCEPT ![b] = v]
  /\ UNCHANGED <<disk, active>>

Commit == active = {} /\ disk' = mem /\ UNCHANGED <<mem, active>>

Reboot == mem' = disk /\ active' = {} /\ UNCHANGED disk

DiskNext ==
  \/ \E p \in Procs : \/ Begin(p) \/ End(p)
                      \/ \E b \in Blocks, v \in Values : Write(p, b, v)
  \/ Commit
  \/ Reboot

DiskSpec == DiskInit /\ [][DiskNext]_diskVars
=============================================================================
