------------------------------ MODULE FileTable ------------------------------
(***************************************************************************)
(* The system-wide table of open files and the descriptor tables of the    *)
(* processes: file.c's filealloc, filedup and fileclose, sysfile.c's open  *)
(* (from the point where it has an inode), dup, close and pipe, pipealloc  *)
(* and pipeclose of pipe.c, and the loops over the descriptors in kfork    *)
(* and kexit.                                                              *)
(*                                                                         *)
(* One action is one hold of ftable.lock or of a pipe's lock, together     *)
(* with what the process does to its own descriptors up to the next one:   *)
(* only the process itself reads or writes its descriptor table.           *)
(***************************************************************************)
EXTENDS Naturals, Sequences, FiniteSetsExt

CONSTANTS
    Procs,      \* slots of the process table
    First,      \* the process that is there at the start
    NFILE,      \* entries of the file table
    NOFILE,     \* descriptors of a process
    PipePages   \* pages that kalloc may hand out for a pipe

VARIABLES
    file,       \* the file table: [ref, type, pipe, writable] of every entry
    ofile,      \* p->ofile, 0 for a free descriptor
    pipe,       \* the pipe in every page: [used, readopen, writeopen]
    iref,       \* references to the one inode that open() opens
    at,         \* where a process is in its system call
    badfile     \* filedup() or fileclose() panicked

ftvars == <<file, ofile, pipe, iref, at, badfile>>

Files == 1..NFILE
Fds == 0..NOFILE - 1

(* A process in user space; one that is not there. `own' holds the file    *)
(* pointers that are in local variables of the call only, `fds' the        *)
(* descriptors it has handed out, `ff' fileclose()'s copy of the entry.    *)
NoFile == [ref |-> 0, type |-> "none", pipe |-> 0, writable |-> FALSE]
Returned == [pc |-> "user", own |-> <<>>, fds |-> <<>>, ff |-> NoFile, np |-> First]
Absent == [Returned EXCEPT !.pc = "absent"]

FTInit ==
    /\ file = [f \in Files |-> NoFile]
    /\ ofile = [p \in Procs |-> [fd \in Fds |-> 0]]
    /\ pipe = [k \in PipePages |-> [used |-> FALSE, readopen |-> FALSE, writeopen |-> FALSE]]
    /\ iref = 0
    /\ at = [p \in Procs |-> IF p = First THEN Returned ELSE Absent]
    /\ badfile = FALSE

(* The entries filealloc() can return (it takes the first), and fdalloc's. *)
FreeFiles == {f \in Files : file[f].ref = 0}
FreeFds(p) == {fd \in Fds : ofile[p][fd] = 0}

Allocated(f) == [file EXCEPT ![f].ref = 1]

(***************************************************************************)
(* sys_open, once namei() or create() has returned an inode: the file      *)
(* entry, then the descriptor, then the fields. If either is missing the   *)
(* entry is closed and the reference to the inode put; an open that gets   *)
(* no entry changes nothing.                                               *)
(***************************************************************************)
OpenFile(p) ==
    /\ at[p].pc = "user"
    /\ FreeFiles # {}
    /\ file' = Allocated(Min(FreeFiles))
    /\ iref' = iref + 1
    /\ at' = [at EXCEPT ![p].pc = "open", ![p].own = <<Min(FreeFiles)>>]
    /\ UNCHANGED <<ofile, pipe, badfile>>

OpenFd(p) ==
    /\ at[p].pc = "open"
    /\ LET f == at[p].own[1]
       IN  \/ /\ FreeFds(p) # {}
              /\ file' = [file EXCEPT ![f].type = "inode"]
              /\ ofile' = [ofile EXCEPT ![p][Min(FreeFds(p))] = f]
              /\ at' = [at EXCEPT ![p] = Returned]
              /\ UNCHANGED iref
           \/ /\ FreeFds(p) = {}
              /\ file' = [file EXCEPT ![f].ref = @ - 1]
              /\ iref' = iref - 1
              /\ at' = [at EXCEPT ![p] = Returned]
              /\ UNCHANGED ofile
    /\ UNCHANGED <<pipe, badfile>>

(***************************************************************************)
(* sys_pipe and pipealloc: two entries, a page, two descriptors, and the   *)
(* copy of the descriptors to user memory; each of them can fail, and then *)
(* everything obtained so far is given back.                               *)
(***************************************************************************)
PipeFile(p) ==
    /\ \/ at[p].pc = "user"
       \/ at[p].pc = "pipe" /\ Len(at[p].own) = 1
    /\ \/ /\ FreeFiles # {}
          /\ file' = Allocated(Min(FreeFiles))
          /\ at' = [at EXCEPT ![p].pc = "pipe", ![p].own = Append(@, Min(FreeFiles))]
       \/ /\ FreeFiles = {}
          /\ at' = [at EXCEPT ![p].pc = IF at[p].own = <<>> THEN "user" ELSE "close"]
          /\ UNCHANGED file
    /\ UNCHANGED <<ofile, pipe, iref, badfile>>

PipeEnd(f, k, end) == [f EXCEPT !.type = "pipe", !.pipe = k, !.writable = (end = 2)]

(* The rest of pipealloc(): kalloc() returns a free page, and which one    *)
(* makes no difference, or none.                                           *)
PipePage(p) ==
    /\ at[p].pc = "pipe"
    /\ Len(at[p].own) = 2
    /\ \/ LET free == {k \in PipePages : ~pipe[k].used}
              k    == Min(free)
          IN  /\ free # {}
              /\ pipe' = [pipe EXCEPT ![k] =
                            [used |-> TRUE, readopen |-> TRUE, writeopen |-> TRUE]]
              /\ file' = [f \in Files |->
                            IF \E i \in 1..2 : at[p].own[i] = f
                            THEN PipeEnd(file[f], k, IF at[p].own[1] = f THEN 1 ELSE 2)
                            ELSE file[f]]
              /\ at' = [at EXCEPT ![p].pc = "pipefd"]
       \/ /\ at' = [at EXCEPT ![p].pc = "close"]
          /\ UNCHANGED <<file, pipe>>
    /\ UNCHANGED <<ofile, iref, badfile>>

(* The two fdalloc() calls; a descriptor taken by the first is given back. *)
PipeFds(p) ==
    /\ at[p].pc = "pipefd"
    /\ \/ /\ Cardinality(FreeFds(p)) >= 2
          /\ LET fd0 == Min(FreeFds(p))
                 fd1 == Min(FreeFds(p) \ {fd0})
             IN  /\ ofile' = [ofile EXCEPT ![p][fd0] = at[p].own[1],
                                           ![p][fd1] = at[p].own[2]]
                 /\ at' = [at EXCEPT ![p].pc = "copyout", ![p].own = <<>>,
                                     ![p].fds = <<fd0, fd1>>]
       \/ /\ Cardinality(FreeFds(p)) < 2
          /\ at' = [at EXCEPT ![p].pc = "close"]
          /\ UNCHANGED ofile
    /\ UNCHANGED <<file, pipe, iref, badfile>>

PipeCopyout(p) ==
    /\ at[p].pc = "copyout"
    /\ \/ at' = [at EXCEPT ![p] = Returned] /\ UNCHANGED ofile
       \/ LET fds == at[p].fds
          IN  /\ ofile' = [ofile EXCEPT ![p][fds[1]] = 0, ![p][fds[2]] = 0]
              /\ at' = [at EXCEPT ![p] = [Returned EXCEPT !.pc = "close",
                            !.own = <<ofile[p][fds[1]], ofile[p][fds[2]]>>]]
    /\ UNCHANGED <<file, pipe, iref, badfile>>

(***************************************************************************)
(* fileclose of the first pointer in `own': drop the reference under       *)
(* ftable.lock; at the last one copy the entry and free it, and close what *)
(* it stood for after the lock is released. The fields of a free entry     *)
(* other than its type are not read before they are written again, and are *)
(* blank here.                                                             *)
(***************************************************************************)
Resume(s) ==
    IF s.own # <<>> THEN s
    ELSE IF s.fds = <<>> THEN Returned
    ELSE [s EXCEPT !.pc = "exit", !.fds = <<>>]

(* Mutant: the type of the freed entry is left as it was. *)
DroppedStale(e) == [e EXCEPT !.ref = IF @ < 1 THEN @ ELSE @ - 1]

Dropped(e) ==
    IF e.ref = 1 THEN NoFile ELSE [e EXCEPT !.ref = IF @ < 1 THEN @ ELSE @ - 1]

FileClose(p) ==
    /\ at[p].pc = "close"
    /\ LET f    == Head(at[p].own)
           left == [at[p] EXCEPT !.own = Tail(@)]
           last == file[f].ref = 1
       IN  /\ badfile' = (badfile \/ file[f].ref < 1)
           /\ file' = [file EXCEPT ![f] = Dropped(@)]
           /\ at' = [at EXCEPT ![p] =
                       IF last /\ file[f].type # "none"
                       THEN [left EXCEPT !.pc = "closeobj", !.ff = file[f]]
                       ELSE Resume(left)]
    /\ ofile' = IF at[p].fds = <<>> THEN ofile ELSE [ofile EXCEPT ![p][at[p].fds[1]] = 0]
    /\ UNCHANGED <<pipe, iref>>

pipeclose(k, writable) ==
    LET q == IF writable THEN [pipe[k] EXCEPT !.writeopen = FALSE]
                         ELSE [pipe[k] EXCEPT !.readopen = FALSE]
    IN  [pipe EXCEPT ![k] = [q EXCEPT !.used = q.readopen \/ q.writeopen]]

CloseObject(p) ==
    /\ at[p].pc = "closeobj"
    /\ LET ff == at[p].ff
       IN  \/ /\ ff.type = "pipe"
              /\ pipe' = pipeclose(ff.pipe, ff.writable)
              /\ UNCHANGED iref
           \/ /\ ff.type = "inode"
              /\ iref' = iref - 1
              /\ UNCHANGED pipe
    /\ at' = [at EXCEPT ![p] = Resume([@ EXCEPT !.pc = "close", !.ff = NoFile])]
    /\ UNCHANGED <<file, ofile, badfile>>

(* argfd: the argument is a descriptor that is open. *)
argfd(p, fd) == fd \in Fds /\ ofile[p][fd] # 0

sys_close(p, fd) ==
    /\ at[p].pc = "user"
    /\ argfd(p, fd)
    /\ ofile' = [ofile EXCEPT ![p][fd] = 0]
    /\ at' = [at EXCEPT ![p].pc = "close", ![p].own = <<ofile[p][fd]>>]
    /\ UNCHANGED <<file, pipe, iref, badfile>>

filedup(f) ==
    /\ file' = [file EXCEPT ![f].ref = @ + 1]
    /\ badfile' = (badfile \/ file[f].ref < 1)

sys_dup(p, fd) ==
    /\ at[p].pc = "user"
    /\ argfd(p, fd)
    /\ FreeFds(p) # {}
    /\ ofile' = [ofile EXCEPT ![p][Min(FreeFds(p))] = ofile[p][fd]]
    /\ filedup(ofile[p][fd])
    /\ UNCHANGED <<pipe, iref, at>>

(***************************************************************************)
(* kfork and kexit, descriptor by descriptor. The child runs only when the *)
(* loop is done; kexit() clears each descriptor after its fileclose().     *)
(***************************************************************************)
ForkStart(p, np) ==
    /\ at[p].pc = "user"
    /\ at[np].pc = "absent"
    /\ at' = [at EXCEPT ![p].pc = "fork", ![p].np = np, ![np].pc = "newborn"]
    /\ UNCHANGED <<file, ofile, pipe, iref, badfile>>

ForkDup(p) ==
    /\ at[p].pc = "fork"
    /\ LET np   == at[p].np
           todo == {fd \in Fds : ofile[p][fd] # ofile[np][fd]}
       IN  \/ /\ todo # {}
              /\ ofile' = [ofile EXCEPT ![np][Min(todo)] = ofile[p][Min(todo)]]
              /\ filedup(ofile[p][Min(todo)])
              /\ UNCHANGED at
           \/ /\ todo = {}
              /\ at' = [at EXCEPT ![p] = Returned, ![np] = Returned]
              /\ UNCHANGED <<file, ofile, badfile>>
    /\ UNCHANGED <<pipe, iref>>

kexit(p) ==
    /\ at[p].pc = "exit" \/ (at[p].pc = "user" /\ p # First)
    /\ LET open == Fds \ FreeFds(p)
       IN  at' = [at EXCEPT ![p] =
                   IF open = {} THEN Absent
                   ELSE [Returned EXCEPT !.pc = "close", !.own = <<ofile[p][Min(open)]>>,
                                         !.fds = <<Min(open)>>]]
    /\ UNCHANGED <<file, ofile, pipe, iref, badfile>>

FTNext ==
    \E p \in Procs :
        \/ OpenFile(p) \/ OpenFd(p)
        \/ PipeFile(p) \/ PipePage(p) \/ PipeFds(p) \/ PipeCopyout(p)
        \/ FileClose(p) \/ CloseObject(p) \/ kexit(p) \/ ForkDup(p)
        \/ \E fd \in Fds : sys_close(p, fd) \/ sys_dup(p, fd)
        \/ \E np \in Procs : ForkStart(p, np)

(***************************************************************************)
(* The properties.                                                         *)
(***************************************************************************)
(* The number of places that hold a pointer to entry f: descriptors of     *)
(* processes, and local variables of system calls in progress.             *)
Pointers(f) ==
    Cardinality({<<p, fd>> \in Procs \X Fds :
                    ofile[p][fd] = f /\ ~(at[p].pc = "close" /\ at[p].fds = <<fd>>)})
    + Cardinality({<<p, i>> \in Procs \X (1..2) :
                    i <= Len(at[p].own) /\ at[p].own[i] = f})

(* The reference count of every entry of the file table is the number of   *)
(* pointers to it, whatever calls are under way and whichever of their     *)
(* steps has failed: an entry is neither reused while somebody can still   *)
(* reach it nor lost when nobody can.                                      *)
RefsCounted == \A f \in Files : file[f].ref = Pointers(f)

(* Who holds one end of the pipe in page k: entries in use, and calls of   *)
(* fileclose that have copied the entry and not yet called pipeclose.      *)
Holders(k, w) ==
    {f \in Files : file[f].ref > 0 /\ file[f].type = "pipe"
                   /\ file[f].pipe = k /\ file[f].writable = w}
Closers(k, w) ==
    {p \in Procs : at[p].ff.type = "pipe" /\ at[p].ff.pipe = k /\ at[p].ff.writable = w}

(* An end of a pipe is open exactly while one entry, or one close that is  *)
(* under way, stands for it, and the page is in use exactly while one of   *)
(* its ends is open: pipeclose runs once for an end and never on a page    *)
(* that has been freed and may belong to another pipe by then.             *)
PipeEndsOwned ==
    \A k \in PipePages :
        /\ pipe[k].used = (pipe[k].readopen \/ pipe[k].writeopen)
        /\ \A w \in BOOLEAN :
             Cardinality(Holders(k, w)) + Cardinality(Closers(k, w))
               = (IF (IF w THEN pipe[k].writeopen ELSE pipe[k].readopen) THEN 1 ELSE 0)

(* The references to the inode are those of the entries, of the opens that *)
(* have not filled theirs in yet, and of the closes that have still to put *)
(* theirs; filedup and fileclose never meet an entry without references.   *)
InodeRefsOwned ==
    /\ ~badfile
    /\ iref = Cardinality({f \in Files : file[f].ref > 0 /\ file[f].type = "inode"})
              + Cardinality({p \in Procs : at[p].pc = "open" \/ at[p].ff.type = "inode"})

(* What the open files own is counted and given back once.                 *)
OpenFilesCounted == RefsCounted /\ PipeEndsOwned /\ InodeRefsOwned

=============================================================================
