------------------------------ MODULE FileSys -------------------------------
(***************************************************************************)
(* The inode table, directories and path names: kernel/fs.c (iget, idup,   *)
(* ilock, iput, ialloc, ireclaim, dirlookup, dirlink, namex) and the calls *)
(* of kernel/sysfile.c on names (open, mkdir, mknod, link, unlink, chdir,  *)
(* close).                                                                 *)
(*                                                                         *)
(* A call is a sequence of critical sections, each under the sleep lock of *)
(* an inode or under itable.lock; one section is one step, and the calls   *)
(* of all processes interleave between them.  iput, which can end any      *)
(* lookup by freeing an inode, is a subroutine of four steps.  A directory *)
(* is a function from names to inode numbers; what files contain is the    *)
(* matter of FileData.  A commit makes the inodes and directories durable  *)
(* when the last call inside a transaction ends (end_op, module Log), and  *)
(* a crash may come at any step.                                           *)
(***************************************************************************)
EXTENDS Integers, FiniteSets, Sequences

CONSTANTS Procs, First,   \* First runs ireclaim when the system starts
          Names,
          NInodes,        \* inode numbers are 1 .. NInodes, the root is 1
          Calls,          \* Calls[p]: the calls p makes: [op, path, new]
          FullDisk,       \* whether writing a directory entry may fail
          MaxOps,         \* the calls that fit into one transaction
          MaxLinks,       \* bound: no link() while a file has so many links
          None

VARIABLES dinode,  \* dinode[i]: [type, nlink] as the log has them
          dir,     \* dir[i]: the entries of directory i, 0 for none
          itab,    \* itab[i]: the inode table: [ref, valid, lock, type, nlink]
          cwd,     \* cwd[p]
          ofile,   \* ofile[p]: the inode of p's one open file, or 0
          at,      \* at[p]: where p is: [pc, call, rest, dp, ip, put, ret]
          durable, \* the dinode and dir of the last commit
          ops,     \* the number of calls begun since the last commit
          reused,  \* history: the inodes allocated again while the iput that
                   \* freed them was not done
          panic
vars == <<dinode, dir, itab, cwd, ofile, at, durable, ops, reused, panic>>

ROOTINO == 1
Inums == 1 .. NInodes
Empty == [n \in Names \cup {".."} |-> 0]
Free == [type |-> "free", nlink |-> 0]
NoEntry == [ref |-> 0, valid |-> FALSE, lock |-> None, type |-> "free", nlink |-> 0]
NoCall == [op |-> "none", path |-> <<>>, new |-> <<>>]
Rest(pc) == [pc |-> pc, call |-> NoCall, rest |-> <<>>,
             dp |-> 0, ip |-> 0, put |-> 0, ret |-> "none"]

\* mkfs makes a root directory; the first process reclaims, then all run.
Init == /\ dinode = [i \in Inums |-> IF i = ROOTINO
                                     THEN [type |-> "dir", nlink |-> 1] ELSE Free]
        /\ dir = [i \in Inums |-> IF i = ROOTINO
                                  THEN [Empty EXCEPT ![".."] = ROOTINO] ELSE Empty]
        /\ itab = [i \in Inums |-> NoEntry]
        /\ cwd = [p \in Procs |-> 0]
        /\ ofile = [p \in Procs |-> 0]
        /\ at = [p \in Procs |-> Rest(IF p = First THEN "boot" ELSE "off")]
        /\ durable = <<dinode, dir>>
        /\ ops = 0
        /\ reused = {}
        /\ panic = FALSE

(***************************************************************************)
(* The inode table.                                                        *)
(***************************************************************************)

\* iget and idup: one more reference; a new entry is not valid yet.
iget(t, i) == [t EXCEPT ![i].ref = @ + 1]

\* ilock: once the lock is free, read the inode if the entry is not valid.
Unlocked(i) == itab[i].lock = None
Loaded(i) == IF itab[i].valid THEN itab[i]
             ELSE [itab[i] EXCEPT !.valid = TRUE, !.type = dinode[i].type,
                                  !.nlink = dinode[i].nlink]
NoType(i) == Loaded(i).type = "free"

ilock(p, i) == [itab EXCEPT ![i] = [Loaded(i) EXCEPT !.lock = p]]
ilockiunlock(i) == [itab EXCEPT ![i] = Loaded(i)]
iunlock(t, i) == [t EXCEPT ![i].lock = None]

\* iupdate: dinode follows the in-memory copy of i.
iupdate(t, i) == [dinode EXCEPT ![i] = [type |-> t[i].type, nlink |-> t[i].nlink]]

IsDir(i) == Loaded(i).type = "dir"

(***************************************************************************)
(* Control.  Go sets p's place; end_op commits when no other call is       *)
(* inside a transaction.                                                   *)
(***************************************************************************)

Go(p, l) == at' = [at EXCEPT ![p] = l] /\ UNCHANGED <<durable, ops>>

\* begin_op: wait until the log has room; then go to l.
begin_op(p, l) == /\ ops < MaxOps
                  /\ ops' = ops + 1
                  /\ at' = [at EXCEPT ![p] = l]
                  /\ UNCHANGED durable

InOp(q) == at[q].pc \notin {"user", "off", "boot"}

end_op(p, pc) ==
  /\ at' = [at EXCEPT ![p] = Rest(pc)]
  /\ IF \A q \in Procs \ {p} : ~InOp(q)
     THEN durable' = <<dinode', dir'>> /\ ops' = 0
     ELSE UNCHANGED <<durable, ops>>

\* p's place in a call of iput(i) that returns to ret.
Iput(l, i, ret) == [l EXCEPT !.pc = "iput", !.put = i, !.ret = ret]

\* Return from iput to where it was called; link() puts ip after dp.
Return(p) ==
  CASE at[p].ret = "end" -> end_op(p, "user")
    [] at[p].ret = "boot" -> end_op(p, "boot")
    [] at[p].ret = "linked" -> Go(p, Iput([at[p] EXCEPT !.ip = 0], at[p].ip, "end"))
    [] OTHER -> Go(p, [at[p] EXCEPT !.pc = at[p].ret, !.put = 0, !.ret = "none"])

Put(p, i) ==
  itab' = [itab EXCEPT ![i] = IF @.ref = 1 THEN NoEntry ELSE [@ EXCEPT !.ref = @ - 1]]

LastUnlinked(i) == itab[i].ref = 1 /\ itab[i].valid /\ itab[i].nlink = 0

\* iput: drop a reference, or lock the inode to free it.
iput(p) ==
  LET i == at[p].put IN
  /\ at[p].pc = "iput"
  /\ UNCHANGED <<dinode, dir, cwd, ofile, reused, panic>>
  /\ IF LastUnlinked(i)
     THEN /\ Unlocked(i)
          /\ itab' = [itab EXCEPT ![i].lock = p]
          /\ Go(p, [at[p] EXCEPT !.pc = "ifree"])
     ELSE Put(p, i) /\ Return(p)

\* itrunc, type = 0, iupdate.
IputFree(p) ==
  LET i == at[p].put IN
  /\ at[p].pc = "ifree"
  /\ itab' = [itab EXCEPT ![i].type = "free"]
  /\ dinode' = [dinode EXCEPT ![i] = Free]
  /\ dir' = [dir EXCEPT ![i] = Empty]
  /\ reused' = reused \ {i}
  /\ Go(p, [at[p] EXCEPT !.pc = "inval"])
  /\ UNCHANGED <<cwd, ofile, panic>>

\* Mutant: the entry stays valid.
IputInvalKeeps(p) ==
  /\ at[p].pc = "inval"
  /\ itab' = [itab EXCEPT ![at[p].put].lock = None]
  /\ Go(p, [at[p] EXCEPT !.pc = "idrop"])
  /\ UNCHANGED <<dinode, dir, cwd, ofile, reused, panic>>

IputInval(p) ==
  /\ at[p].pc = "inval"
  /\ itab' = [itab EXCEPT ![at[p].put].valid = FALSE, ![at[p].put].lock = None]
  /\ Go(p, [at[p] EXCEPT !.pc = "idrop"])
  /\ UNCHANGED <<dinode, dir, cwd, ofile, reused, panic>>

IputDrop(p) ==
  /\ at[p].pc = "idrop"
  /\ UNCHANGED <<dinode, dir, cwd, ofile, reused, panic>>
  /\ Put(p, at[p].put)
  /\ Return(p)

(***************************************************************************)
(* namex.  dp is the inode it has reached, rest the elements still to go.  *)
(***************************************************************************)

\* The call wants the parent of the last element, not what it names.
Parent(l) == l.call.op \in {"create", "mkdir", "mknod", "unlink"} \/ l.ip # 0

\* A walk starts at the root, or at the current directory.
Absolute(path) == path # <<>> /\ Head(path) = "/"
From(p, path) == IF Absolute(path) THEN ROOTINO ELSE cwd[p]
Walk(p, l, path) == [l EXCEPT !.pc = "namex", !.dp = From(p, path),
                              !.rest = IF Absolute(path) THEN Tail(path) ELSE path]

\* A walk that fails: link has to undo its nlink++ first.
Failed(l) == IF l.call.op = "link" /\ l.ip # 0 THEN "bad" ELSE "end"

Begin(p) ==
  /\ at[p].pc = "user"
  /\ \E c \in Calls[p] :
       /\ c.op = "link" =>
            \A i \in Inums : dinode[i].type = "dir" \/ dinode[i].nlink < MaxLinks
       /\ itab' = iget(itab, From(p, c.path))
       /\ begin_op(p, Walk(p, [Rest("user") EXCEPT !.call = c], c.path))
  /\ UNCHANGED <<dinode, dir, cwd, ofile, reused, panic>>

\* One element: lock, check, look up, unlock; the old inode is put next.
namex(p) ==
  LET l == at[p]
      d == l.dp
      next == dir[d][Head(l.rest)]
      fail == Iput([l EXCEPT !.dp = 0], d, Failed(l))
  IN
  /\ l.pc = "namex"
  /\ l.rest # <<>>
  /\ Unlocked(d)
  /\ panic' = NoType(d)
  /\ IF ~IsDir(d) \/ (next = 0 /\ ~(Parent(l) /\ Len(l.rest) = 1))
     THEN itab' = ilockiunlock(d) /\ Go(p, fail)
     ELSE IF Parent(l) /\ Len(l.rest) = 1
          THEN itab' = ilockiunlock(d) /\ Go(p, [l EXCEPT !.pc = "found"])
          ELSE /\ itab' = iget(ilockiunlock(d), next)
               /\ Go(p, IF Len(l.rest) > 1
                        THEN Iput([l EXCEPT !.dp = next, !.rest = Tail(@)], d, "namex")
                        ELSE Iput([l EXCEPT !.dp = 0, !.ip = next, !.rest = <<>>],
                                  d, "found"))
  /\ UNCHANGED <<dinode, dir, cwd, ofile, reused>>

\* The path has no element: namei has its inode, nameiparent fails.
NamexEnd(p) ==
  LET l == at[p] IN
  /\ l.pc = "namex"
  /\ l.rest = <<>>
  /\ IF Parent(l) THEN Go(p, Iput([l EXCEPT !.dp = 0], l.dp, Failed(l)))
     ELSE Go(p, [l EXCEPT !.pc = "found", !.dp = 0, !.ip = l.dp])
  /\ UNCHANGED <<dinode, dir, itab, cwd, ofile, reused, panic>>

(***************************************************************************)
(* sys_open, sys_mkdir, sys_mknod: create.  dp is the parent.              *)
(***************************************************************************)

At(p, op) == at[p].pc = "found" /\ at[p].call.op = op
NewType(l) == CASE l.call.op = "mkdir" -> "dir"
                [] l.call.op = "mknod" -> "device"
                [] OTHER -> "file"
Name(l) == Head(l.rest)

FreeInums == {i \in Inums : dinode[i].type = "free"}
Lowest(S) == CHOOSE i \in S : \A j \in S : i <= j

\* ilock(dp), dirlookup.  Found: iunlockput(dp).  Not found: ialloc, with dp
\* locked, or iunlockput(dp) when there is no inode.
create(p) ==
  LET l == at[p]
      i == dir[l.dp][Name(l)]
      new == Lowest(FreeInums)
  IN
  /\ At(p, "create") \/ At(p, "mkdir") \/ At(p, "mknod")
  /\ Unlocked(l.dp)
  /\ panic' = (NoType(l.dp) \/ ~IsDir(l.dp))
  /\ IF i # 0
     THEN /\ itab' = iget(ilockiunlock(l.dp), i)
          /\ Go(p, Iput([l EXCEPT !.dp = 0, !.ip = i], l.dp, "exists"))
          /\ UNCHANGED <<dinode, reused>>
     ELSE IF FreeInums = {}
     THEN /\ itab' = ilockiunlock(l.dp)
          /\ Go(p, Iput([l EXCEPT !.dp = 0], l.dp, "end"))
          /\ UNCHANGED <<dinode, reused>>
     ELSE /\ dinode' = [dinode EXCEPT ![new] = [type |-> NewType(l), nlink |-> 0]]
          /\ itab' = iget(ilock(p, l.dp), new)
          /\ reused' = IF itab[new].ref > 0 THEN reused \cup {new} ELSE reused
          /\ Go(p, [l EXCEPT !.pc = "init", !.ip = new])
  /\ UNCHANGED <<dir, cwd, ofile>>

\* The file is there: ilock(ip); a file is opened, anything else fails.
CreateExists(p) ==
  LET l == at[p]
      ok == l.call.op = "create" /\ Loaded(l.ip).type \in {"file", "device"}
  IN
  /\ l.pc = "exists"
  /\ Unlocked(l.ip)
  /\ panic' = NoType(l.ip)
  /\ IF ok THEN itab' = ilock(p, l.ip) /\ Go(p, [l EXCEPT !.pc = "opened"])
     ELSE itab' = ilockiunlock(l.ip) /\ Go(p, Iput([l EXCEPT !.ip = 0], l.ip, "end"))
  /\ UNCHANGED <<dinode, dir, cwd, ofile, reused>>

\* ilock(ip), nlink = 1, ".." and the entry in dp; a new directory adds a
\* link to dp.  dp is unlocked and put, ip stays locked.
CreateLink(p) ==
  LET l == at[p]
      isdir == l.call.op = "mkdir"
      t == [ilock(p, l.ip) EXCEPT ![l.ip].nlink = 1,
                                  ![l.dp].nlink = IF isdir THEN @ + 1 ELSE @]
  IN
  /\ l.pc = "init"
  /\ Unlocked(l.ip)
  /\ panic' = NoType(l.ip)
  /\ dinode' = [iupdate(t, l.ip) EXCEPT ![l.dp].nlink = t[l.dp].nlink]
  /\ dir' = [dir EXCEPT ![l.dp][Name(l)] = l.ip,
                        ![l.ip][".."] = IF isdir THEN l.dp ELSE @]
  /\ itab' = iunlock(t, l.dp)
  /\ Go(p, Iput([l EXCEPT !.dp = 0], l.dp, "opened"))
  /\ UNCHANGED <<cwd, ofile, reused>>

\* A dirlink fails: nlink = 0, iunlockput(ip), and then iunlockput(dp).
CreateFail(p) ==
  LET l == at[p]
      t == [ilock(p, l.ip) EXCEPT ![l.ip].nlink = 0]
  IN
  /\ l.pc = "init"
  /\ FullDisk
  /\ Unlocked(l.ip)
  /\ panic' = NoType(l.ip)
  /\ dinode' = iupdate(t, l.ip)
  /\ itab' = iunlock(t, l.ip)
  /\ Go(p, Iput([l EXCEPT !.ip = 0], l.ip, "iunlockputdp"))
  /\ UNCHANGED <<dir, cwd, ofile, reused>>

\* Mutant: unlocks dp and forgets to put it.
iunlockdp(p) ==
  /\ at[p].pc = "iunlockputdp"
  /\ itab' = iunlock(itab, at[p].dp)
  /\ UNCHANGED <<dinode, dir, cwd, ofile, reused, panic>>
  /\ end_op(p, "user")

iunlockputdp(p) ==
  LET l == at[p] IN
  /\ l.pc = "iunlockputdp"
  /\ itab' = iunlock(itab, l.dp)
  /\ Go(p, Iput([l EXCEPT !.dp = 0], l.dp, "end"))
  /\ UNCHANGED <<dinode, dir, cwd, ofile, reused, panic>>

\* ip is locked: open gives it to a descriptor, or finds none and puts it;
\* mkdir and mknod put it.
Opened(p) ==
  LET l == at[p] IN
  /\ l.pc = "opened"
  /\ itab' = iunlock(itab, l.ip)
  /\ UNCHANGED <<dinode, dir, cwd, reused, panic>>
  /\ IF l.call.op = "create" /\ ofile[p] = 0
     THEN ofile' = [ofile EXCEPT ![p] = l.ip] /\ end_op(p, "user")
     ELSE Go(p, Iput([l EXCEPT !.ip = 0], l.ip, "end")) /\ UNCHANGED ofile

\* open without O_CREATE, read-only: ilock(ip), then as above.
OpenExisting(p) ==
  /\ At(p, "open")
  /\ Unlocked(at[p].ip)
  /\ panic' = NoType(at[p].ip)
  /\ itab' = ilockiunlock(at[p].ip)
  /\ UNCHANGED <<dinode, dir, cwd, reused>>
  /\ IF ofile[p] = 0
     THEN ofile' = [ofile EXCEPT ![p] = at[p].ip] /\ end_op(p, "user")
     ELSE Go(p, Iput([at[p] EXCEPT !.ip = 0], at[p].ip, "end")) /\ UNCHANGED ofile

\* close, and fileclose of the last reference: begin_op, iput.
sys_close(p) ==
  /\ at[p].pc = "user"
  /\ ofile[p] # 0
  /\ ofile' = [ofile EXCEPT ![p] = 0]
  /\ begin_op(p, Iput(Rest("user"), ofile[p], "end"))
  /\ UNCHANGED <<dinode, dir, itab, cwd, reused, panic>>

(***************************************************************************)
(* sys_unlink, sys_link, sys_chdir                                         *)
(***************************************************************************)

\* ilock(dp), dirlookup; dp stays locked.
sys_unlink(p) ==
  LET l == at[p]
      i == dir[l.dp][Name(l)]
  IN
  /\ At(p, "unlink")
  /\ Unlocked(l.dp)
  /\ panic' = (NoType(l.dp) \/ ~IsDir(l.dp))
  /\ IF Name(l) = ".." \/ i = 0
     THEN itab' = ilockiunlock(l.dp) /\ Go(p, Iput([l EXCEPT !.dp = 0], l.dp, "end"))
     ELSE itab' = iget(ilock(p, l.dp), i) /\ Go(p, [l EXCEPT !.pc = "unlink", !.ip = i])
  /\ UNCHANGED <<dinode, dir, cwd, ofile, reused>>

isdirempty(i) == \A n \in Names : dir[i][n] = 0

\* Mutant: the entry is not cleared.
UnlinkEntryKeeps(p) ==
  LET l == at[p]
      u == [ilock(p, l.ip) EXCEPT ![l.dp].nlink = IF IsDir(l.ip) THEN @ - 1 ELSE @]
  IN
  /\ l.pc = "unlink"
  /\ Unlocked(l.ip)
  /\ dinode' = iupdate(u, l.dp)
  /\ itab' = iunlock(u, l.dp)
  /\ Go(p, Iput([l EXCEPT !.dp = 0], l.dp, "unlinked"))
  /\ UNCHANGED <<dir, cwd, ofile, reused, panic>>

\* ilock(ip); a directory that is not empty stays.  Otherwise the entry is
\* cleared and dp unlocked and put, with ip locked.
UnlinkEntry(p) ==
  LET l == at[p]
      t == ilock(p, l.ip)
      u == [t EXCEPT ![l.dp].nlink = IF IsDir(l.ip) THEN @ - 1 ELSE @]
  IN
  /\ l.pc = "unlink"
  /\ Unlocked(l.ip)
  /\ panic' = (NoType(l.ip) \/ Loaded(l.ip).nlink < 1)
  /\ IF IsDir(l.ip) /\ ~isdirempty(l.ip)
     THEN /\ itab' = iunlock(t, l.ip)
          /\ Go(p, Iput([l EXCEPT !.ip = 0], l.ip, "iunlockputdp"))
          /\ UNCHANGED <<dinode, dir>>
     ELSE /\ dir' = [dir EXCEPT ![l.dp][Name(l)] = 0]
          /\ dinode' = iupdate(u, l.dp)
          /\ itab' = iunlock(u, l.dp)
          /\ Go(p, Iput([l EXCEPT !.dp = 0], l.dp, "unlinked"))
  /\ UNCHANGED <<cwd, ofile, reused>>

\* nlink--, iupdate, iunlockput(ip); also the failure path of link, which
\* locks ip again.
DropLink(p) ==
  LET l == at[p]
      t == [ilock(p, l.ip) EXCEPT ![l.ip].nlink = @ - 1]
  IN
  /\ l.pc = "unlinked" \/ (l.pc = "bad" /\ Unlocked(l.ip))
  /\ panic' = NoType(l.ip)
  /\ dinode' = iupdate(t, l.ip)
  /\ itab' = iunlock(t, l.ip)
  /\ Go(p, Iput([l EXCEPT !.ip = 0], l.ip, "end"))
  /\ UNCHANGED <<dir, cwd, ofile, reused>>

\* Mutant: ip stays locked while the new name is looked up.
sys_linkLocked(p) ==
  LET l == at[p]
      t == [ilock(p, l.ip) EXCEPT ![l.ip].nlink = @ + 1]
  IN
  /\ At(p, "link") /\ l.dp = 0
  /\ Unlocked(l.ip)
  /\ ~IsDir(l.ip)
  /\ dinode' = iupdate(t, l.ip)
  /\ itab' = iget(t, From(p, l.call.new))
  /\ Go(p, Walk(p, l, l.call.new))
  /\ UNCHANGED <<dir, cwd, ofile, reused, panic>>

\* ilock(ip), nlink++, iupdate, iunlock, then nameiparent(new).
sys_link(p) ==
  LET l == at[p]
      t == [ilockiunlock(l.ip) EXCEPT ![l.ip].nlink = @ + 1]
  IN
  /\ At(p, "link") /\ l.dp = 0
  /\ Unlocked(l.ip)
  /\ panic' = NoType(l.ip)
  /\ IF IsDir(l.ip)
     THEN /\ itab' = ilockiunlock(l.ip)
          /\ Go(p, Iput([l EXCEPT !.ip = 0], l.ip, "end"))
          /\ UNCHANGED dinode
     ELSE /\ dinode' = iupdate(t, l.ip)
          /\ itab' = iget(t, From(p, l.call.new))
          /\ Go(p, Walk(p, l, l.call.new))
  /\ UNCHANGED <<dir, cwd, ofile, reused>>

\* ilock(dp), dirlink, iunlockput(dp).
LinkEntry(p) ==
  LET l == at[p] IN
  /\ At(p, "link") /\ l.dp # 0
  /\ Unlocked(l.dp)
  /\ panic' = (NoType(l.dp) \/ ~IsDir(l.dp))
  /\ \E ok \in {TRUE} \cup (IF FullDisk THEN {FALSE} ELSE {}) :
       IF ok /\ dir[l.dp][Name(l)] = 0
       THEN /\ dir' = [dir EXCEPT ![l.dp][Name(l)] = l.ip]
            /\ Go(p, Iput([l EXCEPT !.dp = 0], l.dp, "linked"))
       ELSE Go(p, Iput([l EXCEPT !.dp = 0], l.dp, "bad")) /\ UNCHANGED dir
  /\ itab' = ilockiunlock(l.dp)
  /\ UNCHANGED <<dinode, cwd, ofile, reused>>

\* ilock(ip), iunlock, iput of the old directory.  p->cwd is set already here:
\* nobody but p reads it, and p does not until the call is over.
sys_chdir(p) ==
  LET l == at[p] IN
  /\ At(p, "chdir")
  /\ Unlocked(l.ip)
  /\ panic' = NoType(l.ip)
  /\ itab' = ilockiunlock(l.ip)
  /\ IF IsDir(l.ip)
     THEN /\ cwd' = [cwd EXCEPT ![p] = l.ip]
          /\ Go(p, Iput([l EXCEPT !.ip = 0], cwd[p], "end"))
     ELSE Go(p, Iput([l EXCEPT !.ip = 0], l.ip, "end")) /\ UNCHANGED cwd
  /\ UNCHANGED <<dinode, dir, ofile, reused>>

(***************************************************************************)
(* A crash, and the start of the system: ireclaim frees the inodes that    *)
(* have no links, then processes run with the root as their directory.     *)
(***************************************************************************)

Crash ==
  /\ dinode' = durable[1]
  /\ dir' = durable[2]
  /\ itab' = [i \in Inums |-> NoEntry]
  /\ cwd' = [p \in Procs |-> 0]
  /\ ofile' = [p \in Procs |-> 0]
  /\ at' = [p \in Procs |-> Rest(IF p = First THEN "boot" ELSE "off")]
  /\ ops' = 0
  /\ reused' = {}
  /\ UNCHANGED <<durable, panic>>

Orphans == {i \in Inums : dinode[i].type # "free" /\ dinode[i].nlink = 0}

ireclaim(p) ==
  LET i == Lowest(Orphans) IN
  /\ at[p].pc = "boot"
  /\ Orphans # {}
  /\ itab' = [itab EXCEPT ![i] = [Loaded(i) EXCEPT !.ref = 1]]
  /\ begin_op(p, Iput(Rest("boot"), i, "boot"))
  /\ UNCHANGED <<dinode, dir, cwd, ofile, reused, panic>>

\* userinit gives the first process the root; its exec of /init locks and so
\* loads it, and the other processes get theirs by fork.
Booted(p) ==
  /\ at[p].pc = "boot"
  /\ Orphans = {}
  /\ itab' = [itab EXCEPT ![ROOTINO] =
                [Loaded(ROOTINO) EXCEPT !.ref = Cardinality(Procs)]]
  /\ cwd' = [q \in Procs |-> ROOTINO]
  /\ at' = [q \in Procs |-> Rest("user")]
  /\ UNCHANGED <<dinode, dir, ofile, durable, ops, reused, panic>>

Next ==
  \/ \E p \in Procs :
        \/ iput(p) \/ IputFree(p) \/ IputInval(p) \/ IputDrop(p)
        \/ Begin(p) \/ namex(p) \/ NamexEnd(p)
        \/ create(p) \/ CreateExists(p) \/ CreateLink(p) \/ CreateFail(p)
        \/ iunlockputdp(p) \/ Opened(p) \/ OpenExisting(p) \/ sys_close(p)
        \/ sys_unlink(p) \/ UnlinkEntry(p) \/ DropLink(p)
        \/ sys_link(p) \/ LinkEntry(p) \/ sys_chdir(p)
        \/ ireclaim(p) \/ Booted(p)
  \/ Crash

Spec == Init /\ [][Next]_vars
-----------------------------------------------------------------------------
Places == {"user", "off", "boot", "namex", "found", "iput", "ifree", "inval",
           "idrop", "exists", "init", "opened", "iunlockputdp", "unlink",
           "unlinked", "bad"}

(* TypeOK: the types of the variables; a locked entry of the table has     *)
(* been read from disk, and one without references is free.                *)
TypeOK ==
  /\ dinode \in [Inums -> [type : {"free", "file", "dir", "device"}, nlink : Nat]]
  /\ dir \in [Inums -> [Names \cup {".."} -> Inums \cup {0}]]
  /\ \A i \in Inums : /\ itab[i].ref \in Nat /\ itab[i].nlink \in Nat
                      /\ itab[i].lock \in Procs \cup {None}
                      /\ itab[i].lock # None => itab[i].valid
                      /\ itab[i].ref = 0 => itab[i] = NoEntry
  /\ {cwd, ofile} \subseteq [Procs -> Inums \cup {0}]
  /\ \A p \in Procs : at[p].pc \in Places

(* NoPanic: ilock never finds an inode without a type, dirlookup is only   *)
(* called on directories and unlink never meets an inode whose link count  *)
(* is already 0, for paths that do not go through "..".                    *)
NoPanic == ~panic

(* RefCount: ip->ref counts the pointers to the inode: current             *)
(* directories, open files and the pointers of calls in progress, through  *)
(* every failure path.                                                     *)
RefCount ==
  \A i \in Inums :
    itab[i].ref = Cardinality(
      {<<"cwd", p>> : p \in {q \in Procs : cwd[q] = i}}
      \cup {<<"ofile", p>> : p \in {q \in Procs : ofile[q] = i}}
      \cup {<<"dp", p>> : p \in {q \in Procs : at[q].dp = i}}
      \cup {<<"ip", p>> : p \in {q \in Procs : at[q].ip = i}}
      \cup {<<"put", p>> : p \in {q \in Procs : at[q].put = i}})

(* IputNeverBlocks: when iput takes the lock of an inode it is about to    *)
(* free, while holding the spin lock itable.lock, the lock is free.        *)
IputNeverBlocks ==
  \A p \in Procs : at[p].pc = "iput" /\ LastUnlinked(at[p].put) => Unlocked(at[p].put)

(* ReferencedLives: an inode that is open or a current directory is never  *)
(* freed on disk, however its names go away.                               *)
ReferencedLives ==
  \A p \in Procs : \A i \in {cwd[p], ofile[p]} \ {0} : dinode[i].type # "free"

(* ReferencesHold: counted references keep inodes alive, so that no call   *)
(* panics.                                                                 *)
ReferencesHold == TypeOK /\ NoPanic /\ RefCount /\ ReferencedLives

(* CacheCoherent: a valid entry of the table that nobody has locked agrees *)
(* with the inode on disk, also when the inode was freed and allocated     *)
(* again while others held pointers to the entry.                          *)
CacheCoherent ==
  \A i \in Inums : itab[i].valid /\ Unlocked(i) =>
    itab[i].type = dinode[i].type /\ itab[i].nlink = dinode[i].nlink

(* OrphanHasOwner: once the system runs, an allocated inode without links  *)
(* is in use by someone, who will free it: iput leaves none behind, and    *)
(* ireclaim has freed those a crash left.  The exception is an inode that  *)
(* was allocated again between the last two critical sections of the iput  *)
(* that had freed it: the stale reference of that iput keeps the next one  *)
(* from seeing ref == 1, and the inode stays allocated until a restart.    *)
OrphanHasOwner ==
  (\E p \in Procs : at[p].pc = "off")
    \/ \A i \in Orphans \ reused : itab[i].ref > 0

(* InodesInStep: the table agrees with the disk, and what no name and no   *)
(* reference leads to is free.                                             *)
InodesInStep == CacheCoherent /\ OrphanHasOwner

\* The inode whose lock p's next step takes, 0 when it takes none.
WaitsFor(p) ==
  LET l == at[p] IN
  CASE l.pc = "namex" /\ l.rest # <<>> -> l.dp
    [] l.pc = "found" /\ l.dp # 0 -> l.dp
    [] l.pc = "found" /\ l.dp = 0 -> l.ip
    [] l.pc \in {"exists", "init", "unlink", "bad"} -> l.ip
    [] OTHER -> 0

(* NoDeadlock: nobody waits for a lock it holds, and not everyone waits    *)
(* for a lock that is held: unlink and create lock a parent and then its   *)
(* child, and no order of calls closes a cycle.                            *)
NoDeadlock ==
  LET blocked == {p \in Procs : WaitsFor(p) # 0 /\ ~Unlocked(WaitsFor(p))}
  IN /\ \A p \in blocked : itab[WaitsFor(p)].lock # p
     /\ blocked # Procs

(* NobodyStuck: neither the sleep locks of inodes nor itable.lock, which   *)
(* iput holds while it takes one of them, stop the system.                 *)
NobodyStuck == NoDeadlock /\ IputNeverBlocks

\* The inodes a name leads to from the root, in the directories ents.
Reachable(ents) ==
  LET Below(S) == S \cup ({ents[i][n] : i \in S, n \in Names} \ {0})
      step[k \in 0 .. NInodes] == IF k = 0 THEN {ROOTINO} ELSE Below(step[k - 1])
  IN step[NInodes]

(* DurableTree: in what a commit leaves on disk, every name leads to an    *)
(* allocated inode, and an inode's link count is at least the number of    *)
(* names and of ".." entries of subdirectories that lead to it, so that no *)
(* later unlink frees what a name still leads to.                          *)
DurableTree ==
  LET inodes == durable[1]
      ents == durable[2]
      tree == Reachable(ents)
  IN \A i \in tree :
       /\ inodes[i].type # "free"
       /\ inodes[i].nlink >=
            Cardinality({<<d, n>> \in tree \X (Names \cup {".."}) :
                           ents[d][n] = i /\ <<d, n>> # <<ROOTINO, "..">>})
=============================================================================
