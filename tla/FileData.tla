------------------------------ MODULE FileData ------------------------------
(***************************************************************************)
(* The content of files: kernel/fs.c (balloc, bfree, bmap, itrunc, readi,  *)
(* writei, iupdate) and the inode half of fileread and filewrite of        *)
(* kernel/file.c.  Processes read, write and truncate inodes through       *)
(* shared open files; the blocks of all inodes come from one bitmap.       *)
(*                                                                         *)
(* One step is one turn of a loop of readi, writei or itrunc: all of it    *)
(* happens under the inode's sleep lock, and the blocks it touches belong  *)
(* to that inode or are free.  A block is an array of BSIZE words, so an   *)
(* indirect block holds NINDIRECT = BSIZE addresses; the bytes a process   *)
(* writes are all its own byte, so that every byte shows its author.       *)
(***************************************************************************)
EXTENDS Integers, FiniteSets, Sequences

CONSTANTS Procs,        \* each writes the byte of its name
          Inodes, Files,
          InodeOf,      \* InodeOf[f] = f->ip
          Opened,       \* Opened[p]: the files p has open
          Data,         \* the data blocks
          BBLOCK,       \* BBLOCK[b]: the bitmap block with the bit of b
          None,         \* address 0
          Old,          \* whatever is in a block that was freed
          BSIZE, NDIRECT, MAXOPBLOCKS,
          WORD,         \* sizeof(uint)
          UINT,         \* 2^32
          Straddling,   \* processes whose buffer may start in a mapped page
                        \* and run into an unmapped one
          WriteLens, ReadLens   \* the lengths the callers pass

VARIABLES used,    \* the set bits of the bitmap
          block,   \* block[b]: content of b, as the buffer cache has it
          disk,    \* disk[b]: content of b last given to the log
          inode,   \* inode[ip]: the in-memory copy [size, addrs]
          dinode,  \* dinode[ip]: the copy last given to the log
          off,     \* off[f] = f->off
          lock,    \* lock[ip]: the process that holds ip->lock, or None
          pc,      \* pc[p]: where p is
          arg,     \* arg[p]: its call and loop variables
          logged,  \* logged[p]: the blocks its transaction has logged
          panic
vars == <<used, block, disk, inode, dinode, off, lock, pc, arg, logged, panic>>

ASSUME SizeAssumption ==
  /\ {BSIZE, WORD, MAXOPBLOCKS, UINT} \subseteq Nat \ {0} /\ NDIRECT \in Nat
  /\ InodeOf \in [Files -> Inodes] /\ Opened \in [Procs -> SUBSET Files]

NINDIRECT == BSIZE \div WORD
MAXFILE == NDIRECT + NINDIRECT

Zeros == [w \in 0 .. BSIZE - 1 |-> None]
Unmapped == [i \in 0 .. NDIRECT |-> None]
Idle == [f |-> None, n |-> 0, i |-> 0, n1 |-> 0, tot |-> 0]

min(a, b) == IF a < b THEN a ELSE b

Init == /\ used = {}
        /\ block = [b \in Data |-> [w \in 0 .. BSIZE - 1 |-> Old]]
        /\ disk = block
        /\ inode = [ip \in Inodes |-> [size |-> 0, addrs |-> Unmapped]]
        /\ dinode = inode
        /\ off = [f \in Files |-> 0]
        /\ lock = [ip \in Inodes |-> None]
        /\ pc = [p \in Procs |-> "user"]
        /\ arg = [p \in Procs |-> Idle]
        /\ logged = [p \in Procs |-> {}]
        /\ panic = FALSE

(***************************************************************************)
(* Block allocation.  s is a record of what bmap reads and writes: used,   *)
(* block, disk, addrs (of the inode), log, and addr, the value returned.   *)
(***************************************************************************)

LogBitmap(b) == <<"bitmap", BBLOCK[b]>>
LogData(b) == <<"data", b>>
LogInode(ip) == <<"inode", ip>>

(* balloc: mark a free block used, log its bitmap block, zero it and log   *)
(* it.  The scan holds one bitmap block at a time, so with several of them *)
(* it may also miss a block that is freed behind it.                       *)
balloc(s) ==
  {[s EXCEPT !.used = @ \cup {b}, !.block[b] = Zeros, !.disk[b] = Zeros,
             !.log = @ \cup {LogBitmap(b), LogData(b)}, !.addr = b]
     : b \in Data \ s.used}
  \cup (IF s.used = Data \/ \E a, b \in Data : BBLOCK[a] # BBLOCK[b]
        THEN {[s EXCEPT !.addr = None]} ELSE {})

\* The address in slot i of the inode, allocated if there is none.
Direct(s, i) ==
  IF s.addrs[i] # None THEN {[s EXCEPT !.addr = s.addrs[i]]}
  ELSE {IF t.addr = None THEN t ELSE [t EXCEPT !.addrs[i] = t.addr]
          : t \in balloc(s)}

\* The address in word j of the indirect block a, allocated if there is none.
Indirect(s, a, j) ==
  IF s.block[a][j] # None THEN {[s EXCEPT !.addr = s.block[a][j]]}
  ELSE {IF t.addr = None THEN t
        ELSE [t EXCEPT !.block[a][j] = t.addr, !.disk[a][j] = t.addr,
                       !.log = @ \cup {LogData(a)}]
          : t \in balloc(s)}

bmap(s, bn) ==
  IF bn < NDIRECT THEN Direct(s, bn)
  ELSE UNION {IF t.addr = None THEN {t} ELSE Indirect(t, t.addr, bn - NDIRECT)
                : t \in Direct(s, NDIRECT)}

Blocks(p, ip) ==
  [used |-> used, block |-> block, disk |-> disk,
   addrs |-> inode[ip].addrs, log |-> logged[p], addr |-> None]

(***************************************************************************)
(* filewrite                                                               *)
(***************************************************************************)

Ip(p) == InodeOf[arg[p].f]

\* A system call ends; what it was about is forgotten.
Leave(p) == /\ pc' = [pc EXCEPT ![p] = "user"]
            /\ arg' = [arg EXCEPT ![p] = Idle]

\* Mutant: no blocks are set aside for a write that is not aligned.
MaxChunkAligned == ((MAXOPBLOCKS - 1 - 1) \div 2) * BSIZE

\* The most one transaction writes: room is left for the inode, the indirect
\* block, two partial blocks and a bitmap block for every block.
MaxChunk == ((MAXOPBLOCKS - 1 - 1 - 2) \div 2) * BSIZE

\* begin_op, ilock, and the checks at the head of writei, for what is left
\* of the call from its word i on.
Chunk(p, f, n, i) ==
  LET ip == InodeOf[f]
      n1 == min(n - i, MaxChunk)
  IN
  /\ lock[ip] = None
  /\ IF off[f] > inode[ip].size \/ off[f] + n1 > MAXFILE * BSIZE
     THEN Leave(p) /\ UNCHANGED lock
     ELSE /\ lock' = [lock EXCEPT ![ip] = p]
          /\ pc' = [pc EXCEPT ![p] = "writei"]
          /\ arg' = [arg EXCEPT ![p] =
                       [f |-> f, n |-> n, i |-> i, n1 |-> n1, tot |-> 0]]
  /\ UNCHANGED <<used, block, disk, inode, dinode, off, logged, panic>>

filewrite(p) ==
  /\ pc[p] = "user"
  /\ \E f \in Opened[p], n \in WriteLens : Chunk(p, f, n, 0)

WriteChunk(p) ==
  /\ pc[p] = "write"
  /\ Chunk(p, arg[p].f, arg[p].n, arg[p].i)

\* The words of one turn of the loop, and where they lie in their block.
Turn(p, n) ==
  LET o == off[arg[p].f] + arg[p].tot
  IN [bn |-> o \div BSIZE,
      from |-> o % BSIZE,
      m |-> min(n - arg[p].tot, BSIZE - (o % BSIZE))]

\* Mutant: the offset in the block is forgotten.
OverwriteFromStart(c, from, m, v) ==
  [w \in DOMAIN c |-> IF w < m THEN v ELSE c[w]]

Overwrite(c, from, m, v) ==
  [w \in DOMAIN c |-> IF w \in from .. from + m - 1 THEN v ELSE c[w]]

Commit(p, s) ==
  /\ used' = s.used
  /\ block' = s.block
  /\ disk' = s.disk
  /\ inode' = [inode EXCEPT ![Ip(p)].addrs = s.addrs]
  /\ logged' = [logged EXCEPT ![p] = s.log]
  /\ UNCHANGED dinode

\* One turn of writei's loop: map the block, copy, log.
WriteBlock(p) ==
  LET t == Turn(p, arg[p].n1) IN
  /\ pc[p] = "writei"
  /\ arg[p].tot < arg[p].n1
  /\ IF t.bn >= MAXFILE
     THEN /\ panic' = TRUE
          /\ UNCHANGED <<used, block, disk, inode, dinode, pc, arg, logged>>
     ELSE \E s \in bmap(Blocks(p, Ip(p)), t.bn) :
          LET copied == Overwrite(s.block[s.addr], t.from, t.m, p) IN
          /\ s.addr # None
          /\ Commit(p, [s EXCEPT !.block[s.addr] = copied,
                                 !.disk[s.addr] = copied,
                                 !.log = @ \cup {LogData(s.addr)}])
          /\ arg' = [arg EXCEPT ![p].tot = @ + t.m]
          /\ UNCHANGED <<pc, panic>>
  /\ UNCHANGED <<off, lock>>

\* bmap finds no block: the loop ends.
WriteNoSpace(p) ==
  LET t == Turn(p, arg[p].n1) IN
  /\ pc[p] = "writei"
  /\ arg[p].tot < arg[p].n1
  /\ t.bn < MAXFILE
  /\ \E s \in bmap(Blocks(p, Ip(p)), t.bn) : s.addr = None /\ Commit(p, s)
  /\ pc' = [pc EXCEPT ![p] = "iupdate"]
  /\ UNCHANGED <<off, lock, arg, panic>>

\* The user's page is missing: a prefix may have been copied into the
\* buffer, which is released without being logged.
WriteFault(p) ==
  LET t == Turn(p, arg[p].n1) IN
  /\ pc[p] = "writei"
  /\ arg[p].tot < arg[p].n1
  /\ t.bn < MAXFILE
  /\ \E s \in bmap(Blocks(p, Ip(p)), t.bn), m \in 0 .. t.m - 1 :
       /\ s.addr # None
       /\ m = 0 \/ p \in Straddling
       /\ Commit(p, [s EXCEPT !.block[s.addr] =
                        Overwrite(s.block[s.addr], t.from, m, p)])
  /\ pc' = [pc EXCEPT ![p] = "iupdate"]
  /\ UNCHANGED <<off, lock, arg, panic>>

\* Mutant: the inode is written only when the file has grown.
iupdateIfGrown(p) ==
  LET o == off[arg[p].f] + arg[p].tot IN
  IF o > inode[Ip(p)].size
  THEN /\ inode' = [inode EXCEPT ![Ip(p)].size = o]
       /\ dinode' = [dinode EXCEPT ![Ip(p)] = inode'[Ip(p)]]
  ELSE UNCHANGED <<inode, dinode>>

\* The end of writei: grow the file, write the inode back; then filewrite
\* advances the offset, unlocks, ends the transaction and goes on or fails.
iupdate(p) ==
  LET o == off[arg[p].f] + arg[p].tot
      size == IF o > inode[Ip(p)].size THEN o ELSE inode[Ip(p)].size
      now == [inode[Ip(p)] EXCEPT !.size = size]
  IN
  /\ inode' = [inode EXCEPT ![Ip(p)] = now]
  /\ dinode' = [dinode EXCEPT ![Ip(p)] = now]

WriteEnd(p) ==
  /\ \/ pc[p] = "writei" /\ arg[p].tot >= arg[p].n1
     \/ pc[p] = "iupdate"
  /\ iupdate(p)
  /\ off' = [off EXCEPT ![arg[p].f] = @ + arg[p].tot]
  /\ lock' = [lock EXCEPT ![Ip(p)] = None]
  /\ logged' = [logged EXCEPT ![p] = {}]
  /\ IF arg[p].tot # arg[p].n1 \/ arg[p].i + arg[p].n1 >= arg[p].n
     THEN Leave(p)
     ELSE /\ arg' = [arg EXCEPT ![p].i = @ + arg[p].n1,
                                ![p].n1 = 0, ![p].tot = 0]
          /\ pc' = [pc EXCEPT ![p] = "write"]
  /\ UNCHANGED <<used, block, disk, panic>>

(***************************************************************************)
(* fileread                                                                *)
(***************************************************************************)

\* What readi will read of the n words asked for at o: nothing when o lies
\* past the end or o + n wraps around, at most what is left of the file.
Readable(size, o, n) ==
  LET sum == (o + n) % UINT IN
  IF o > size \/ sum < o THEN 0
  ELSE IF sum > size THEN size - o ELSE n

\* ilock and the head of readi.
fileread(p) ==
  /\ pc[p] = "user"
  /\ \E f \in Opened[p], n \in ReadLens :
       LET k == Readable(inode[InodeOf[f]].size, off[f], n % UINT) IN
       /\ lock[InodeOf[f]] = None
       /\ k > 0
       /\ lock' = [lock EXCEPT ![InodeOf[f]] = p]
       /\ arg' = [arg EXCEPT ![p] = [Idle EXCEPT !.f = f, !.n1 = k]]
  /\ pc' = [pc EXCEPT ![p] = "readi"]
  /\ UNCHANGED <<used, block, disk, inode, dinode, off, logged, panic>>

ReadUnlock(p, r) ==
  /\ off' = [off EXCEPT ![arg[p].f] = @ + r]
  /\ lock' = [lock EXCEPT ![Ip(p)] = None]
  /\ Leave(p)

\* One turn of readi's loop.  bmap may allocate, but there is no transaction.
ReadBlock(p) ==
  LET t == Turn(p, arg[p].n1) IN
  /\ pc[p] = "readi"
  /\ arg[p].tot < arg[p].n1
  /\ IF t.bn >= MAXFILE
     THEN panic' = TRUE /\ UNCHANGED arg
     ELSE \E s \in bmap(Blocks(p, Ip(p)), t.bn) :
          /\ panic' = (s.log # {})
          /\ arg' = [arg EXCEPT ![p].tot = @ + t.m]
  /\ UNCHANGED <<used, block, disk, inode, dinode, off, lock, pc, logged>>

\* copyout fails: readi returns -1, the offset stays.
ReadFault(p) ==
  /\ pc[p] = "readi"
  /\ arg[p].tot < arg[p].n1
  /\ ReadUnlock(p, 0)
  /\ UNCHANGED <<used, block, disk, inode, dinode, logged, panic>>

ReadEnd(p) ==
  /\ pc[p] = "readi"
  /\ arg[p].tot >= arg[p].n1
  /\ ReadUnlock(p, arg[p].tot)
  /\ UNCHANGED <<used, block, disk, inode, dinode, logged, panic>>

(***************************************************************************)
(* sys_open.  f stands for a new open file of the inode once no call uses  *)
(* the one it stood for.  O_TRUNC calls itrunc (here through another open  *)
(* file); arg.i is its loop counter: the direct slots, then the words of   *)
(* the indirect block, then the block.                                     *)
(***************************************************************************)

Reopen(f) ==
  /\ \A p \in Procs : arg[p].f # f
  /\ off[f] # 0
  /\ off' = [off EXCEPT ![f] = 0]
  /\ UNCHANGED <<used, block, disk, inode, dinode, lock, pc, arg, logged, panic>>

TruncStart(p) ==
  /\ pc[p] = "user"
  /\ \E f \in Opened[p] :
       /\ lock[InodeOf[f]] = None
       /\ lock' = [lock EXCEPT ![InodeOf[f]] = p]
       /\ arg' = [arg EXCEPT ![p] = [Idle EXCEPT !.f = f]]
  /\ pc' = [pc EXCEPT ![p] = "itrunc"]
  /\ UNCHANGED <<used, block, disk, inode, dinode, off, logged, panic>>

bfree(p, b) ==
  IF b = None THEN UNCHANGED <<used, block, disk, logged, panic>>
  ELSE /\ panic' = (b \notin used)
       /\ used' = used \ {b}
       /\ block' = [block EXCEPT ![b] = [w \in 0 .. BSIZE - 1 |-> Old]]
       /\ disk' = [disk EXCEPT ![b] = block'[b]]
       /\ logged' = [logged EXCEPT ![p] = @ \cup {LogBitmap(b)}]

TruncDirect(p) ==
  LET i == arg[p].i IN
  /\ pc[p] = "itrunc"
  /\ i < NDIRECT
  /\ bfree(p, inode[Ip(p)].addrs[i])
  /\ inode' = [inode EXCEPT ![Ip(p)].addrs[i] = None]
  /\ arg' = [arg EXCEPT ![p].i = @ + 1]
  /\ UNCHANGED <<dinode, off, lock, pc>>

TruncIndirect(p) ==
  LET i == arg[p].i
      a == inode[Ip(p)].addrs[NDIRECT]
  IN
  /\ pc[p] = "itrunc"
  /\ i >= NDIRECT /\ i < MAXFILE
  /\ a # None
  /\ bfree(p, block[a][i - NDIRECT])
  /\ arg' = [arg EXCEPT ![p].i = @ + 1]
  /\ UNCHANGED <<inode, dinode, off, lock, pc>>

\* The indirect block itself, size = 0, iupdate; iunlock and end_op follow.
FreeLast(p, a) ==
  LET now == [size |-> 0, addrs |-> [inode[Ip(p)].addrs EXCEPT ![NDIRECT] = None]]
  IN
  /\ used' = used \ {a}
  /\ panic' = (a # None /\ a \notin used)
  /\ block' = [b \in Data |-> IF b = a THEN [w \in 0 .. BSIZE - 1 |-> Old]
                              ELSE block[b]]
  /\ disk' = [b \in Data |-> IF b = a THEN block'[b] ELSE disk[b]]
  /\ inode' = [inode EXCEPT ![Ip(p)] = now]
  /\ dinode' = [dinode EXCEPT ![Ip(p)] = now]
  /\ lock' = [lock EXCEPT ![Ip(p)] = None]
  /\ logged' = [logged EXCEPT ![p] = {}]
  /\ Leave(p)
  /\ UNCHANGED off

TruncEnd(p) ==
  LET a == inode[Ip(p)].addrs[NDIRECT] IN
  /\ pc[p] = "itrunc"
  /\ arg[p].i >= NDIRECT
  /\ a = None \/ arg[p].i = MAXFILE
  /\ FreeLast(p, a)

(***************************************************************************)
(* A buffer that a failed copy left different from what was logged: the    *)
(* cache recycles it and reads the block again, or a transaction that had  *)
(* logged the block before commits it as it is.                            *)
(***************************************************************************)

Recycled(b) == /\ block[b] # disk[b]
               /\ block' = [block EXCEPT ![b] = disk[b]]
               /\ UNCHANGED disk

Committed(b) == /\ block[b] # disk[b]
                /\ disk' = [disk EXCEPT ![b] = block[b]]
                /\ UNCHANGED block

Torn(b) ==
  /\ Recycled(b) \/ Committed(b)
  /\ UNCHANGED <<used, inode, dinode, off, lock, pc, arg, logged, panic>>

Next ==
  \/ \E p \in Procs :
        \/ filewrite(p) \/ WriteChunk(p) \/ WriteBlock(p) \/ WriteNoSpace(p)
        \/ WriteFault(p) \/ WriteEnd(p)
        \/ fileread(p) \/ ReadBlock(p) \/ ReadFault(p) \/ ReadEnd(p)
        \/ TruncStart(p) \/ TruncDirect(p) \/ TruncIndirect(p) \/ TruncEnd(p)
  \/ \E f \in Files : Reopen(f)
  \/ \E b \in Data : Torn(b)

Spec == Init /\ [][Next]_vars
-----------------------------------------------------------------------------
(* TypeOK: the types of the variables; a process in the middle of a read,  *)
(* write or truncation holds the lock of the inode, and nobody else does.  *)
TypeOK ==
  /\ used \subseteq Data
  /\ {block, disk} \subseteq
       [Data -> [0 .. BSIZE - 1 -> Procs \cup Data \cup {None, Old}]]
  /\ {inode, dinode} \subseteq
       [Inodes -> [size : 0 .. MAXFILE * BSIZE,
                   addrs : [0 .. NDIRECT -> Data \cup {None}]]]
  /\ off \in [Files -> 0 .. MAXFILE * BSIZE]
  /\ lock \in [Inodes -> Procs \cup {None}]
  /\ \A p \in Procs :
       \/ pc[p] = "user" /\ arg[p] = Idle
       \/ pc[p] \in {"write", "writei", "iupdate", "readi", "itrunc"}
            /\ arg[p].f \in Files
            /\ lock[Ip(p)] = p <=> pc[p] # "write"
  /\ \A ip \in Inodes : lock[ip] # None => pc[lock[ip]] # "user"

\* The addresses an inode holds, by position: a direct slot, a word of the
\* indirect block (those itrunc has freed no longer count), the block itself.
Held(ip) ==
  LET a == inode[ip].addrs[NDIRECT]
      done == IF lock[ip] # None /\ pc[lock[ip]] = "itrunc"
              THEN arg[lock[ip]].i ELSE 0
  IN {<<i, inode[ip].addrs[i]>> : i \in 0 .. NDIRECT}
     \cup (IF a = None THEN {}
           ELSE {<<NDIRECT + 1 + j, block[a][j]>> :
                   j \in {k \in 0 .. NINDIRECT - 1 : NDIRECT + k >= done}})

(* BlocksAccounted: the set bits of the bitmap are exactly the blocks that *)
(* some inode holds, and no block is held twice, by two inodes or at two   *)
(* places of one: nothing leaks when an allocation or a copy fails half    *)
(* way, and no two files share a block.                                    *)
BlocksAccounted ==
  LET held == {h \in UNION {{<<ip, x[1], x[2]>> : x \in Held(ip)} : ip \in Inodes}
                 : h[3] # None}
  IN /\ used = {h[3] : h \in held}
     /\ \A h, g \in held : h[3] = g[3] => h = g

(* NoPanic: "freeing free block", "bmap: out of range" and "log_write      *)
(* outside of trans" (readi never has to allocate) are unreachable.        *)
NoPanic == ~panic

(* OpFits: a transaction never logs more than MAXOPBLOCKS distinct blocks, *)
(* the inode block that iupdate logs last included: filewrite's chunks are *)
(* small enough, with nothing to spare at an unaligned write that also     *)
(* allocates the indirect block.                                           *)
OpFits ==
  \A p \in Procs : pc[p] \in {"writei", "iupdate", "itrunc"} =>
    Cardinality(logged[p] \cup {LogInode(Ip(p))}) <= MAXOPBLOCKS

(* WithinLimits: no call leaves its types, its bounds or its transaction.  *)
WithinLimits == TypeOK /\ NoPanic /\ OpFits

(* InodeWrittenBack: whenever an inode is not locked, the copy the log has *)
(* is the copy in memory, addresses included: what a commit makes durable  *)
(* is complete, even when a write failed after bmap allocated.             *)
InodeWrittenBack == \A ip \in Inodes : lock[ip] = None => dinode[ip] = inode[ip]

(* InodesComplete: inodes, bitmap and log agree on the blocks of files,    *)
(* also after a balloc or a copy that failed half way.                     *)
InodesComplete == BlocksAccounted /\ InodeWrittenBack

(***************************************************************************)
(* The byte array an inode stands for.  A write counts as it is copied,    *)
(* before writei and filewrite update size and offset; a truncation counts *)
(* from its first step.                                                    *)
(***************************************************************************)
Writing(q) == q # None /\ pc[q] \in {"writei", "iupdate"}

Offset(f) ==
  LET q == lock[InodeOf[f]] IN
  IF Writing(q) /\ arg[q].f = f THEN off[f] + arg[q].tot ELSE off[f]

Size(ip) ==
  LET q == lock[ip]
      end == off[arg[q].f] + arg[q].tot
  IN IF Writing(q) /\ end > inode[ip].size THEN end
     ELSE IF q # None /\ pc[q] = "itrunc" THEN 0
     ELSE inode[ip].size

Addr(ip, bn) == IF bn < NDIRECT THEN inode[ip].addrs[bn]
                ELSE block[inode[ip].addrs[NDIRECT]][bn - NDIRECT]

Byte(ip, i) == block[Addr(ip, i \div BSIZE)][i % BSIZE]
DiskByte(ip, i) == disk[Addr(ip, i \div BSIZE)][i % BSIZE]

Bytes == INSTANCE ByteFile WITH
  Bytes <- Procs,
  MaxBytes <- MAXFILE * BSIZE,
  content <- [ip \in Inodes |-> [i \in 1 .. Size(ip) |-> Byte(ip, i - 1)]],
  torn <- [ip \in Inodes |->
             IF block = disk THEN {}
             ELSE {i \in 0 .. Size(ip) - 1 : Byte(ip, i) # DiskByte(ip, i)}],
  off <- [f \in Files |-> Offset(f)]

(* FilesAreBytes: reading, writing and truncating through shared open      *)
(* files, block by block and with failures half way, implements an array   *)
(* of bytes per inode: a byte changes only when a write puts it at the     *)
(* offset, no write of one file shows in another, and what a failed copy   *)
(* may disturb is confined to the bytes it was to write.                   *)
FilesAreBytes == Bytes!ByteSpec
=============================================================================
