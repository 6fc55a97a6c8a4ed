------------------------------- MODULE Memory -------------------------------
(***************************************************************************)
(* User memory: kernel/kalloc.c, the page tables of kernel/vm.c, kexec of  *)
(* kernel/exec.c, and the parts of kernel/proc.c and kernel/sysproc.c that *)
(* make, copy, grow and free address spaces.                               *)
(*                                                                         *)
(* A page table belongs to one process, so one operation on it is one      *)
(* step; all that processes share is the free list.  Pages on it are       *)
(* interchangeable, so an allocated page is named after what it was        *)
(* allocated for, and mem maps the allocated pages to their content.       *)
(* Other processes take pages while an operation runs, so any of its calls *)
(* of kalloc may fail, as may its reads of a file: its budget is the       *)
(* number of such calls that succeed before one fails.                     *)
(*                                                                         *)
(* A page table has three levels.  Its tables are numbered: table <<1, i>> *)
(* and table <<0, j>> cover FAN*FAN and FAN pages.  A page has one value   *)
(* as its content; a size is counted in bytes, PGSIZE of them to a page.   *)
(***************************************************************************)
EXTENDS Integers, FiniteSets, Sequences

CONSTANTS Procs, First,
          PGSIZE, FAN,
          TRAPFRAME,    \* page number; the trampoline is the page above it
          NPAGES,       \* physical pages
          Programs,     \* Programs[p]: what p may exec, each a sequence of
                        \* segments [vaddr (a page), memsz, filesz, perm]
          SbrkSizes,    \* the n that sbrk is called with
          MaxCalls,     \* calls that may fail in the longest exec
          KERNEND,      \* devices, kernel and memory: the pages below it
          None

CopyLength == 2         \* pages that a system call copies
PageCalls == 3          \* and in mapping one page: the page and two tables

VARIABLES mem,     \* mem[page]: content of the allocated pages
          pt,      \* pt[t]: page table t: [nodes, leaf]
          sz,      \* sz[p] = p->sz
          table,   \* table[p] = p->pagetable, or None
          panic
vars == <<mem, pt, sz, table, panic>>

TRAMPOLINE == TRAPFRAME + 1
MAXVA == TRAMPOLINE + 1            \* in pages
Trampoline == <<None, "trampoline", 0>>   \* the kernel's page, never freed

PGROUNDUP(n) == ((n + PGSIZE - 1) \div PGSIZE) * PGSIZE
Pages(n) == PGROUNDUP(n) \div PGSIZE

\* The name of the page table of p, and of the one that exec builds beside it.
TableOf(p) == <<p, "current">>
Spare(p) == <<p, "next">>
TrapframeOf(p) == <<p, "trapframe", 0>>
KernelTable == <<None, "kernel">>
Tables == {TableOf(p) : p \in Procs} \cup {KernelTable}

(***************************************************************************)
(* The state of an operation: s.mem, s.pt, s.panic, the number s.free of   *)
(* free pages, s.budget, s.ok for the success of the last call, and the    *)
(* size s.sz of the image that an exec is building.                        *)
(***************************************************************************)
Without(f, S) == [x \in DOMAIN f \ S |-> f[x]]
With(f, x, v) == [y \in DOMAIN f \cup {x} |-> IF y = x THEN v ELSE f[y]]

Panic(s) == [s EXCEPT !.panic = TRUE]

Fail(s) == [s EXCEPT !.ok = FALSE]

\* The next call, when the last one succeeded; the error path, when it failed.
Then(s, Call(_)) == IF s.ok THEN Call(s) ELSE s
OrUndo(s, Undo(_)) == IF s.ok THEN s ELSE Undo(s)

\* Body(u, i) for i from..to, until one fails.
RECURSIVE Loop(_, _, _, _)
Loop(Body(_, _), s, from, to) ==
  IF ~s.ok \/ from > to THEN s ELSE Loop(Body, Body(s, from), from + 1, to)

kalloc(s, page) ==
  IF s.budget = 0 \/ s.free = 0 THEN Fail(s)
  ELSE [s EXCEPT !.mem = With(@, page, "junk"), !.free = @ - 1,
                 !.budget = @ - 1, !.ok = TRUE]

memset(s, page, v) == [s EXCEPT !.mem = With(@, page, v)]

\* kfree of a set of pages; freeing a page that is free is undefined.
kfree(s, pages) ==
  IF ~(pages \subseteq DOMAIN s.mem) THEN Panic(s)
  ELSE [s EXCEPT !.mem = Without(@, pages), !.free = @ + Cardinality(pages)]

Node(level, vpn) == IF level = 1 THEN <<1, vpn \div (FAN * FAN)>>
                    ELSE <<0, vpn \div FAN>>
NodePage(t, node) == <<t, "node", node[1] * MAXVA + node[2]>>
Root(t) == <<t, "root", 0>>
LeafPage(t, vpn) == <<t, "leaf", vpn>>

\* One level of walk with alloc: the table is there, or is allocated.
WalkLevel(s, t, node) ==
  LET page == NodePage(t, node)
      Enter(k) == [memset(k, page, "table") EXCEPT !.pt[t].nodes = @ \cup {node}]
  IN IF ~s.ok \/ node \in s.pt[t].nodes THEN s ELSE Then(kalloc(s, page), Enter)

walk(s, t, vpn) ==
  IF vpn >= MAXVA THEN Panic(s)
  ELSE WalkLevel(WalkLevel([s EXCEPT !.ok = TRUE], t, Node(1, vpn)), t, Node(0, vpn))

\* mappages for one page.
mappages(s, t, vpn, page, perm) ==
  LET Map(w) == IF vpn \in DOMAIN w.pt[t].leaf THEN Panic(w)
                ELSE [w EXCEPT !.pt[t].leaf =
                        With(@, vpn, [page |-> page, perm |-> perm])]
  IN Then(walk(s, t, vpn), Map)

\* uvmunmap of the pages S, those that are mapped.
uvmunmap(s, t, S, dofree) ==
  LET leaf == s.pt[t].leaf
      u == [s EXCEPT !.pt[t].leaf = Without(@, S)]
  IN IF dofree THEN kfree(u, {leaf[v].page : v \in S \cap DOMAIN leaf}) ELSE u

uvmdealloc(s, t, oldsz, newsz) ==
  IF newsz >= oldsz THEN s
  ELSE uvmunmap(s, t, Pages(newsz) .. Pages(oldsz) - 1, TRUE)

\* (mutant) keeps the page when it could not be mapped
NewPageLeaks(s, t, vpn, perm) ==
  LET page == LeafPage(t, vpn)
      Map(k) == mappages(memset(k, page, "zero"), t, vpn, page, perm)
  IN Then(kalloc(s, page), Map)

\* A new page for vpn, zeroed and mapped; the page is freed again when there
\* is no page for a table.
NewPage(s, t, vpn, perm) ==
  LET page == LeafPage(t, vpn)
      Map(k) == OrUndo(mappages(memset(k, page, "zero"), t, vpn, page, perm),
                       LAMBDA m : kfree(m, {page}))
  IN Then(kalloc(s, page), Map)

\* uvmalloc: page by page; on failure all of its pages are freed.  Its
\* callers tell failure from s.ok, the code from a return value of 0.
uvmalloc(s, t, oldsz, newsz, perm) ==
  LET from == Pages(oldsz)
      Page(u, v) == OrUndo(NewPage(u, t, v, perm),
                           LAMBDA n : uvmdealloc(n, t, v * PGSIZE, from * PGSIZE))
  IN IF newsz < oldsz THEN s ELSE Loop(Page, s, from, Pages(newsz) - 1)

\* freewalk: the leaves must be gone; all tables are freed.
freewalk(s, t) ==
  LET tables == {NodePage(t, n) : n \in s.pt[t].nodes} \cup {Root(t)}
      u == kfree([s EXCEPT !.pt = Without(@, {t})], tables)
  IN IF DOMAIN s.pt[t].leaf # {} THEN Panic(u) ELSE u

uvmfree(s, t, size) == freewalk(uvmunmap(s, t, 0 .. Pages(size) - 1, TRUE), t)

uvmcreate(s, t) ==
  LET Empty(k) == [memset(k, Root(t), "table") EXCEPT
                     !.pt = With(@, t, [nodes |-> {}, leaf |-> <<>>])]
  IN Then(kalloc(s, Root(t)), Empty)

\* proc_pagetable: the root, the trampoline, the trapframe.
proc_pagetable(s, t, p) ==
  LET MapTrampoline(c) ==
        OrUndo(mappages(c, t, TRAMPOLINE, Trampoline, {"X"}),
               LAMBDA m : uvmfree(m, t, 0))
      MapTrapframe(c) ==
        OrUndo(mappages(c, t, TRAPFRAME, TrapframeOf(p), {"W"}),
               LAMBDA m : uvmfree(uvmunmap(m, t, {TRAMPOLINE}, FALSE), t, 0))
  IN Then(Then(uvmcreate(s, t), MapTrampoline), MapTrapframe)

proc_freepagetable(s, t, size) ==
  uvmfree(uvmunmap(s, t, {TRAMPOLINE, TRAPFRAME}, FALSE), t, size)

\* (mutant) maps the copies like heap pages
uvmcopyWritable(s, old, new, size) ==
  LET leaf == s.pt[old].leaf
      Copy(u, v) ==
        LET page == LeafPage(new, v)
            Map(k) == OrUndo(mappages(memset(k, page, u.mem[leaf[v].page]), new, v, page, {"U", "W"}),
                             LAMBDA m : kfree(m, {page}))
        IN OrUndo(Then(kalloc(u, page), Map), LAMBDA m : uvmunmap(m, new, 0 .. v - 1, TRUE))
      Page(u, v) == IF v \in DOMAIN leaf THEN Copy(u, v) ELSE u
  IN Loop(Page, s, 0, Pages(size) - 1)

\* uvmcopy: every mapped page below size, with its permissions.
uvmcopy(s, old, new, size) ==
  LET leaf == s.pt[old].leaf
      Copy(u, v) ==
        LET page == LeafPage(new, v)
            Map(k) == OrUndo(mappages(memset(k, page, u.mem[leaf[v].page]), new, v, page, leaf[v].perm),
                             LAMBDA m : kfree(m, {page}))
        IN OrUndo(Then(kalloc(u, page), Map), LAMBDA m : uvmunmap(m, new, 0 .. v - 1, TRUE))
      Page(u, v) == IF v \in DOMAIN leaf THEN Copy(u, v) ELSE u
  IN Loop(Page, s, 0, Pages(size) - 1)

(***************************************************************************)
(* Operations.                                                             *)
(***************************************************************************)
Start(budget) ==
  [mem |-> mem, pt |-> pt, free |-> NPAGES - Cardinality(DOMAIN mem),
   budget |-> budget, ok |-> TRUE, panic |-> FALSE, sz |-> 0]

\* What an operation may come to, whichever of its calls is the first to fail.
Outcomes(Op(_), calls) == {[Op(Start(b)) EXCEPT !.budget = 0] : b \in 0 .. calls}

Finish(s) == mem' = s.mem /\ pt' = s.pt /\ panic' = s.panic

\* allocproc: the trapframe, then the page table; freeproc on failure.
allocproc(s, p) ==
  LET page == TrapframeOf(p)
      Table(k) == OrUndo(proc_pagetable(memset(k, page, "trapframe"), TableOf(p), p),
                         LAMBDA t : kfree(t, {page}))
  IN Then(kalloc(s, page), Table)

freeproc(s, p, t, size) == proc_freepagetable(kfree(s, {TrapframeOf(p)}), t, size)

(***************************************************************************)
(* The kernel's page table: the pages below KERNEND at their own address,  *)
(* the trampoline, and a stack for every process slot.  It is made once.   *)
(***************************************************************************)
StackPage(i) == <<None, "kstack", i>>
KSTACK(i) == TRAMPOLINE - (i + 1) * 2

\* A mapping of the kernel, which cannot do without it.
kvmmap(s, vpn, page, perm) == OrUndo(mappages(s, KernelTable, vpn, page, perm), Panic)

proc_mapstacks(s) ==
  LET Stack(u, i) ==
        OrUndo(Then(kalloc(u, StackPage(i)),
                    LAMBDA k : kvmmap(k, KSTACK(i), StackPage(i), {"W"})),
               Panic)
  IN Loop(Stack, s, 0, Cardinality(Procs) - 1)

kvmmake(s) ==
  LET Direct(u, v) == kvmmap(u, v, <<None, "physical", v>>, {"W"})
      d == Loop(Direct, uvmcreate(s, KernelTable), 0, KERNEND - 1)
  IN proc_mapstacks(kvmmap(d, TRAMPOLINE, Trampoline, {"X"}))

KernelPages == {Root(KernelTable)}
               \cup {NodePage(KernelTable, n) : n \in pt[KernelTable].nodes}
               \cup {StackPage(i) : i \in 0 .. Cardinality(Procs) - 1}

\* The pages that p still has a pointer to.
Owned(p) ==
  LET t == table[p]
      leaf == pt[t].leaf
  IN {Root(t), TrapframeOf(p)}
     \cup {NodePage(t, n) : n \in pt[t].nodes}
     \cup {leaf[v].page : v \in DOMAIN leaf \ {TRAMPOLINE, TRAPFRAME}}

\* A copy of p needs no more pages than p has.
kfork(p, q) ==
  /\ table[p] # None /\ table[q] = None
  /\ LET Copy(a) == OrUndo(uvmcopy(a, table[p], TableOf(q), sz[p]),
                           LAMBDA c : freeproc(c, q, TableOf(q), 0))
         Make(s) == Then(allocproc(s, q), Copy)
     IN \E s \in Outcomes(Make, Cardinality(Owned(p))) :
          /\ Finish(s)
          /\ table' = IF s.ok THEN [table EXCEPT ![q] = TableOf(q)] ELSE table
          /\ sz' = IF s.ok THEN [sz EXCEPT ![q] = sz[p]] ELSE sz

\* kexit and the parent's kwait.
Exit(p) ==
  /\ table[p] # None /\ p # First
  /\ Finish(freeproc(Start(0), p, table[p], sz[p]))
  /\ table' = [table EXCEPT ![p] = None]
  /\ sz' = [sz EXCEPT ![p] = 0]

\* vmfault at address va of p: a zeroed page, unless the address is outside
\* the process or mapped already.
vmfault(s, p, va) ==
  LET vpn == va \div PGSIZE IN
  IF va >= sz[p] \/ vpn \in DOMAIN s.pt[table[p]].leaf THEN Fail(s)
  ELSE NewPage(s, table[p], vpn, {"U", "W"})

Translates(p, vpn, perm) ==
  /\ vpn \in DOMAIN pt[table[p]].leaf
  /\ perm \subseteq pt[table[p]].leaf[vpn].perm

Addresses == 0 .. TRAPFRAME * PGSIZE - 1

\* A store in user mode that the page table allows.
UserStore(p, vpn) ==
  /\ table[p] # None
  /\ Translates(p, vpn, {"U", "W"})
  /\ mem' = [mem EXCEPT ![pt[table[p]].leaf[vpn].page] = "data"]
  /\ UNCHANGED <<pt, sz, table, panic>>

\* The calls of kalloc that vmfault may make for the pages S.
FaultCalls(p, S) ==
  PageCalls * Cardinality({v \in S : v * PGSIZE < sz[p]} \ DOMAIN pt[table[p]].leaf)

\* usertrap of a load or store that it does not allow.  When vmfault returns
\* 0 the process is killed: Exit is its next step.
PageFault(p, va) ==
  /\ table[p] # None
  /\ ~Translates(p, va \div PGSIZE, {"U", "W"})
  /\ \E s \in Outcomes(LAMBDA u : vmfault(u, p, va), FaultCalls(p, {va \div PGSIZE})) :
       Finish(s)
  /\ UNCHANGED <<sz, table>>

walkaddr(s, t, vpn) ==
  vpn \in DOMAIN s.pt[t].leaf /\ "U" \in s.pt[t].leaf[vpn].perm

\* One page of copyin, which writes nothing.
FetchPage(s, p, vpn) ==
  IF walkaddr(s, table[p], vpn) THEN s ELSE vmfault(s, p, vpn * PGSIZE)

\* One page of copyout.
CopyPage(s, p, vpn) ==
  LET Write(f) == LET pte == f.pt[table[p]].leaf[vpn] IN
                  IF "W" \notin pte.perm THEN Fail(f) ELSE memset(f, pte.page, "data")
  IN Then(FetchPage(s, p, vpn), Write)

\* A system call that copies n pages out or in, from page v.
Copy(p, CopyOne(_, _, _), v, n) ==
  LET Pass(s) == Loop(LAMBDA u, w : CopyOne(u, p, w), s, v, v + n - 1) IN
  /\ table[p] # None
  /\ \E s \in Outcomes(Pass, FaultCalls(p, v .. v + n - 1)) : Finish(s)
  /\ UNCHANGED <<sz, table>>

copyout(p, v, n) == Copy(p, CopyPage, v, n)
copyin(p, v, n) == Copy(p, FetchPage, v, n)

\* growproc.  A size below zero wraps to a huge one: nothing is freed.
Grow(p, n) ==
  LET Alloc(s) == uvmalloc(s, table[p], sz[p], sz[p] + n, {"U", "W"}) IN
  \E s \in Outcomes(Alloc, (Pages(n) + 1) * PageCalls) :
    /\ Finish(s)
    /\ sz' = IF s.ok THEN [sz EXCEPT ![p] = @ + n] ELSE sz

Shrink(p, n) ==
  /\ Finish(uvmdealloc(Start(0), table[p], sz[p], sz[p] + n))
  /\ sz' = [sz EXCEPT ![p] = @ + n]

growproc(p, n) ==
  IF sz[p] + n \in 0 .. TRAPFRAME * PGSIZE
  THEN IF n > 0 THEN Grow(p, n) ELSE Shrink(p, n)
  ELSE UNCHANGED <<mem, pt, panic, sz>>

sys_sbrk(p, n, eager) ==
  /\ table[p] # None
  /\ IF eager \/ n < 0 THEN growproc(p, n)
     ELSE /\ sz' = IF sz[p] + n > TRAPFRAME * PGSIZE THEN sz
                   ELSE [sz EXCEPT ![p] = @ + n]
          /\ UNCHANGED <<mem, pt, panic>>
  /\ UNCHANGED table

(***************************************************************************)
(* kexec.                                                                  *)
(***************************************************************************)
\* Any other call that may fail: a read of the file, a copy of an argument.
Try(s) == IF s.budget = 0 THEN Fail(s) ELSE [s EXCEPT !.budget = @ - 1]

\* loadseg: the file's pages, which must be mapped.
loadseg(s, t, seg) ==
  LET Read(u, v) == Then(Try(u), LAMBDA r : memset(r, r.pt[t].leaf[v].page, "data"))
      Load(u, v) == IF walkaddr(u, t, v) THEN Read(u, v) ELSE Fail(Panic(u))
  IN Loop(Load, s, seg.vaddr, seg.vaddr + Pages(seg.filesz) - 1)

\* One program header: it is read, its memory allocated, its file part loaded.
Segment(s, t, seg) ==
  LET new == seg.vaddr * PGSIZE + seg.memsz
      Alloc(r) == uvmalloc(r, t, r.sz, new, seg.perm \cup {"U"})
      Load(a) == loadseg([a EXCEPT !.sz = IF new < @ THEN @ ELSE new], t, seg)
  IN Then(Then(Try(s), Alloc), Load)

uvmclear(s, t, vpn) ==
  IF vpn \notin DOMAIN s.pt[t].leaf THEN Panic(s)
  ELSE [s EXCEPT !.pt[t].leaf[vpn].perm = @ \ {"U"}]

\* The guard page, and the stack with the arguments when they fit.
Stack(s, t) ==
  LET from == PGROUNDUP(s.sz)
      end == from + 2 * PGSIZE
      Args(a) == Try([uvmclear(a, t, from \div PGSIZE) EXCEPT !.sz = end])
      Push(c) == memset(c, c.pt[t].leaf[from \div PGSIZE + 1].page, "data")
  IN Then(Then(uvmalloc([s EXCEPT !.sz = from], t, from, end, {"U", "W"}), Args), Push)

\* The new image; on failure (bad:) it is freed, as far as it was built.
kexec(s, p, t, prog) ==
  LET Load(n) == Loop(LAMBDA u, i : Segment(u, t, prog[i]), n, 1, Len(prog))
      Build(n) == OrUndo(Then(Load(n), LAMBDA l : Stack(l, t)),
                         LAMBDA e : proc_freepagetable(e, t, e.sz))
  IN Then(proc_pagetable(s, t, p), Build)

\* p->pagetable = pagetable: names are ours, so the new table and its pages
\* get those of the old one, which is freed.
Renamed(x, t, u) == IF x[1] = t THEN [x EXCEPT ![1] = u] ELSE x
Adopt(s, t, u) ==
  LET leaf == s.pt[t].leaf
      new == [s.pt[t] EXCEPT !.leaf =
                [v \in DOMAIN leaf |-> [leaf[v] EXCEPT !.page = Renamed(@, t, u)]]]
  IN [s EXCEPT !.pt = With(Without(@, {t}), u, new),
               !.mem = [x \in {Renamed(y, t, u) : y \in DOMAIN @} |-> @[Renamed(x, u, t)]]]

\* copyinstr: unlike copyin it does not allocate a page that is missing.
copyinstr(s, p, vpn) == IF walkaddr(s, table[p], vpn) THEN s ELSE Fail(s)

\* fetchaddr of argv[i], which lies in page v, and fetchstr of the string in
\* page w, into a page of its own.
ArgPage(p, i) == <<p, "argv", i>>
FetchArg(s, p, v, w, i) ==
  Then(Then(FetchPage(s, p, v), LAMBDA f : kalloc(f, ArgPage(p, i))),
       LAMBDA k : copyinstr(k, p, w))

\* sys_exec: the pages of the arguments are freed whether or not kexec
\* succeeds.  In Next argv lies in the last page of p, its heap or stack, and
\* the string there or in the first, its text.
sys_exec(p, prog, v, w, argc) ==
  LET t == Spare(p)
      Args(s) == Loop(LAMBDA u, i : FetchArg(u, p, v, w, i), s, 1, argc)
      Switch(e) == Adopt(proc_freepagetable(e, table[p], sz[p]), t, table[p])
      Exec(s) == Then(Then(Args(s), LAMBDA a : kexec(a, p, t, prog)), Switch)
      FreeArgs(s) == kfree(s, DOMAIN s.mem \cap {ArgPage(p, i) : i \in 1..argc})
  IN /\ table[p] # None
     /\ sz[p] > 0            \* or there is no code to make the call
     /\ \E s \in Outcomes(LAMBDA u : FreeArgs(Exec(u)), MaxCalls) :
          /\ Finish(s)
          /\ sz' = IF s.ok THEN [sz EXCEPT ![p] = s.sz] ELSE sz
     /\ UNCHANGED table

\* kinit, kvminit, userinit, and forkret of the first process, which execs
\* its program.  There is memory for all this, or the kernel does not start.
Init ==
  LET none == [mem |-> <<>>, pt |-> <<>>, free |-> NPAGES, budget |-> NPAGES,
               ok |-> TRUE, panic |-> FALSE, sz |-> 0]
      old == TableOf(First)
      new == Spare(First)
  IN \E prog \in Programs[First] :
       \E e \in {kexec(allocproc(kvmmake(none), First), First, new, prog)} :
         \E s \in {Adopt(proc_freepagetable(e, old, 0), new, old)} :
           /\ mem = s.mem
           /\ pt = s.pt
           /\ sz = [p \in Procs |-> IF p = First THEN e.sz ELSE 0]
           /\ table = [p \in Procs |-> IF p = First THEN old ELSE None]
           /\ panic = (s.panic \/ ~e.ok)

Next ==
  \E p \in Procs :
    \/ \E q \in Procs : kfork(p, q)
    \/ Exit(p)
    \/ \E v \in 0 .. TRAPFRAME - 1 : UserStore(p, v)
    \/ \E va \in Addresses : PageFault(p, va)
    \/ \E v \in 0 .. TRAPFRAME - 1 :
         copyout(p, v, CopyLength) \/ copyin(p, v, CopyLength)
    \/ \E n \in SbrkSizes, eager \in BOOLEAN : sys_sbrk(p, n, eager)
    \/ \E prog \in Programs[p], w \in {0, Pages(sz[p]) - 1} :
         sys_exec(p, prog, Pages(sz[p]) - 1, w, 1)

Spec == Init /\ [][Next]_vars

(***************************************************************************)
(* Properties.                                                             *)
(***************************************************************************)
Live == {p \in Procs : table[p] # None}

\* The types of the variables.  No page that was handed out and not yet written
\* ("junk") is in use after a call, and no more than NPAGES are.
TypeOK ==
  /\ \A page \in DOMAIN mem :
       \/ mem[page] \in {"zero", "data", "table", "trapframe"}
       \/ mem[page] = "junk" /\ page \in KernelPages
  /\ DOMAIN pt \subseteq Tables
  /\ sz \in [Procs -> 0 .. TRAPFRAME * PGSIZE]
  /\ table \in [Procs -> Tables \cup {None}]
  /\ Cardinality(DOMAIN mem) <= NPAGES

\* None of the panics of vm.c, kalloc.c and exec.c is reached: no page is
\* mapped over another, freed twice, or left mapped in a table being freed.
NoPanic == ~panic

\* Every allocated page has exactly one owner: whatever call of kalloc
\* fails in fork, exec, sbrk or a page fault, what was allocated so far is
\* freed once, and nothing that is still in use is.
PagesAccounted ==
  /\ DOMAIN mem = KernelPages \cup UNION {Owned(p) : p \in Live}
  /\ DOMAIN pt = {KernelTable} \cup {table[p] : p \in Live}
  /\ \A p, q \in Live : p # q => Owned(p) \cap Owned(q) = {}
  /\ \A p \in Live : \A v, w \in DOMAIN pt[table[p]].leaf :
       pt[table[p]].leaf[v].page = pt[table[p]].leaf[w].page => v = w

\* Nothing is mapped above the size of the process but the trapframe and
\* the trampoline: what uvmfree and uvmcopy rely on when they stop at p->sz.
MappedBelowSize ==
  \A p \in Live :
    DOMAIN pt[table[p]].leaf
      \subseteq 0 .. Pages(sz[p]) - 1 \cup {TRAPFRAME, TRAMPOLINE}

\* Pages are owned as the page tables say, whatever call of kalloc() failed,
\* and so none is freed twice, leaked or left mapped.
PagesOwned == TypeOK /\ NoPanic /\ PagesAccounted /\ MappedBelowSize

\* What the program sees of a page: one that is not mapped yet is zero.
Seen(p, v) ==
  LET leaf == pt[table[p]].leaf IN
  IF v \notin DOMAIN leaf THEN [val |-> "zero", prot |-> "rw"]
  ELSE [val |-> mem[leaf[v].page],
        prot |-> CASE "U" \notin leaf[v].perm -> "none"
                   [] "W" \notin leaf[v].perm -> "ro"
                   [] OTHER -> "rw"]

Flat == INSTANCE AddressSpace WITH
  space <- [p \in Procs |->
              IF table[p] = None THEN None
              ELSE [size |-> sz[p],
                    page |-> [v \in 0 .. Pages(sz[p]) - 1 |-> Seen(p, v)]]]

\* A process sees flat memory of its own: pages it grows by are zero though
\* allocated lazily, fork gives the child the same memory, exec the image of
\* the program or no change at all, read-only pages are never written, and
\* no step of one process changes the memory of another.
FlatMemory == Flat!SpaceSpec
=============================================================================
