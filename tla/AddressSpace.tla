---------------------------- MODULE AddressSpace ----------------------------
(***************************************************************************)
(* What user memory promises: every process has a flat range of pages that *)
(* is its own.  A page has a value and a protection.  Nothing is said of   *)
(* page tables, of when a page is allocated, or of running out of memory:  *)
(* an operation that fails changes nothing, except that a copy into user   *)
(* memory may stop half-way.                                               *)
(***************************************************************************)
EXTENDS Integers, Sequences

CONSTANTS Procs, First, PGSIZE, Programs, SbrkSizes, None

VARIABLE space   \* space[p]: None, or the size and the pages of p

ZeroPage == [val |-> "zero", prot |-> "rw"]
PagesOf(n) == (n + PGSIZE - 1) \div PGSIZE

\* sbrk: pages that stay keep their value, pages that appear are zero.
Resize(p, n) ==
  LET old == space[p] IN
  /\ old.size + n >= 0
  /\ space' = [space EXCEPT ![p] =
       [size |-> old.size + n,
        page |-> [v \in 0 .. PagesOf(old.size + n) - 1 |->
                    IF v \in DOMAIN old.page THEN old.page[v] ELSE ZeroPage]]]

\* A store, or a copy to user memory, of the writable pages S.
Store(p, S) ==
  /\ \A v \in S : space[p].page[v].prot = "rw"
  /\ space' = [space EXCEPT ![p].page =
       [v \in DOMAIN @ |-> IF v \in S THEN [@[v] EXCEPT !.val = "data"] ELSE @[v]]]

Fork(p, q) ==
  /\ space[q] = None
  /\ space' = [space EXCEPT ![q] = space[p]]

End(p) == space' = [space EXCEPT ![p] = None]

(***************************************************************************)
(* The image of a program.  A page has the protection of the first segment *)
(* that reaches beyond its start; what the file holds is loaded.  Above    *)
(* the segments are an inaccessible page and the stack.                    *)
(***************************************************************************)
EndOf(seg) == seg.vaddr * PGSIZE + seg.memsz
Top(prog) == CHOOSE n \in {0} \cup {PagesOf(EndOf(prog[i])) : i \in DOMAIN prog} :
               \A i \in DOMAIN prog : PagesOf(EndOf(prog[i])) <= n

ImagePage(prog, v) ==
  LET first == CHOOSE i \in DOMAIN prog :
                 /\ EndOf(prog[i]) > v * PGSIZE
                 /\ \A j \in 1 .. i - 1 : EndOf(prog[j]) <= v * PGSIZE
      loaded == \E i \in DOMAIN prog :
                  v \in prog[i].vaddr .. prog[i].vaddr + PagesOf(prog[i].filesz) - 1
  IN [val |-> IF loaded THEN "data" ELSE "zero",
      prot |-> IF "W" \in prog[first].perm THEN "rw" ELSE "ro"]

Image(prog) ==
  LET top == Top(prog) IN
  [size |-> (top + 2) * PGSIZE,
   page |-> [v \in 0 .. top + 1 |->
               IF v = top THEN [val |-> "zero", prot |-> "none"]
               ELSE IF v = top + 1 THEN [val |-> "data", prot |-> "rw"]
               ELSE ImagePage(prog, v)]]

\* The first process runs its program.
SpaceInit ==
  \E prog \in Programs[First] :
    space = [p \in Procs |-> IF p = First THEN Image(prog) ELSE None]

Exec(p, prog) == space' = [space EXCEPT ![p] = Image(prog)]

SpaceNext ==
  /\ space' # space
  /\ \E p \in {q \in Procs : space[q] # None} :
     \/ \E n \in SbrkSizes : Resize(p, n)
     \/ \E S \in SUBSET DOMAIN space[p].page : Store(p, S)
     \/ \E q \in Procs : Fork(p, q)
     \/ \E prog \in Programs[p] : Exec(p, prog)
     \/ End(p)

SpaceSpec == SpaceInit /\ [][SpaceNext]_space
=============================================================================
