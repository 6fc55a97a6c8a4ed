-------------------------------- MODULE Heap ---------------------------------
(***************************************************************************)
(* The user-level allocator of umalloc.c: a circular list of free blocks   *)
(* in the order of their addresses, searched from where the last search    *)
(* stopped. Addresses count units of one header; a block is named by the   *)
(* address of its header.                                                  *)
(***************************************************************************)
EXTENDS Naturals, FiniteSets

CONSTANTS
    NALLOC,     \* the least number of units morecore() asks for (4096)
    HeapEnd,    \* the break may not pass this address
    Requests    \* the numbers of units a program asks for, header included

VARIABLES
    ptr,        \* s.ptr of every header
    size,       \* s.size of every header
    freep,      \* where the next search starts; Null before the first malloc
    brk,        \* the end of the heap
    given,      \* blocks that malloc has handed out, with what was asked for
    obtained    \* units that sbrk has given to the allocator

heapvars == <<ptr, size, freep, brk, given, obtained>>

Null == HeapEnd + 1
base == 0                   \* static data lies below the heap
Addrs == 0..HeapEnd

HeapInit ==
    /\ ptr = [a \in Addrs |-> 0]
    /\ size = [a \in Addrs |-> 0]
    /\ freep = Null
    /\ brk = 1
    /\ given = {}
    /\ obtained = {}

(* The allocator's own state, which malloc and free thread through the     *)
(* calls they make of one another.                                         *)
Heap == [ptr |-> ptr, size |-> size, freep |-> freep]

(* free: the place p in the list after which bp belongs, found by walking  *)
(* from freep, and the two mergers.                                        *)
RECURSIVE Before(_, _, _)
Before(h, bp, p) ==
    LET next == h.ptr[p]
    IN  IF \/ bp > p /\ bp < next
           \/ p >= next /\ (bp > p \/ bp < next)
        THEN p ELSE Before(h, bp, next)

JoinLower(h, p, bp) ==
    IF p + h.size[p] = bp
    THEN [h EXCEPT !.size[p] = @ + h.size[bp], !.ptr[p] = h.ptr[bp], !.freep = p]
    ELSE [h EXCEPT !.ptr[p] = bp, !.freep = p]

free(h, bp) ==
    LET p    == Before(h, bp, h.freep)
        next == h.ptr[p]
    IN  JoinLower(IF bp + h.size[bp] = next
                  THEN [h EXCEPT !.size[bp] = @ + h.size[next], !.ptr[bp] = h.ptr[next]]
                  ELSE [h EXCEPT !.ptr[bp] = next],
                  p, bp)

(* morecore, for a request of nu units: the block that sbrk returns starts *)
(* at the break, which another sbrk of the program may have moved.         *)
Units(nu) == IF nu < NALLOC THEN NALLOC ELSE nu

morecore(h, hp, nu) == free([h EXCEPT !.size[hp] = Units(nu)], hp)

(* Mutant: the block that is left keeps a unit too many. *)
SplitOverlap(h, p, n) ==
    LET q == p + h.size[p] - n
    IN  [block |-> q, heap |-> [h EXCEPT !.size[p] = @ - n + 1, !.size[q] = n]]

(* The last n units of the larger block p become a block of their own. *)
Split(h, p, n) ==
    LET q == p + h.size[p] - n
    IN  [block |-> q, heap |-> [h EXCEPT !.size[p] = @ - n, !.size[q] = n]]

(* malloc's search from prevp. It ends with the block and the new heap, or *)
(* with no block when it has come round to freep and must call morecore.   *)
RECURSIVE Search(_, _, _)
Search(h, prevp, n) ==
    LET p == h.ptr[prevp]
        g == [h EXCEPT !.freep = prevp]
    IN  IF h.size[p] = n THEN [block |-> p, heap |-> [g EXCEPT !.ptr[prevp] = h.ptr[p]]]
        ELSE IF h.size[p] > n THEN Split(g, p, n)
        ELSE IF p = h.freep THEN [block |-> Null, heap |-> h]
        ELSE Search(h, p, n)

(* The first call builds the empty list. *)
Started ==
    IF freep # Null THEN Heap
    ELSE [ptr |-> [ptr EXCEPT ![base] = base], size |-> [size EXCEPT ![base] = 0],
          freep |-> base]

(* The headers on the list that starts at a. *)
RECURSIVE Listed(_, _, _)
Listed(list, a, seen) ==
    IF a \in seen THEN seen ELSE Listed(list, list[a], seen \union {a})

(* The heap is h, and g is handed out. A header that has been merged, and  *)
(* the pointer of a block that is handed out, are not read again before    *)
(* they are written, and are blank here.                                   *)
Becomes(h, g) ==
    LET onlist == Listed(h.ptr, h.freep, {})
    IN  /\ ptr' = [a \in Addrs |-> IF a \in onlist THEN h.ptr[a] ELSE 0]
        /\ size' = [a \in Addrs |-> IF a \in onlist \union {b.at : b \in g}
                                    THEN h.size[a] ELSE 0]
        /\ freep' = h.freep
        /\ given' = g

Take(r, n) == Becomes(r.heap, given \union {[at |-> r.block, asked |-> n]})

malloc(n) ==
    LET r == Search(Started, Started.freep, n)
    IN  \/ /\ r.block # Null
           /\ Take(r, n)
           /\ UNCHANGED <<brk, obtained>>
        \/ /\ r.block = Null                        \* sbrk fails
           /\ Becomes(Started, given)
           /\ UNCHANGED <<brk, obtained>>
        \/ /\ r.block = Null
           /\ brk + Units(n) <= HeapEnd
           /\ LET h == morecore(r.heap, brk, n)
              IN  Take(Search(h, h.freep, n), n)
           /\ brk' = brk + Units(n)
           /\ obtained' = obtained \union brk..brk + Units(n) - 1

Free(b) ==
    /\ b \in given
    /\ Becomes(free(Heap, b.at), given \ {b})
    /\ UNCHANGED <<brk, obtained>>

(* The program moves the break itself. *)
Sbrk ==
    /\ brk < HeapEnd
    /\ brk' = brk + 1
    /\ UNCHANGED <<ptr, size, freep, given, obtained>>

HeapNext ==
    \/ \E n \in Requests : malloc(n)
    \/ \E b \in given : Free(b)
    \/ Sbrk

(***************************************************************************)
(* The properties.                                                         *)
(***************************************************************************)
FreeBlocks == IF freep = Null THEN {} ELSE Listed(ptr, freep, {})
Extent(a) == IF size[a] = 0 THEN {} ELSE a..a + size[a] - 1
Blocks == {a \in FreeBlocks : a # base} \union {b.at : b \in given}

(* Whatever has been allocated, freed and obtained from sbrk, in any       *)
(* order: the blocks on the free list and the blocks handed out do not     *)
(* overlap and are together all the memory the allocator has obtained, and *)
(* a block is as large as was asked for.                                   *)
HeapPartitioned ==
    /\ UNION {Extent(a) : a \in Blocks} = obtained
    /\ \A a, b \in Blocks : a # b => Extent(a) \cap Extent(b) = {}
    /\ \A b \in given : size[b.at] = b.asked /\ b.at \notin FreeBlocks

(* The list goes round in the order of the addresses, once past base, and  *)
(* no two free blocks touch: what free() returns has been merged with both *)
(* of its neighbours, across blocks of separate sbrk() calls too.          *)
FreeListMerged ==
    \A a \in FreeBlocks :
        /\ ptr[a] > a \/ \A b \in FreeBlocks : b <= a
        /\ ~\E b \in FreeBlocks : b > a /\ b < ptr[a]
        /\ a # base => a + size[a] \notin FreeBlocks

(* The heap is partitioned, and its free part is in as few blocks as can   *)
(* be.                                                                     *)
HeapSound == HeapPartitioned /\ FreeListMerged

=============================================================================
