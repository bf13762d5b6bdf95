-------------------------------- MODULE Kmem --------------------------------
(***************************************************************************)
(* The kernel heap: kmalloc, kfree and krealloc over one static array that *)
(* grows from its start (src/src/kmem).  Every block is a header followed  *)
(* by its data; the headers form a doubly linked list that starts at       *)
(* `base'.                                                                 *)
(*                                                                         *)
(* The operations are state transformers on a heap record                  *)
(*    [hdr |-> the headers by address, base |-> ..., brk |-> ...]          *)
(* so that krealloc can call kmalloc and kfree the way the code does.  A   *)
(* header leaves DOMAIN hdr when it is absorbed by a neighbour or when the *)
(* free tail of the list is unlinked; the blocks that are lost when kfree  *)
(* clears `base' stay, because krealloc still follows their links.         *)
(***************************************************************************)
EXTENDS Integers

CONSTANTS
    HeapStart,  \* address of the array `heap'
    HeapSize,   \* HEAP_SIZE
    Meta,       \* META_BLOCK_SIZE
    Sizes       \* the sizes clients ask for

NULL == 0

ASSUME HeapAssumption ==
    /\ HeapStart \in Nat \ {NULL}
    /\ HeapSize \in Nat
    /\ Meta \in Nat \ {0}
    /\ Sizes \subseteq Nat

\* The fields of struct meta_block before data are an int, a size_t and three
\* pointers, so that its offset is a multiple of 8.
ASSUME MetaAligned == Meta % 4 = 0

\* Where the heap array ends: endp.
Endp == HeapStart + HeapSize

VARIABLES
    heap,  \* the allocator's state
    live   \* ghost: pointers that clients hold, each with the size asked for
           \* and the number of leading bytes that hold the client's data

vars == <<heap, live>>

(* The operators named Bug... are faults of the kind that the properties     *)
(* below would expose; no specification uses them.                           *)
BugAlignDown(n) == (n \div 4) * 4

\* align4.  The macro wraps to 0 for 0 and is exact below 2^64 - 4.
Align4(n) == ((n + 3) \div 4) * 4

Header(p) == p - Meta
Data(b) == b + Meta
EndOf(H, b) == Data(b) + H.hdr[b].size

Heap(hdr, base, brk) == [hdr |-> hdr, base |-> base, brk |-> brk]

KmemInit == Heap([b \in {} |-> NULL], NULL, HeapStart)

-----------------------------------------------------------------------------
(***************************************************************************)
(* Walking the list.  `while (b && ...) b = b->next' visits the blocks     *)
(* reachable from where it starts; a walk that finds nothing is {}.        *)
(***************************************************************************)
ClosedUnderNext(H, S) ==
    \A b \in S : H.hdr[b].next # NULL => H.hdr[b].next \in S

Reach(H, b) ==
    {c \in DOMAIN H.hdr :
        \A S \in SUBSET DOMAIN H.hdr : b \in S /\ ClosedUnderNext(H, S) => c \in S}

Chain(H) == IF H.base = NULL THEN {} ELSE Reach(H, H.base)

BugFindBlock(H, s) ==  \* a block that fits exactly is passed over
    LET fits == {b \in Chain(H) : H.hdr[b].free /\ H.hdr[b].size > s}
    IN  {b \in fits : fits \subseteq Reach(H, b)}
\* The first block of the list that is free and large enough.
FindBlock(H, s) ==
    LET fits == {b \in Chain(H) : H.hdr[b].free /\ H.hdr[b].size >= s}
    IN  {b \in fits : fits \subseteq Reach(H, b)}

GetLastBlock(H) == {b \in Chain(H) : H.hdr[b].next = NULL}

-----------------------------------------------------------------------------
(* kmalloc.c *)

BugSplitNoMeta(H, b, s) ==  \* the new header is not counted
    LET blk == H.hdr[b]
        new == Data(b) + s
    IN  Heap([h \in DOMAIN H.hdr \cup {new} |->
                IF h = new THEN [free |-> TRUE, size |-> blk.size - s,
                                 next |-> blk.next, prev |-> b]
                ELSE IF h = b THEN [blk EXCEPT !.next = new, !.size = s]
                ELSE IF h = blk.next THEN [H.hdr[h] EXCEPT !.prev = new]
                ELSE H.hdr[h]],
             H.base, H.brk)

\* Cut the block b down to s bytes; the rest becomes a free block behind it.
Split(H, b, s) ==
    LET blk == H.hdr[b]
        new == Data(b) + s
    IN  Heap([h \in DOMAIN H.hdr \cup {new} |->
                IF h = new THEN [free |-> TRUE, size |-> blk.size - s - Meta,
                                 next |-> blk.next, prev |-> b]
                ELSE IF h = b THEN [blk EXCEPT !.next = new, !.size = s]
                ELSE IF h = blk.next THEN [H.hdr[h] EXCEPT !.prev = new]
                ELSE H.hdr[h]],
             H.base, H.brk)

\* The guarded call of split that kmalloc and krealloc share.
Trim(H, b, s) ==
    IF H.hdr[b].size - s >= Meta + 4 THEN Split(H, b, s) ELSE H

\* A new block at brk, linked behind `last' but without a link back to it.
ExtendHeap(H, last, s) ==
    Heap([h \in DOMAIN H.hdr \cup {H.brk} |->
            IF h = H.brk THEN [free |-> FALSE, size |-> s, next |-> NULL, prev |-> NULL]
            ELSE IF h = last THEN [H.hdr[h] EXCEPT !.next = H.brk]
            ELSE H.hdr[h]],
         IF last = NULL THEN H.brk ELSE H.base,  \* the first block is the new base
         Data(H.brk) + s)


\* sbrk refuses to move the break past the end of the heap.
CanExtend(H, s) == Data(H.brk) + s <= Endp

SetFree(H, b, free) ==
    Heap([H.hdr EXCEPT ![b] = [@ EXCEPT !.free = free]], H.base, H.brk)

TakeBlock(H, b, s) ==
    [heap |-> SetFree(Trim(H, b, s), b, FALSE), ptr |-> Data(b)]

AppendBlock(H, last, s) ==
    IF CanExtend(H, s)
    THEN [heap |-> ExtendHeap(H, last, s), ptr |-> Data(H.brk)]
    ELSE [heap |-> H, ptr |-> NULL]

\* The results of kmalloc(n): a heap and a pointer.
Kmalloc(H, n) ==
    LET s == Align4(n)
    IN  IF H.base = NULL THEN {AppendBlock(H, NULL, s)}
        ELSE IF FindBlock(H, s) # {} THEN {TakeBlock(H, b, s) : b \in FindBlock(H, s)}
        ELSE {AppendBlock(H, b, s) : b \in GetLastBlock(H)}

-----------------------------------------------------------------------------
(* kfree.c *)

BugMergeNoRelink(H, b) ==  \* the block behind keeps its link to the absorbed one
    LET n == H.hdr[b].next
        absorb == n # NULL /\ H.hdr[n].free
        after == IF absorb THEN H.hdr[n].next ELSE n
        grown == IF absorb THEN H.hdr[b].size + Meta + H.hdr[n].size ELSE H.hdr[b].size
    IN  Heap([h \in DOMAIN H.hdr \ (IF absorb THEN {n} ELSE {}) |->
                IF h = b THEN [H.hdr[b] EXCEPT !.size = grown, !.next = after]
                ELSE H.hdr[h]],
             H.base, H.brk)

\* Absorb the next block if it is free, and link the block behind back to b.
MergeBlocks(H, b) ==
    LET n == H.hdr[b].next
        absorb == n # NULL /\ H.hdr[n].free
        after == IF absorb THEN H.hdr[n].next ELSE n
        grown == IF absorb THEN H.hdr[b].size + Meta + H.hdr[n].size ELSE H.hdr[b].size
    IN  Heap([h \in DOMAIN H.hdr \ (IF absorb THEN {n} ELSE {}) |->
                IF h = b THEN [H.hdr[b] EXCEPT !.size = grown, !.next = after]
                ELSE IF h = after THEN [H.hdr[h] EXCEPT !.prev = b]
                ELSE H.hdr[h]],
             H.base, H.brk)

\* p > base && p < sbrk(0); the header's ptr field always points at its data.
IsAddrValid(H, p) == H.base # NULL /\ p > H.base /\ p < H.brk

Cbrk(H, addr) ==
    IF addr >= Endp \/ addr < H.brk THEN H ELSE Heap(H.hdr, H.base, addr)

\* The free block b ends the list: unlink it, or forget the whole list.
Unlink(H, b) ==
    LET pv == H.hdr[b].prev
    IN  IF pv = NULL
        THEN Heap(H.hdr, NULL, H.brk)
        ELSE Heap([h \in DOMAIN H.hdr \ {b} |->
                    IF h = pv THEN [H.hdr[h] EXCEPT !.next = NULL] ELSE H.hdr[h]],
                  H.base, H.brk)

DropTail(H, b) ==
    LET H2 == Unlink(H, b)
    IN  IF b \in GetLastBlock(H2) THEN Cbrk(H2, b) ELSE H2

\* The block is free: merge it forward, or drop it from the end of the list.
Settle(H, b) ==
    IF H.hdr[b].next # NULL THEN MergeBlocks(H, b) ELSE DropTail(H, b)

FreeBlock(H, b) ==
    LET H1 == SetFree(H, b, TRUE)
        pv == H.hdr[b].prev
    IN  IF pv # NULL /\ H1.hdr[pv].free
        THEN Settle(MergeBlocks(H1, pv), pv)
        ELSE Settle(H1, b)

Kfree(H, p) == IF IsAddrValid(H, p) THEN FreeBlock(H, Header(p)) ELSE H

-----------------------------------------------------------------------------
(* krealloc.c *)

CanCombine(H, b, s) ==
    LET n == H.hdr[b].next
    IN  n # NULL /\ H.hdr[n].free /\ H.hdr[b].size + Meta + H.hdr[n].size >= s

Min2(a, b) == IF a < b THEN a ELSE b

BugCopySize(H, b, b2) == Min2(H.hdr[b].size, H.hdr[b2].size) - 4

\* The bytes krealloc copies from the block b into the one it moves to.
CopySize(H, b, b2) == Min2(H.hdr[b].size, H.hdr[b2].size)

\* The results of krealloc(p, n) for a pointer p and n > 0, with the number
\* of the old block's bytes that the new one holds.
Krealloc(H, p, n) ==
    LET s == Align4(n)
        b == Header(p)
    IN  IF H.hdr[b].size >= s
        THEN {[heap |-> Trim(H, b, s), ptr |-> p, kept |-> s]}
        ELSE IF CanCombine(H, b, s)
        THEN {[heap |-> Trim(MergeBlocks(H, b), b, s), ptr |-> p, kept |-> H.hdr[b].size]}
        ELSE {IF r.ptr = NULL THEN [heap |-> r.heap, ptr |-> NULL, kept |-> 0]
              ELSE [heap |-> Kfree(r.heap, p), ptr |-> r.ptr,
                    kept |-> CopySize(r.heap, b, Header(r.ptr))]
              : r \in Kmalloc(H, n)}

-----------------------------------------------------------------------------
(***************************************************************************)
(* The clients: they free and resize only what they hold, and fill every   *)
(* byte they asked for.                                                    *)
(***************************************************************************)
Hold(p, n, good) ==
    [q \in DOMAIN live \cup {p} |-> IF q = p THEN [req |-> n, good |-> good] ELSE live[q]]

Drop(p) == [q \in DOMAIN live \ {p} |-> live[q]]

\* What the client has in a block of n bytes of which `kept' came over from a
\* block described by `old': it refills what is beyond the old contents.
Contents(old, n, kept) ==
    IF kept >= Min2(old.req, n) THEN n ELSE kept

Init == heap = KmemInit /\ live = [p \in {} |-> [req |-> 0, good |-> 0]]

\* Also krealloc(NULL, n).
Alloc(n) == \E r \in Kmalloc(heap, n) :
    /\ heap' = r.heap
    /\ live' = IF r.ptr = NULL THEN live ELSE Hold(r.ptr, n, n)

\* Also krealloc(p, 0).
Free(p) ==
    /\ p \in DOMAIN live
    /\ heap' = Kfree(heap, p)
    /\ live' = Drop(p)

Resize(p, n) ==
    /\ p \in DOMAIN live
    /\ n > 0
    /\ \E r \in Krealloc(heap, p, n) :
        /\ heap' = r.heap
        /\ live' = IF r.ptr = NULL THEN live
                   ELSE [q \in (DOMAIN live \ {p}) \cup {r.ptr} |->
                            IF q = r.ptr
                            THEN [req |-> n, good |-> Contents(live[p], n, r.kept)]
                            ELSE live[q]]

Next ==
    \/ \E n \in Sizes : Alloc(n)
    \/ \E p \in DOMAIN live : Free(p)
    \/ \E p \in DOMAIN live, n \in Sizes : Resize(p, n)

Spec == Init /\ [][Next]_vars
-----------------------------------------------------------------------------
(* Properties *)

Block == [free : BOOLEAN, size : Nat, next : Nat, prev : Nat]

HeapType(H) ==
    /\ \A b \in DOMAIN H.hdr : b \in Nat /\ H.hdr[b] \in Block
    /\ H.base \in DOMAIN H.hdr \cup {NULL}
    /\ H.brk \in HeapStart .. Endp

Disjoint(H) ==
    \A b \in DOMAIN H.hdr :
        /\ HeapStart <= b /\ EndOf(H, b) <= H.brk
        /\ \A c \in DOMAIN H.hdr : b < c => EndOf(H, b) <= c

\* next leads to the next block of the heap
NextLinks(H) ==
    \A b \in DOMAIN H.hdr : H.hdr[b].next # NULL =>
        /\ H.hdr[b].next \in DOMAIN H.hdr
        /\ b < H.hdr[b].next
        /\ \A c \in DOMAIN H.hdr : c <= b \/ H.hdr[b].next <= c

\* prev is NULL or inverts next
PrevLinks(H) ==
    \A b \in DOMAIN H.hdr : H.hdr[b].prev # NULL =>
        H.hdr[b].prev \in DOMAIN H.hdr /\ H.hdr[H.hdr[b].prev].next = b

\* the list of `base' ends at the last block of the heap
TailIsLast(H) ==
    \A b, c \in DOMAIN H.hdr :
        H.base # NULL /\ H.base <= b /\ H.hdr[b].next = NULL => c <= b

\* and no link leads to `base'
BaseIsFirst(H) == H.base # NULL => \A b \in DOMAIN H.hdr : H.hdr[b].next # H.base

\* The variables have their types and the break stays inside the heap array.
TypeOK ==
    /\ HeapType(heap)
    /\ \A p \in DOMAIN live : p \in Nat /\ live[p] \in [req : Nat, good : Nat]

\* Blocks, each a header and its data, lie inside the used part of the heap
\* and never overlap, whatever split, merge and krealloc did to their sizes.
BlocksDisjoint == Disjoint(heap)

\* No two live blocks share a byte: the data of a pointer that a client holds
\* ends before the header of any block behind it, and inside the heap array.
LiveApart ==
    \A p \in DOMAIN live :
        /\ p + live[p].req <= Endp
        /\ \A q \in DOMAIN live : p < q => p + live[p].req <= Header(q)

\* The links that merge_blocks, split and kfree follow: next leads to the
\* next block of the heap, prev is NULL or inverts next, and the list of
\* `base' starts there and ends at the last block of the heap.
LinksConsistent ==
    NextLinks(heap) /\ PrevLinks(heap) /\ TailIsLast(heap) /\ BaseIsFirst(heap)

\* A pointer that a client holds is the data of a block that is not free and
\* has room for what kmalloc or krealloc was asked for.
LiveHasBlock ==
    \A p \in DOMAIN live :
        /\ Header(p) \in DOMAIN heap.hdr
        /\ ~heap.hdr[Header(p)].free
        /\ live[p].req <= heap.hdr[Header(p)].size

\* krealloc carries over the client's bytes up to the smaller of the two
\* sizes, whether the block stays, grows in place or moves.
ContentsKept == \A p \in DOMAIN live : live[p].good = live[p].req

\* The walks of find_block and get_last_block: a list that exists has exactly
\* one last block, and a fitting block is found in it if there is one, so
\* that kmalloc always returns.
WalksFindTheirBlock ==
    heap.base # NULL =>
        /\ \E b \in Chain(heap) : GetLastBlock(heap) = {b}
        /\ \A n \in Sizes :
               LET s == Align4(n)
                   fits == {b \in Chain(heap) : heap.hdr[b].free /\ heap.hdr[b].size >= s}
               IN  IF fits = {} THEN FindBlock(heap, s) = {} ELSE \E b \in fits : FindBlock(heap, s) = {b}

\* Blocks start at multiples of 4 from the start of the heap, as align4 intends.
BlocksAligned ==
    \A b \in DOMAIN heap.hdr : (b - HeapStart) % 4 = 0 /\ heap.hdr[b].size % 4 = 0

\* Both, also with blocks of 0 bytes, whose data starts at the next header or at
\* the break: whatever calls came before, no later walk misses its block.
HeapInOrder == BlocksAligned /\ WalksFindTheirBlock

\* "Free a previously allocated memory block": the block of a pointer handed
\* to kfree does not stay allocated.
FreeReleases ==
    [][\A p \in DOMAIN live : 
          Free(p) /\ Header(p) \in DOMAIN heap'.hdr => heap'.hdr[Header(p)].free]_vars
=============================================================================
