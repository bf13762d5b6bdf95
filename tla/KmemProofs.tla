----------------------------- MODULE KmemProofs -----------------------------
(***************************************************************************)
(* The heap of kmalloc, kfree and krealloc keeps its blocks apart and its  *)
(* links consistent, and never gives away or shrinks a block that a client *)
(* holds, for every heap size, header size and sequence of requests.  Its  *)
(* blocks stay aligned, and its walks end at the block they look for.      *)
(***************************************************************************)
EXTENDS Kmem, WellFoundedInduction, TLAPS

HeapOK(H) ==
    /\ HeapType(H)
    /\ Disjoint(H)
    /\ NextLinks(H)
    /\ PrevLinks(H)
    /\ TailIsLast(H)
    /\ BaseIsFirst(H)

\* Every allocated block of H, except those in E, is one of H2 and no smaller.
Keeps(H, H2, E) ==
    \A b \in DOMAIN H.hdr \ E :
        ~H.hdr[b].free => /\ b \in DOMAIN H2.hdr
                          /\ ~H2.hdr[b].free
                          /\ H.hdr[b].size <= H2.hdr[b].size

\* split turns the end of a block into a free block of its own.
LEMMA SplitOK ==
    ASSUME NEW H, HeapOK(H), NEW b \in DOMAIN H.hdr, NEW s \in Nat,
           H.hdr[b].size - s >= Meta + 4
    PROVE  /\ HeapOK(Split(H, b, s))
           /\ Keeps(H, Split(H, b, s), {b})
           /\ b \in DOMAIN Split(H, b, s).hdr
           /\ Split(H, b, s).hdr[b].free = H.hdr[b].free
           /\ Split(H, b, s).hdr[b].size = s
<1> DEFINE S == Split(H, b, s)
           new == Data(b) + s
           nx == H.hdr[b].next
<1> USE HeapAssumption DEF NULL
<1>1. /\ \A c \in DOMAIN H.hdr : c \in Nat /\ H.hdr[c] \in Block /\ c # NULL
      /\ H.brk \in Nat
  BY DEF HeapOK, HeapType, Disjoint, Block, Endp
<1>2. /\ new \in Nat /\ new > b /\ new + Meta < EndOf(H, b)
      /\ new \notin DOMAIN H.hdr
  BY <1>1 DEF HeapOK, Disjoint, EndOf, Data, Block
<1>3. /\ DOMAIN S.hdr = DOMAIN H.hdr \cup {new}
      /\ S.base = H.base /\ S.brk = H.brk
  BY DEF Split, Heap
<1>4. /\ S.hdr[new].free = TRUE
      /\ S.hdr[new].size = H.hdr[b].size - s - Meta
      /\ S.hdr[new].next = nx
      /\ S.hdr[new].prev = b
      /\ S.hdr[b].free = H.hdr[b].free
      /\ S.hdr[b].size = s
      /\ S.hdr[b].next = new
      /\ S.hdr[b].prev = H.hdr[b].prev
  BY <1>1, <1>2, Zenon DEF Split, Heap, Block
<1>5. ASSUME NEW c \in DOMAIN H.hdr, c # b
      PROVE  /\ S.hdr[c].free = H.hdr[c].free
             /\ S.hdr[c].size = H.hdr[c].size
             /\ S.hdr[c].next = H.hdr[c].next
             /\ S.hdr[c].prev = IF c = nx THEN new ELSE H.hdr[c].prev
  BY <1>1, <1>2, <1>5, Zenon DEF Split, Heap, Block
<1> HIDE DEF S, nx
<1>6. HeapType(S)
  <2>1. ASSUME NEW c \in DOMAIN S.hdr PROVE S.hdr[c] \in Block
    <3>1. CASE c = new
      BY <3>1, <1>1, <1>2 DEF Split, Heap, Block, S, nx
    <3>2. CASE c = b
      BY <3>2, <1>1, <1>2, ZenonT(60) DEF Split, Heap, Block, S, nx
    <3>3. CASE c \in DOMAIN H.hdr /\ c # b
      BY <3>3, <1>1, <1>2 DEF Split, Heap, Block, S, nx
    <3> QED
      BY <3>1, <3>2, <3>3, <1>3
  <2> QED
    BY <2>1, <1>1, <1>2, <1>3 DEF HeapOK, HeapType
<1>7. Disjoint(S)
  <2> SUFFICES ASSUME NEW c \in DOMAIN S.hdr
               PROVE  /\ HeapStart <= c /\ EndOf(S, c) <= S.brk
                      /\ \A d \in DOMAIN S.hdr : c < d => EndOf(S, c) <= d
    BY DEF Disjoint
  <2>1. CASE c = new
    BY <2>1, <1>1, <1>2, <1>3, <1>4 DEF HeapOK, Disjoint, EndOf, Data, Block
  <2>2. CASE c = b
    BY <2>2, <1>1, <1>2, <1>3, <1>4 DEF HeapOK, Disjoint, EndOf, Data, Block
  <2>3. CASE c # b /\ c # new
    <3>1. EndOf(S, c) = EndOf(H, c) /\ c \in DOMAIN H.hdr
      BY <2>3, <1>3, <1>5 DEF EndOf
    <3>2. HeapStart <= c /\ EndOf(H, c) <= H.brk
      BY <3>1 DEF HeapOK, Disjoint
    <3>3. ASSUME NEW d \in DOMAIN H.hdr, c < d PROVE EndOf(H, c) <= d
      BY <3>1, <3>3 DEF HeapOK, Disjoint
    <3>4. c < new => EndOf(H, c) <= new
      <4>1. c > b => EndOf(H, b) <= c
        BY <3>1 DEF HeapOK, Disjoint
      <4>2. c < b => EndOf(H, c) <= b
        BY <3>1 DEF HeapOK, Disjoint
      <4> QED
        BY <4>1, <4>2, <3>1, <2>3, <1>1, <1>2 DEF EndOf, Data, Block
    <3> QED
      BY <3>1, <3>2, <3>3, <3>4, <1>3
  <2> QED
    BY <2>1, <2>2, <2>3
<1>8. NextLinks(S)
  <2> SUFFICES ASSUME NEW c \in DOMAIN S.hdr, S.hdr[c].next # NULL
               PROVE  /\ S.hdr[c].next \in DOMAIN S.hdr
                      /\ c < S.hdr[c].next
                      /\ \A d \in DOMAIN S.hdr : d <= c \/ S.hdr[c].next <= d
    BY DEF NextLinks
  <2>1. CASE c = new
    BY <2>1, <1>1, <1>2, <1>3, <1>4 DEF HeapOK, Disjoint, NextLinks, EndOf, Data, Block, nx
  <2>2. CASE c = b
    BY <2>2, <1>1, <1>2, <1>3, <1>4 DEF HeapOK, Disjoint, EndOf, Data, Block
  <2>3. CASE c # b /\ c # new
    <3>1. c \in DOMAIN H.hdr /\ S.hdr[c].next = H.hdr[c].next
      BY <2>3, <1>3, <1>5
    <3>2. /\ H.hdr[c].next \in DOMAIN H.hdr
          /\ c < H.hdr[c].next
          /\ \A d \in DOMAIN H.hdr : d <= c \/ H.hdr[c].next <= d
      BY <3>1 DEF HeapOK, NextLinks
    <3>3. new <= c \/ H.hdr[c].next <= new
      <4>1. c > b => EndOf(H, b) <= c
        BY <3>1 DEF HeapOK, Disjoint
      <4> QED
        BY <4>1, <3>1, <3>2, <2>3, <1>1, <1>2 DEF EndOf, Data, Block
    <3> QED
      BY <3>1, <3>2, <3>3, <1>3
  <2> QED
    BY <2>1, <2>2, <2>3
<1>9. PrevLinks(S)
  <2> SUFFICES ASSUME NEW c \in DOMAIN S.hdr, S.hdr[c].prev # NULL
               PROVE  /\ S.hdr[c].prev \in DOMAIN S.hdr
                      /\ S.hdr[S.hdr[c].prev].next = c
    BY DEF PrevLinks
  <2>1. CASE c = new
    BY <2>1, <1>3, <1>4
  <2>2. CASE c = nx /\ c # new
    <3>1. c # b
      BY <2>2, <1>1 DEF HeapOK, NextLinks, nx
    <3> QED
      BY <3>1, <2>2, <1>3, <1>4, <1>5
  <2>3. CASE c # nx /\ c # new
    <3>1. c \in DOMAIN H.hdr /\ S.hdr[c].prev = H.hdr[c].prev
      BY <2>3, <1>3, <1>4, <1>5
    <3>2. H.hdr[c].prev \in DOMAIN H.hdr /\ H.hdr[H.hdr[c].prev].next = c
      BY <3>1 DEF HeapOK, PrevLinks
    <3>3. H.hdr[c].prev # b
      BY <3>2, <2>3 DEF nx
    <3> QED
      BY <3>1, <3>2, <3>3, <1>3, <1>5
  <2> QED
    BY <2>1, <2>2, <2>3
<1>10. TailIsLast(S)
  <2> SUFFICES ASSUME NEW c \in DOMAIN S.hdr, NEW d \in DOMAIN S.hdr,
                      S.base # NULL, S.base <= c, S.hdr[c].next = NULL
               PROVE  d <= c
    BY DEF TailIsLast
  <2>1. c # b
    BY <1>1, <1>2, <1>4
  <2>2. CASE c = new
    <3>1. nx = NULL /\ H.base <= b
      BY <2>2, <1>1, <1>2, <1>3, <1>4 DEF HeapOK, HeapType, Disjoint, EndOf, Data, Block
    <3> QED
      BY <3>1, <2>2, <1>1, <1>2, <1>3 DEF HeapOK, TailIsLast, nx
  <2>3. CASE c # new
    <3>1. c \in DOMAIN H.hdr /\ H.hdr[c].next = NULL
      BY <2>1, <2>3, <1>3, <1>5
    <3>2. \A e \in DOMAIN H.hdr : e <= c
      BY <3>1, <1>3 DEF HeapOK, TailIsLast
    <3>3. b < c
      BY <3>1, <3>2, <2>1, <1>1
    <3>4. EndOf(H, b) <= c
      BY <3>1, <3>3 DEF HeapOK, Disjoint
    <3> QED
      BY <3>1, <3>2, <3>4, <1>1, <1>2, <1>3 DEF EndOf, Data, Block
  <2> QED
    BY <2>2, <2>3
<1>11. Keeps(H, S, {b})
  BY <1>1, <1>3, <1>5 DEF Keeps, Block
<1>12. BaseIsFirst(S)
  <2> SUFFICES ASSUME S.base # NULL, NEW c \in DOMAIN S.hdr
               PROVE  S.hdr[c].next # S.base
    BY DEF BaseIsFirst
  <2>1. H.base # new
    BY <1>1, <1>2, <1>3 DEF HeapOK, HeapType
  <2> QED
    BY <2>1, <1>3, <1>4, <1>5 DEF HeapOK, BaseIsFirst, nx
<1> QED
  BY <1>3, <1>4, <1>6, <1>7, <1>8, <1>9, <1>10, <1>11, <1>12 DEF HeapOK, S

\* Marking a block free or allocated changes nothing else.
LEMMA SetFreeOK ==
    ASSUME NEW H, HeapOK(H), NEW b \in DOMAIN H.hdr, NEW f \in BOOLEAN
    PROVE  /\ HeapOK(SetFree(H, b, f))
           /\ DOMAIN SetFree(H, b, f).hdr = DOMAIN H.hdr
           /\ SetFree(H, b, f).hdr[b].free = f
           /\ SetFree(H, b, f).hdr[b].size = H.hdr[b].size
           /\ SetFree(H, b, f).hdr[b].prev = H.hdr[b].prev
           /\ Keeps(H, SetFree(H, b, f), {b})
<1> DEFINE S == SetFree(H, b, f)
<1>1. \A c \in DOMAIN H.hdr : c \in Nat /\ H.hdr[c] \in Block
  BY DEF HeapOK, HeapType
<1>2. DOMAIN S.hdr = DOMAIN H.hdr /\ S.base = H.base /\ S.brk = H.brk
  BY DEF SetFree, Heap
<1>3. ASSUME NEW c \in DOMAIN H.hdr
      PROVE  /\ S.hdr[c] \in Block
             /\ S.hdr[c].size = H.hdr[c].size
             /\ S.hdr[c].next = H.hdr[c].next
             /\ S.hdr[c].prev = H.hdr[c].prev
             /\ c = b => S.hdr[c].free = f
             /\ c # b => S.hdr[c].free = H.hdr[c].free
  <2>1. CASE c = b
    BY <1>1, <2>1 DEF SetFree, Heap, Block
  <2>2. CASE c # b
    BY <1>1, <2>2 DEF SetFree, Heap, Block
  <2> QED
    BY <2>1, <2>2
<1> HIDE DEF S
<1>4. HeapType(S) /\ Disjoint(S)
  BY <1>1, <1>2, <1>3 DEF HeapOK, HeapType, Disjoint, EndOf, Block
<1>5. NextLinks(S) /\ PrevLinks(S) /\ TailIsLast(S) /\ BaseIsFirst(S)
  BY <1>2, <1>3 DEF HeapOK, NextLinks, PrevLinks, TailIsLast, BaseIsFirst
<1>6. Keeps(H, S, {b})
  BY <1>1, <1>2, <1>3 DEF Keeps, Block
<1> QED
  BY <1>2, <1>3, <1>4, <1>5, <1>6 DEF HeapOK, S

\* Two blocks whose next is the same block are the same.
LEMMA NextIsInjective ==
    ASSUME NEW H, HeapOK(H), NEW b \in DOMAIN H.hdr, NEW c \in DOMAIN H.hdr,
           H.hdr[b].next # NULL, H.hdr[b].next = H.hdr[c].next
    PROVE  b = c
<1>1. \A d \in DOMAIN H.hdr : d \in Nat /\ H.hdr[d] \in Block
  BY DEF HeapOK, HeapType
<1> QED
  BY <1>1, SMTT(30) DEF HeapOK, NextLinks, Block

\* merge_blocks without a free next block only links that block back.
LEMMA RelinkOK ==
    ASSUME NEW H, HeapOK(H), NEW b \in DOMAIN H.hdr,
           ~(H.hdr[b].next # NULL /\ H.hdr[H.hdr[b].next].free)
    PROVE  /\ HeapOK(MergeBlocks(H, b))
           /\ Keeps(H, MergeBlocks(H, b), {})
           /\ b \in DOMAIN MergeBlocks(H, b).hdr
           /\ MergeBlocks(H, b).hdr[b].free = H.hdr[b].free
<1> DEFINE M == MergeBlocks(H, b)
           nx == H.hdr[b].next
<1> USE HeapAssumption DEF NULL
<1>1. /\ \A c \in DOMAIN H.hdr : c \in Nat /\ H.hdr[c] \in Block /\ c # NULL
      /\ b # nx
  BY DEF HeapOK, HeapType, Disjoint, NextLinks, Block
<1>2. DOMAIN M.hdr = DOMAIN H.hdr /\ M.base = H.base /\ M.brk = H.brk
  BY DEF MergeBlocks, Heap
<1>3. ASSUME NEW c \in DOMAIN H.hdr
      PROVE  /\ M.hdr[c] \in Block
             /\ M.hdr[c].free = H.hdr[c].free
             /\ M.hdr[c].size = H.hdr[c].size
             /\ M.hdr[c].next = H.hdr[c].next
             /\ M.hdr[c].prev = IF c = nx THEN b ELSE H.hdr[c].prev
  <2>1. CASE c = b
    BY <2>1, <1>1, Zenon DEF MergeBlocks, Heap, Block
  <2>2. CASE c = nx
    BY <2>2, <1>1, ZenonT(60) DEF MergeBlocks, Heap, Block
  <2>3. CASE c # b /\ c # nx
    BY <2>3, <1>1, Zenon DEF MergeBlocks, Heap, Block
  <2> QED
    BY <2>1, <2>2, <2>3, SMTT(30)
<1> HIDE DEF M
<1>4. HeapType(M) /\ Disjoint(M)
  BY <1>1, <1>2, <1>3 DEF HeapOK, HeapType, Disjoint, EndOf, Block
<1>5. NextLinks(M) /\ TailIsLast(M) /\ BaseIsFirst(M)
  BY <1>2, <1>3 DEF HeapOK, NextLinks, TailIsLast, BaseIsFirst
<1>6. PrevLinks(M)
  BY <1>2, <1>3 DEF HeapOK, PrevLinks
<1>7. Keeps(H, M, {})
  BY <1>1, <1>2, <1>3 DEF Keeps, Block
<1> QED
  BY <1>2, <1>3, <1>4, <1>5, <1>6, <1>7 DEF HeapOK, M

\* merge_blocks with a free next block absorbs it, and with it whatever lies
\* between the two.
LEMMA AbsorbOK ==
    ASSUME NEW H, HeapOK(H), NEW b \in DOMAIN H.hdr,
           H.hdr[b].next # NULL, H.hdr[H.hdr[b].next].free
    PROVE  /\ HeapOK(MergeBlocks(H, b))
           /\ Keeps(H, MergeBlocks(H, b), {})
           /\ b \in DOMAIN MergeBlocks(H, b).hdr
           /\ MergeBlocks(H, b).hdr[b].free = H.hdr[b].free
           /\ MergeBlocks(H, b).hdr[b].size = H.hdr[b].size + Meta + H.hdr[H.hdr[b].next].size
<1> DEFINE M == MergeBlocks(H, b)
           nx == H.hdr[b].next
           after == H.hdr[nx].next
<1> USE HeapAssumption DEF NULL
<1>1. /\ \A c \in DOMAIN H.hdr : c \in Nat /\ H.hdr[c] \in Block /\ c # NULL
      /\ H.brk \in Nat
  BY DEF HeapOK, HeapType, Disjoint, Block, Endp
<1>2. /\ nx \in DOMAIN H.hdr /\ b < nx
      /\ \A c \in DOMAIN H.hdr : c <= b \/ nx <= c
  BY DEF HeapOK, NextLinks
<1>3. after # NULL => /\ after \in DOMAIN H.hdr /\ nx < after
                      /\ \A c \in DOMAIN H.hdr : c <= nx \/ after <= c
  BY <1>2 DEF HeapOK, NextLinks
<1>4. EndOf(H, b) <= nx /\ EndOf(H, nx) <= H.brk
  BY <1>2 DEF HeapOK, Disjoint
<1>5. DOMAIN M.hdr = DOMAIN H.hdr \ {nx} /\ M.base = H.base /\ M.brk = H.brk
  BY DEF MergeBlocks, Heap
<1>6. /\ M.hdr[b] \in Block
      /\ M.hdr[b].free = H.hdr[b].free
      /\ M.hdr[b].size = H.hdr[b].size + Meta + H.hdr[nx].size
      /\ M.hdr[b].next = after
      /\ M.hdr[b].prev = H.hdr[b].prev
  <2>1. b # nx
    BY <1>1, <1>2, SMTT(30)
  <2> DEFINE blk == H.hdr[b]
             grown == blk.size + Meta + H.hdr[nx].size
  <2>2. M.hdr[b] = [blk EXCEPT !.size = grown, !.next = after]
    BY <2>1 DEF MergeBlocks, Heap
  <2>3. after \in Nat /\ grown \in Nat /\ blk \in Block
    BY <1>1, <1>2 DEF Block
  <2> HIDE DEF M, nx, after, blk, grown
  <2>4. /\ M.hdr[b] \in Block /\ M.hdr[b].free = blk.free /\ M.hdr[b].size = grown
        /\ M.hdr[b].next = after /\ M.hdr[b].prev = blk.prev
    BY <2>2, <2>3, ZenonT(60) DEF Block
  <2> QED
    BY <2>4 DEF blk, grown
<1>7. ASSUME NEW c \in DOMAIN H.hdr, c # b, c # nx
      PROVE  /\ M.hdr[c] \in Block
             /\ M.hdr[c].free = H.hdr[c].free
             /\ M.hdr[c].size = H.hdr[c].size
             /\ M.hdr[c].next = H.hdr[c].next
             /\ M.hdr[c].prev = IF c = after THEN b ELSE H.hdr[c].prev
  <2>1. CASE c = after
    BY <2>1, <1>7, <1>1, <1>2, ZenonT(60) DEF MergeBlocks, Heap, Block
  <2>2. CASE c # after
    BY <2>2, <1>7, <1>1, <1>2, Zenon DEF MergeBlocks, Heap, Block
  <2> QED
    BY <2>1, <2>2
<1>8. b \in DOMAIN M.hdr
  BY <1>1, <1>2, <1>5
<1> HIDE DEF M, nx, after
<1>9. HeapType(M)
  <2>1. H.base # nx \/ H.base = NULL
    BY DEF HeapOK, BaseIsFirst, nx
  <2> QED
    BY <2>1, <1>1, <1>2, <1>5, <1>6, <1>7 DEF HeapOK, HeapType
<1>10. Disjoint(M)
  <2> SUFFICES ASSUME NEW c \in DOMAIN M.hdr
               PROVE  /\ HeapStart <= c /\ EndOf(M, c) <= M.brk
                      /\ \A d \in DOMAIN M.hdr : c < d => EndOf(M, c) <= d
    BY DEF Disjoint
  <2>1. CASE c = b
    <3>1. EndOf(M, b) <= EndOf(H, nx) /\ EndOf(M, b) \in Nat /\ EndOf(H, nx) \in Nat
      BY <1>1, <1>2, <1>4, <1>6 DEF EndOf, Data, Block
    <3>2. ASSUME NEW d \in DOMAIN M.hdr, b < d PROVE EndOf(H, nx) <= d
      <4>1. nx < d
        BY <3>2, <1>1, <1>2, <1>5
      <4> QED
        BY <4>1, <1>2, <1>5 DEF HeapOK, Disjoint
    <3> QED
      BY <2>1, <3>1, <3>2, <1>1, <1>4, <1>5 DEF HeapOK, Disjoint
  <2>2. CASE c # b
    <3>1. EndOf(M, c) = EndOf(H, c)
      BY <2>2, <1>5, <1>7 DEF EndOf
    <3> QED
      BY <3>1, <1>5 DEF HeapOK, Disjoint
  <2> QED
    BY <2>1, <2>2
<1>11. NextLinks(M)
  <2> SUFFICES ASSUME NEW c \in DOMAIN M.hdr, M.hdr[c].next # NULL
               PROVE  /\ M.hdr[c].next \in DOMAIN M.hdr
                      /\ c < M.hdr[c].next
                      /\ \A d \in DOMAIN M.hdr : d <= c \/ M.hdr[c].next <= d
    BY DEF NextLinks
  <2>1. CASE c = b
    BY <2>1, <1>1, <1>2, <1>3, <1>5, <1>6
  <2>2. CASE c # b
    <3>1. c \in DOMAIN H.hdr /\ M.hdr[c].next = H.hdr[c].next
      BY <2>2, <1>5, <1>7
    <3>2. H.hdr[c].next # nx
      BY <3>1, <2>2, NextIsInjective DEF nx
    <3> QED
      BY <3>1, <3>2, <1>5 DEF HeapOK, NextLinks
  <2> QED
    BY <2>1, <2>2
<1>12. PrevLinks(M)
  <2> SUFFICES ASSUME NEW c \in DOMAIN M.hdr, M.hdr[c].prev # NULL
               PROVE  /\ M.hdr[c].prev \in DOMAIN M.hdr
                      /\ M.hdr[M.hdr[c].prev].next = c
    BY DEF PrevLinks
  <2>1. CASE c = after
    <3>1. c # b
      BY <2>1, <1>1, <1>2, <1>3, <1>5
    <3> QED
      BY <2>1, <3>1, <1>5, <1>6, <1>7, <1>8
  <2>2. CASE c # after
    <3>1. c \in DOMAIN H.hdr /\ c # nx /\ M.hdr[c].prev = H.hdr[c].prev
      BY <2>2, <1>5, <1>6, <1>7
    <3>2. H.hdr[c].prev \in DOMAIN H.hdr /\ H.hdr[H.hdr[c].prev].next = c
      BY <3>1 DEF HeapOK, PrevLinks
    <3>3. H.hdr[c].prev # nx /\ H.hdr[c].prev # b
      BY <3>1, <3>2, <2>2 DEF after, nx
    <3> QED
      BY <3>1, <3>2, <3>3, <1>5, <1>7
  <2> QED
    BY <2>1, <2>2
<1>13. TailIsLast(M)
  <2> SUFFICES ASSUME NEW c \in DOMAIN M.hdr, NEW d \in DOMAIN M.hdr,
                      M.base # NULL, M.base <= c, M.hdr[c].next = NULL
               PROVE  d <= c
    BY DEF TailIsLast
  <2>1. CASE c = b
    <3>1. H.base <= nx /\ after = NULL
      BY <2>1, <1>1, <1>2, <1>5, <1>6 DEF HeapOK, HeapType
    <3>2. d <= nx
      BY <3>1, <1>2, <1>5 DEF HeapOK, TailIsLast, after
    <3> QED
      BY <2>1, <3>2, <1>1, <1>2, <1>5
  <2>2. CASE c # b
    BY <2>2, <1>5, <1>7 DEF HeapOK, TailIsLast
  <2> QED
    BY <2>1, <2>2
<1>14. BaseIsFirst(M)
  BY <1>2, <1>5, <1>6, <1>7 DEF HeapOK, BaseIsFirst, after
<1>15. Keeps(H, M, {})
  BY <1>1, <1>2, <1>5, <1>6, <1>7 DEF Keeps, Block, nx
<1> QED
  BY <1>6, <1>8, <1>9, <1>10, <1>11, <1>12, <1>13, <1>14, <1>15 DEF HeapOK, M, nx

\* Unlinking the free block at the end of the list, or forgetting the list.
LEMMA UnlinkOK ==
    ASSUME NEW H, HeapOK(H), NEW b \in DOMAIN H.hdr,
           H.hdr[b].free, H.hdr[b].next = NULL
    PROVE  HeapOK(Unlink(H, b)) /\ Keeps(H, Unlink(H, b), {})
<1> DEFINE U == Unlink(H, b)
           pv == H.hdr[b].prev
<1> USE HeapAssumption DEF NULL
<1>1. \A c \in DOMAIN H.hdr : c \in Nat /\ H.hdr[c] \in Block /\ c # NULL
  BY DEF HeapOK, HeapType, Disjoint
<1>2. CASE pv = NULL
  <2>1. U.hdr = H.hdr /\ U.base = NULL /\ U.brk = H.brk
    BY <1>2 DEF Unlink, Heap
  <2> HIDE DEF U
  <2>2. HeapType(U) /\ Disjoint(U) /\ NextLinks(U) /\ PrevLinks(U)
    BY <2>1 DEF HeapOK, HeapType, Disjoint, EndOf, NextLinks, PrevLinks
  <2>3. TailIsLast(U) /\ BaseIsFirst(U)
    BY <2>1 DEF TailIsLast, BaseIsFirst
  <2>4. Keeps(H, U, {})
    BY <2>1, <1>1 DEF Keeps, Block
  <2> QED
    BY <2>2, <2>3, <2>4 DEF HeapOK, U
<1>3. CASE pv # NULL
  <2>1. pv \in DOMAIN H.hdr /\ H.hdr[pv].next = b
    BY <1>3 DEF HeapOK, PrevLinks
  <2>2. pv < b /\ \A c \in DOMAIN H.hdr : c <= pv \/ b <= c
    BY <2>1, <1>1 DEF HeapOK, NextLinks
  <2>3. DOMAIN U.hdr = DOMAIN H.hdr \ {b} /\ U.base = H.base /\ U.brk = H.brk
    BY <1>3 DEF Unlink, Heap
  <2>4. ASSUME NEW c \in DOMAIN H.hdr, c # b
        PROVE  /\ U.hdr[c] \in Block
               /\ U.hdr[c].free = H.hdr[c].free
               /\ U.hdr[c].size = H.hdr[c].size
               /\ U.hdr[c].next = IF c = pv THEN NULL ELSE H.hdr[c].next
               /\ U.hdr[c].prev = H.hdr[c].prev
    <3>1. CASE c = pv
      BY <3>1, <2>4, <1>1, <1>3 DEF Unlink, Heap, Block
    <3>2. CASE c # pv
      BY <3>2, <2>4, <1>1, <1>3 DEF Unlink, Heap, Block
    <3> QED
      BY <3>1, <3>2, SMTT(30)
  <2> HIDE DEF U, pv
  <2>5. HeapType(U)
    <3>1. H.base # b
      BY <1>1, <2>1 DEF HeapOK, BaseIsFirst
    <3> QED
      BY <3>1, <1>1, <2>3, <2>4 DEF HeapOK, HeapType
  <2>6. Disjoint(U)
    BY <2>3, <2>4 DEF HeapOK, Disjoint, EndOf
  <2>7. NextLinks(U)
    <3> SUFFICES ASSUME NEW c \in DOMAIN U.hdr, U.hdr[c].next # NULL
                 PROVE  /\ U.hdr[c].next \in DOMAIN U.hdr
                        /\ c < U.hdr[c].next
                        /\ \A d \in DOMAIN U.hdr : d <= c \/ U.hdr[c].next <= d
      BY DEF NextLinks
    <3>1. c \in DOMAIN H.hdr /\ c # pv /\ U.hdr[c].next = H.hdr[c].next
      BY <2>3, <2>4
    <3>2. H.hdr[c].next # b
      BY <3>1, <2>1, <1>1, NextIsInjective
    <3> QED
      BY <3>1, <3>2, <2>3 DEF HeapOK, NextLinks
  <2>8. PrevLinks(U)
    <3> SUFFICES ASSUME NEW c \in DOMAIN U.hdr, U.hdr[c].prev # NULL
                 PROVE  /\ U.hdr[c].prev \in DOMAIN U.hdr
                        /\ U.hdr[U.hdr[c].prev].next = c
      BY DEF PrevLinks
    <3>1. c \in DOMAIN H.hdr /\ c # b /\ U.hdr[c].prev = H.hdr[c].prev
      BY <2>3, <2>4
    <3>2. H.hdr[c].prev \in DOMAIN H.hdr /\ H.hdr[H.hdr[c].prev].next = c
      BY <3>1 DEF HeapOK, PrevLinks
    <3>3. H.hdr[c].prev # b /\ H.hdr[c].prev # pv
      BY <3>1, <3>2, <2>1, <1>1
    <3> QED
      BY <3>1, <3>2, <3>3, <2>3, <2>4
  <2>9. TailIsLast(U)
    <3> SUFFICES ASSUME NEW c \in DOMAIN U.hdr, NEW d \in DOMAIN U.hdr,
                        U.base # NULL, U.base <= c, U.hdr[c].next = NULL
                 PROVE  d <= c
      BY DEF TailIsLast
    <3>1. CASE c = pv
      <4>1. H.base <= b
        BY <3>1, <1>1, <2>1, <2>2, <2>3 DEF HeapOK, HeapType
      <4>2. d <= b
        BY <4>1, <2>3 DEF HeapOK, TailIsLast
      <4> QED
        BY <4>2, <3>1, <2>2, <2>3, <1>1
    <3>2. CASE c # pv
      BY <3>2, <2>3, <2>4 DEF HeapOK, TailIsLast
    <3> QED
      BY <3>1, <3>2
  <2>10. BaseIsFirst(U)
    BY <2>3, <2>4 DEF HeapOK, BaseIsFirst
  <2>11. Keeps(H, U, {})
    BY <2>3, <2>4, <1>1 DEF Keeps, Block
  <2> QED
    BY <2>5, <2>6, <2>7, <2>8, <2>9, <2>10, <2>11 DEF HeapOK, U
<1> QED
  BY <1>2, <1>3

\* cbrk may only raise the break.
LEMMA CbrkOK ==
    ASSUME NEW H, HeapOK(H), NEW a \in Nat
    PROVE  HeapOK(Cbrk(H, a)) /\ Cbrk(H, a).hdr = H.hdr
<1> USE HeapAssumption
<1>1. CASE a >= Endp \/ a < H.brk
  BY <1>1 DEF Cbrk
<1>2. CASE ~(a >= Endp \/ a < H.brk)
  <2> DEFINE C == Cbrk(H, a)
  <2>1. C.hdr = H.hdr /\ C.base = H.base /\ C.brk = a
    BY <1>2 DEF Cbrk, Heap
  <2>2. H.brk \in Nat /\ H.brk <= a /\ HeapStart <= a /\ a <= Endp
    BY <1>2 DEF HeapOK, HeapType, Endp
  <2> HIDE DEF C
  <2>3. HeapType(C)
    BY <2>1, <2>2 DEF HeapOK, HeapType, Endp
  <2>4. Disjoint(C)
    <3>1. \A b \in DOMAIN H.hdr : EndOf(H, b) \in Nat /\ EndOf(C, b) = EndOf(H, b)
      BY <2>1 DEF HeapOK, HeapType, EndOf, Data, Block
    <3> QED
      BY <3>1, <2>1, <2>2 DEF HeapOK, Disjoint
  <2>5. NextLinks(C) /\ PrevLinks(C) /\ TailIsLast(C) /\ BaseIsFirst(C)
    BY <2>1 DEF HeapOK, NextLinks, PrevLinks, TailIsLast, BaseIsFirst
  <2> QED
    BY <2>1, <2>3, <2>4, <2>5 DEF HeapOK, C
<1> QED
  BY <1>1, <1>2

\* The walks stay at or behind `base'.
LEMMA ChainBehindBase ==
    ASSUME NEW H, HeapOK(H), NEW b \in Chain(H)
    PROVE  b \in DOMAIN H.hdr /\ H.base # NULL /\ H.base <= b
<1> DEFINE S == {c \in DOMAIN H.hdr : H.base <= c}
<1> USE HeapAssumption DEF NULL
<1>1. /\ \A c \in DOMAIN H.hdr : c \in Nat /\ H.hdr[c] \in Block
      /\ H.base # NULL
      /\ H.base \in DOMAIN H.hdr
  BY DEF HeapOK, HeapType, Chain
<1>2. ClosedUnderNext(H, S)
  BY <1>1 DEF ClosedUnderNext, HeapOK, NextLinks
<1>3. H.base \in S /\ S \in SUBSET DOMAIN H.hdr
  BY <1>1
<1> HIDE DEF S
<1>4. b \in S
  BY <1>1, <1>2, <1>3 DEF Chain, Reach
<1> QED
  BY <1>1, <1>4 DEF S

\* sbrk and extend_heap: a new block at the break, behind the last one.
LEMMA ExtendOK ==
    ASSUME NEW H, HeapOK(H), NEW last, NEW s \in Nat, CanExtend(H, s),
           \/ last = NULL /\ H.base = NULL
           \/ last \in GetLastBlock(H)
    PROVE  /\ HeapOK(ExtendHeap(H, last, s))
           /\ Keeps(H, ExtendHeap(H, last, s), {})
           /\ H.brk \in Nat \ DOMAIN H.hdr
           /\ H.brk \in DOMAIN ExtendHeap(H, last, s).hdr
           /\ ~ExtendHeap(H, last, s).hdr[H.brk].free
           /\ ExtendHeap(H, last, s).hdr[H.brk].size = s
<1> DEFINE X == ExtendHeap(H, last, s)
<1> USE HeapAssumption DEF NULL
<1>1. /\ \A c \in DOMAIN H.hdr : /\ c \in Nat /\ H.hdr[c] \in Block /\ c # NULL
                                /\ EndOf(H, c) \in Nat /\ c < EndOf(H, c) /\ EndOf(H, c) <= H.brk
      /\ H.brk \in Nat /\ HeapStart <= H.brk
      /\ Data(H.brk) + s \in Nat /\ Data(H.brk) + s <= Endp
  BY DEF HeapOK, HeapType, Disjoint, EndOf, Data, Block, Endp, CanExtend
<1>2. H.brk \notin DOMAIN H.hdr
  BY <1>1
<1>3. last # NULL => /\ last \in DOMAIN H.hdr
                     /\ H.base # NULL
                     /\ H.hdr[last].next = NULL
                     /\ \A c \in DOMAIN H.hdr : c <= last
  <2> SUFFICES ASSUME last # NULL PROVE last \in GetLastBlock(H)
    BY ChainBehindBase DEF GetLastBlock, HeapOK, TailIsLast
  <2> QED
    OBVIOUS
<1>4. last = NULL => H.base = NULL
  BY <1>1, ChainBehindBase DEF GetLastBlock
<1>5. /\ DOMAIN X.hdr = DOMAIN H.hdr \cup {H.brk}
      /\ X.base = IF last = NULL THEN H.brk ELSE H.base
      /\ X.brk = Data(H.brk) + s
  BY DEF ExtendHeap, Heap
<1>6. X.hdr[H.brk] = [free |-> FALSE, size |-> s, next |-> NULL, prev |-> NULL]
  BY DEF ExtendHeap, Heap
<1>7. ASSUME NEW c \in DOMAIN H.hdr
      PROVE  /\ X.hdr[c] \in Block
             /\ X.hdr[c].free = H.hdr[c].free
             /\ X.hdr[c].size = H.hdr[c].size
             /\ X.hdr[c].next = IF c = last THEN H.brk ELSE H.hdr[c].next
             /\ X.hdr[c].prev = H.hdr[c].prev
  <2>1. CASE c = last
    BY <2>1, <1>1, <1>2, Zenon DEF ExtendHeap, Heap, Block
  <2>2. CASE c # last
    BY <2>2, <1>1, <1>2, Zenon DEF ExtendHeap, Heap, Block
  <2> QED
    BY <2>1, <2>2
<1> HIDE DEF X
<1>8. HeapType(X)
  <2>1. ASSUME NEW c \in DOMAIN X.hdr PROVE c \in Nat /\ X.hdr[c] \in Block
    <3>1. CASE c = H.brk
      BY <3>1, <1>1, <1>6 DEF Block
    <3>2. CASE c \in DOMAIN H.hdr
      BY <3>2, <1>1, <1>7
    <3> QED
      BY <3>1, <3>2, <1>5
  <2>2. X.base \in DOMAIN X.hdr \cup {NULL}
    BY <1>5 DEF HeapOK, HeapType
  <2>3. X.brk \in HeapStart .. Endp
    BY <1>1, <1>5 DEF Data, Endp
  <2> QED
    BY <2>1, <2>2, <2>3 DEF HeapType
<1>9. Disjoint(X)
  <2>1. \A c \in DOMAIN H.hdr : EndOf(X, c) = EndOf(H, c)
    BY <1>7 DEF EndOf
  <2>2. EndOf(X, H.brk) = X.brk /\ H.brk < X.brk
    BY <1>1, <1>5, <1>6 DEF EndOf, Data
  <2> QED
    BY <2>1, <2>2, <1>1, <1>5 DEF HeapOK, Disjoint
<1>10. NextLinks(X)
  <2> SUFFICES ASSUME NEW c \in DOMAIN X.hdr, X.hdr[c].next # NULL
               PROVE  /\ X.hdr[c].next \in DOMAIN X.hdr
                      /\ c < X.hdr[c].next
                      /\ \A d \in DOMAIN X.hdr : d <= c \/ X.hdr[c].next <= d
    BY DEF NextLinks
  <2>1. c \in DOMAIN H.hdr
    BY <1>5, <1>6
  <2>2. CASE c = last
    BY <2>1, <2>2, <1>1, <1>3, <1>5, <1>7
  <2>3. CASE c # last
    <3>1. /\ H.hdr[c].next \in DOMAIN H.hdr
          /\ c < H.hdr[c].next
          /\ \A d \in DOMAIN H.hdr : d <= c \/ H.hdr[c].next <= d
      BY <2>1, <2>3, <1>7 DEF HeapOK, NextLinks
    <3>2. H.hdr[c].next <= H.brk
      BY <3>1, <1>1
    <3> QED
      BY <3>1, <3>2, <2>1, <2>3, <1>5, <1>7, SMTT(30)
  <2> QED
    BY <2>2, <2>3
<1>11. PrevLinks(X)
  <2> SUFFICES ASSUME NEW c \in DOMAIN X.hdr, X.hdr[c].prev # NULL
               PROVE  /\ X.hdr[c].prev \in DOMAIN X.hdr
                      /\ X.hdr[X.hdr[c].prev].next = c
    BY DEF PrevLinks
  <2>1. c \in DOMAIN H.hdr /\ X.hdr[c].prev = H.hdr[c].prev
    BY <1>5, <1>6, <1>7
  <2>2. H.hdr[c].prev \in DOMAIN H.hdr /\ H.hdr[H.hdr[c].prev].next = c
    BY <2>1 DEF HeapOK, PrevLinks
  <2>3. H.hdr[c].prev # last
    BY <2>1, <2>2, <1>1, <1>3
  <2> QED
    BY <2>1, <2>2, <2>3, <1>5, <1>7
<1>12. TailIsLast(X)
  <2> SUFFICES ASSUME NEW c \in DOMAIN X.hdr, NEW d \in DOMAIN X.hdr,
                      X.base # NULL, X.base <= c, X.hdr[c].next = NULL
               PROVE  d <= c
    BY DEF TailIsLast
  <2>1. CASE c = H.brk
    BY <2>1, <1>1, <1>5
  <2>2. CASE c \in DOMAIN H.hdr
    <3>1. last # NULL
      BY <2>2, <1>1, <1>5
    <3>2. c # last /\ H.hdr[c].next = NULL
      BY <2>2, <1>1, <1>7
    <3>3. last <= c /\ c <= last
      BY <2>2, <3>1, <3>2, <1>3, <1>5 DEF HeapOK, TailIsLast
    <3> QED
      BY <2>2, <3>1, <3>2, <3>3, <1>1, <1>3
  <2> QED
    BY <2>1, <2>2, <1>5
<1>13. BaseIsFirst(X)
  <2> SUFFICES ASSUME X.base # NULL, NEW c \in DOMAIN X.hdr
               PROVE  X.hdr[c].next # X.base
    BY DEF BaseIsFirst
  <2>1. CASE c = H.brk
    BY <2>1, <1>6
  <2>2. CASE c \in DOMAIN H.hdr /\ last = NULL
    <3>1. X.hdr[c].next = H.hdr[c].next
      BY <2>2, <1>1, <1>7
    <3>2. H.hdr[c].next # H.brk
      BY <2>2, <1>1, <1>2 DEF HeapOK, NextLinks
    <3> QED
      BY <2>2, <3>1, <3>2, <1>5
  <2>3. CASE c \in DOMAIN H.hdr /\ last # NULL
    <3>1. H.base # H.brk
      BY <2>3, <1>2, <1>3 DEF HeapOK, HeapType
    <3> QED
      BY <2>3, <3>1, <1>3, <1>5, <1>7 DEF HeapOK, BaseIsFirst
  <2> QED
    BY <2>1, <2>2, <2>3, <1>5
<1>14. Keeps(H, X, {})
  BY <1>1, <1>5, <1>7 DEF Keeps, Block
<1> QED
  BY <1>1, <1>2, <1>5, <1>6, <1>8, <1>9, <1>10, <1>11, <1>12, <1>13, <1>14 DEF HeapOK, X

-----------------------------------------------------------------------------
(* The composed operations. *)

LEMMA KeepsTrans ==
    ASSUME NEW A, NEW B, NEW C, NEW E, HeapOK(A), HeapOK(B), HeapOK(C),
           Keeps(A, B, E), Keeps(B, C, E)
    PROVE  Keeps(A, C, E)
<1>1. /\ \A b \in DOMAIN A.hdr : A.hdr[b].size \in Nat
      /\ \A b \in DOMAIN B.hdr : B.hdr[b].size \in Nat
      /\ \A b \in DOMAIN C.hdr : C.hdr[b].size \in Nat
  BY DEF HeapOK, HeapType, Block
<1> QED
  BY <1>1 DEF Keeps

LEMMA KeepsWeaken ==
    ASSUME NEW A, NEW B, NEW E, Keeps(A, B, {})
    PROVE  Keeps(A, B, E)
  BY DEF Keeps

\* An exempt block that is free needs no exemption.
LEMMA KeepsFree ==
    ASSUME NEW A, NEW B, NEW b \in DOMAIN A.hdr, A.hdr[b].free, Keeps(A, B, {b})
    PROVE  Keeps(A, B, {})
  BY DEF Keeps

LEMMA MergeOK ==
    ASSUME NEW H, HeapOK(H), NEW b \in DOMAIN H.hdr
    PROVE  /\ HeapOK(MergeBlocks(H, b))
           /\ Keeps(H, MergeBlocks(H, b), {})
           /\ b \in DOMAIN MergeBlocks(H, b).hdr
           /\ MergeBlocks(H, b).hdr[b].free = H.hdr[b].free
<1>1. CASE H.hdr[b].next # NULL /\ H.hdr[H.hdr[b].next].free
  BY <1>1, AbsorbOK
<1>2. CASE ~(H.hdr[b].next # NULL /\ H.hdr[H.hdr[b].next].free)
  BY <1>2, RelinkOK
<1> QED
  BY <1>1, <1>2

LEMMA SettleOK ==
    ASSUME NEW H, HeapOK(H), NEW b \in DOMAIN H.hdr, H.hdr[b].free
    PROVE  HeapOK(Settle(H, b)) /\ Keeps(H, Settle(H, b), {})
<1>1. CASE H.hdr[b].next # NULL
  BY <1>1, MergeOK DEF Settle
<1>2. CASE H.hdr[b].next = NULL
  <2> DEFINE U == Unlink(H, b)
  <2>1. HeapOK(U) /\ Keeps(H, U, {})
    BY <1>2, UnlinkOK
  <2>2. b \in Nat
    BY DEF HeapOK, HeapType
  <2>3. HeapOK(Cbrk(U, b)) /\ Cbrk(U, b).hdr = U.hdr
    BY <2>1, <2>2, CbrkOK
  <2>4. Keeps(H, Cbrk(U, b), {})
    BY <2>1, <2>3 DEF Keeps
  <2> QED
    BY <1>2, <2>1, <2>3, <2>4 DEF Settle, DropTail
<1> QED
  BY <1>1, <1>2

\* kfree gives up the block of p and no other allocated block.
LEMMA KfreeOK ==
    ASSUME NEW H, HeapOK(H), NEW p, Header(p) \in DOMAIN H.hdr
    PROVE  HeapOK(Kfree(H, p)) /\ Keeps(H, Kfree(H, p), {Header(p)})
<1> DEFINE b == Header(p)
           H1 == SetFree(H, b, TRUE)
           pv == H.hdr[b].prev
           M == MergeBlocks(H1, pv)
<1>1. CASE ~IsAddrValid(H, p)
  <2>1. Keeps(H, H, {b})
    BY DEF Keeps, HeapOK, HeapType, Block
  <2> QED
    BY <1>1, <2>1 DEF Kfree
<1>2. CASE IsAddrValid(H, p)
  <2>1. /\ HeapOK(H1) /\ DOMAIN H1.hdr = DOMAIN H.hdr
        /\ H1.hdr[b].free = TRUE /\ Keeps(H, H1, {b})
    BY SetFreeOK, ZenonT(60)
  <2>2. pv # NULL => pv \in DOMAIN H1.hdr
    BY <2>1, Zenon DEF HeapOK, PrevLinks
  <2>3. Kfree(H, p) = IF pv # NULL /\ H1.hdr[pv].free THEN Settle(M, pv) ELSE Settle(H1, b)
    BY <1>2 DEF Kfree, FreeBlock
  <2> HIDE DEF H1, b, pv, M
  <2>4. CASE pv # NULL /\ H1.hdr[pv].free
    <3>1. HeapOK(M) /\ Keeps(H1, M, {}) /\ pv \in DOMAIN M.hdr /\ M.hdr[pv].free = H1.hdr[pv].free
      BY <2>1, <2>2, <2>4, MergeOK, Zenon DEF M
    <3>2. HeapOK(Settle(M, pv)) /\ Keeps(M, Settle(M, pv), {})
      BY <2>4, <3>1, SettleOK, Zenon
    <3>3. Keeps(H1, Settle(M, pv), {b})
      BY <2>1, <3>1, <3>2, KeepsTrans, KeepsWeaken
    <3>4. Keeps(H, Settle(M, pv), {b})
      BY <2>1, <3>2, <3>3, KeepsTrans
    <3> QED
      BY <2>3, <2>4, <3>2, <3>4 DEF b
  <2>5. CASE ~(pv # NULL /\ H1.hdr[pv].free)
    <3>1. b \in DOMAIN H1.hdr
      BY <2>1 DEF b
    <3>2. HeapOK(Settle(H1, b)) /\ Keeps(H1, Settle(H1, b), {})
      BY <2>1, <3>1, SettleOK
    <3>3. Keeps(H, Settle(H1, b), {b})
      BY <2>1, <3>2, KeepsTrans, KeepsWeaken
    <3> QED
      BY <2>3, <2>5, <3>2, <3>3 DEF b
  <2> QED
    BY <2>4, <2>5
<1> QED
  BY <1>1, <1>2

LEMMA TrimOK ==
    ASSUME NEW H, HeapOK(H), NEW b \in DOMAIN H.hdr, NEW s \in Nat, s <= H.hdr[b].size
    PROVE  /\ HeapOK(Trim(H, b, s))
           /\ Keeps(H, Trim(H, b, s), {b})
           /\ b \in DOMAIN Trim(H, b, s).hdr
           /\ Trim(H, b, s).hdr[b].free = H.hdr[b].free
           /\ s <= Trim(H, b, s).hdr[b].size
<1>1. CASE H.hdr[b].size - s >= Meta + 4
  <2>1. Trim(H, b, s) = Split(H, b, s)
    BY <1>1 DEF Trim
  <2>2. /\ HeapOK(Split(H, b, s))
        /\ Keeps(H, Split(H, b, s), {b})
        /\ b \in DOMAIN Split(H, b, s).hdr
        /\ Split(H, b, s).hdr[b].free = H.hdr[b].free
        /\ Split(H, b, s).hdr[b].size = s
    BY <1>1, SplitOK, ZenonT(60)
  <2> QED
    BY <2>1, <2>2
<1>2. CASE ~(H.hdr[b].size - s >= Meta + 4)
  <2>1. Keeps(H, H, {b})
    BY DEF Keeps, HeapOK, HeapType, Block
  <2> QED
    BY <1>2, <2>1 DEF Trim
<1> QED
  BY <1>1, <1>2

\* p is the data of an allocated block of H with room for n bytes.
Granted(H, p, n) ==
    /\ p \in Nat
    /\ Header(p) \in DOMAIN H.hdr
    /\ ~H.hdr[Header(p)].free
    /\ n <= H.hdr[Header(p)].size

\* The block of p is not one that was allocated in H.
Fresh(H, p) == Header(p) \in DOMAIN H.hdr => H.hdr[Header(p)].free

LEMMA AppendOK ==
    ASSUME NEW H, HeapOK(H), NEW s \in Nat, NEW last,
           (last = NULL /\ H.base = NULL) \/ last \in GetLastBlock(H)
    PROVE  LET r == AppendBlock(H, last, s)
           IN  /\ HeapOK(r.heap)
               /\ Keeps(H, r.heap, {})
               /\ r.ptr # NULL => Granted(r.heap, r.ptr, s) /\ Fresh(H, r.ptr)
<1> DEFINE X == ExtendHeap(H, last, s)
           r == AppendBlock(H, last, s)
<1>1. CASE CanExtend(H, s)
  <2>1. r.heap = X /\ r.ptr = Data(H.brk)
    BY <1>1 DEF AppendBlock
  <2>2. /\ HeapOK(X) /\ Keeps(H, X, {}) /\ H.brk \in Nat \ DOMAIN H.hdr
        /\ H.brk \in DOMAIN X.hdr /\ ~X.hdr[H.brk].free /\ X.hdr[H.brk].size = s
    BY <1>1, ExtendOK
  <2> HIDE DEF X, r
  <2>3. r.ptr \in Nat /\ Header(r.ptr) = H.brk
    BY <2>1, <2>2, HeapAssumption DEF Header, Data
  <2> QED
    BY <2>1, <2>2, <2>3 DEF Granted, Fresh, r
<1>2. CASE ~CanExtend(H, s)
  <2>1. r.heap = H /\ r.ptr = NULL
    BY <1>2 DEF AppendBlock
  <2>2. Keeps(H, H, {})
    BY DEF Keeps, HeapOK, HeapType, Block
  <2> QED
    BY <2>1, <2>2
<1> QED
  BY <1>1, <1>2

LEMMA TakeOK ==
    ASSUME NEW H, HeapOK(H), NEW s \in Nat, NEW b \in FindBlock(H, s)
    PROVE  LET r == TakeBlock(H, b, s)
           IN  /\ HeapOK(r.heap)
               /\ Keeps(H, r.heap, {})
               /\ Granted(r.heap, r.ptr, s) /\ Fresh(H, r.ptr)
<1> DEFINE T == Trim(H, b, s)
           F == SetFree(T, b, FALSE)
           r == TakeBlock(H, b, s)
<1>1. b \in DOMAIN H.hdr /\ H.hdr[b].free /\ H.hdr[b].size >= s
  BY ChainBehindBase DEF FindBlock
<1>2. H.hdr[b].size \in Nat /\ b \in Nat
  BY <1>1 DEF HeapOK, HeapType, Block
<1>3. /\ HeapOK(T) /\ Keeps(H, T, {b}) /\ b \in DOMAIN T.hdr
      /\ s <= T.hdr[b].size
  BY <1>1, <1>2, TrimOK
<1>4. r.heap = F /\ r.ptr = Data(b)
  BY DEF TakeBlock
<1> HIDE DEF T, r
<1>5. /\ HeapOK(F) /\ Keeps(T, F, {b}) /\ DOMAIN F.hdr = DOMAIN T.hdr
      /\ F.hdr[b].free = FALSE /\ F.hdr[b].size = T.hdr[b].size
  BY <1>3, SetFreeOK, ZenonT(60)
<1> HIDE DEF F
<1>6. Keeps(H, F, {})
  BY <1>1, <1>3, <1>5, KeepsTrans, KeepsFree
<1>7. r.ptr \in Nat /\ Header(r.ptr) = b
  BY <1>2, <1>4, HeapAssumption DEF Header, Data
<1> QED
  BY <1>1, <1>3, <1>4, <1>5, <1>6, <1>7 DEF Granted, Fresh, r

\* kmalloc takes no block that was allocated, and the one it returns is large
\* enough.
LEMMA KmallocOK ==
    ASSUME NEW H, HeapOK(H), NEW n \in Nat, NEW r \in Kmalloc(H, n)
    PROVE  /\ HeapOK(r.heap)
           /\ Keeps(H, r.heap, {})
           /\ r.ptr # NULL => Granted(r.heap, r.ptr, n) /\ Fresh(H, r.ptr)
<1> DEFINE s == Align4(n)
<1>1. s \in Nat /\ n <= s
  BY DEF Align4
<1> HIDE DEF s
<1>2. \/ H.base = NULL /\ r = AppendBlock(H, NULL, s)
      \/ \E b \in FindBlock(H, s) : r = TakeBlock(H, b, s)
      \/ \E b \in GetLastBlock(H) : r = AppendBlock(H, b, s)
  BY DEF Kmalloc, s
<1>3. /\ HeapOK(r.heap)
      /\ Keeps(H, r.heap, {})
      /\ r.ptr # NULL => Granted(r.heap, r.ptr, s) /\ Fresh(H, r.ptr)
  <2>1. CASE H.base = NULL /\ r = AppendBlock(H, NULL, s)
    BY <1>1, <2>1, AppendOK
  <2>2. ASSUME NEW b \in FindBlock(H, s), r = TakeBlock(H, b, s) PROVE <1>3!:
    BY <1>1, <2>2, TakeOK
  <2>3. ASSUME NEW b \in GetLastBlock(H), r = AppendBlock(H, b, s) PROVE <1>3!:
    BY <1>1, <2>3, AppendOK, SMTT(30)
  <2> QED
    BY <1>2, <2>1, <2>2, <2>3
<1>4. r.ptr # NULL => Granted(r.heap, r.ptr, n)
  BY <1>1, <1>3, SMTT(30) DEF Granted, HeapOK, HeapType, Block
<1> QED
  BY <1>3, <1>4

\* krealloc keeps the other allocated blocks, and on failure the old one too;
\* the block it returns is large enough and holds the old contents up to the
\* smaller of the two sizes.
LEMMA KreallocOK ==
    ASSUME NEW H, HeapOK(H), NEW p \in Nat, NEW n \in Nat,
           Header(p) \in DOMAIN H.hdr, ~H.hdr[Header(p)].free,
           NEW r \in Krealloc(H, p, n)
    PROVE  /\ HeapOK(r.heap)
           /\ Keeps(H, r.heap, IF r.ptr = NULL THEN {} ELSE {Header(p)})
           /\ r.ptr # NULL => /\ Granted(r.heap, r.ptr, n)
                              /\ r.ptr = p \/ Fresh(H, r.ptr)
                              /\ r.kept \in Nat
                              /\ Min2(H.hdr[Header(p)].size, n) <= r.kept
<1> DEFINE s == Align4(n)
           b == Header(p)
<1> USE DEF NULL
<1>1. s \in Nat /\ n <= s
  BY SMTT(30) DEF Align4
<1>2. /\ H.hdr[b].size \in Nat /\ b \in Nat /\ b >= HeapStart
      /\ p \in Nat /\ p # NULL
  BY HeapAssumption, SMTT(30) DEF HeapOK, HeapType, Block, Disjoint, Header
<1>3. CASE H.hdr[b].size >= s
  <2> DEFINE T == Trim(H, b, s)
  <2>1. r.heap = T /\ r.ptr = p /\ r.kept = s
    BY <1>3 DEF Krealloc
  <2> HIDE DEF s
  <2>2. /\ HeapOK(T) /\ Keeps(H, T, {b}) /\ b \in DOMAIN T.hdr
        /\ T.hdr[b].free = H.hdr[b].free /\ s <= T.hdr[b].size
    BY <1>1, <1>2, <1>3, TrimOK, ZenonT(60)
  <2>3. n <= T.hdr[b].size
    BY <2>2, <1>1 DEF HeapOK, HeapType, Block
  <2>4. Min2(H.hdr[b].size, n) <= s
    BY <1>1, <1>2, <1>3, SMTT(30) DEF Min2
  <2> HIDE DEF T
  <2> QED
    BY <1>1, <1>2, <2>1, <2>2, <2>3, <2>4, SMTT(30) DEF Granted
<1>4. CASE ~(H.hdr[b].size >= s) /\ CanCombine(H, b, s)
  <2> DEFINE M == MergeBlocks(H, b)
             T == Trim(M, b, s)
  <2>1. r.heap = T /\ r.ptr = p /\ r.kept = H.hdr[b].size
    BY <1>4, SMTT(30) DEF Krealloc
  <2> HIDE DEF s
  <2>2. /\ HeapOK(M) /\ Keeps(H, M, {}) /\ b \in DOMAIN M.hdr
        /\ M.hdr[b].free = H.hdr[b].free
        /\ M.hdr[b].size = H.hdr[b].size + Meta + H.hdr[H.hdr[b].next].size
    BY <1>4, AbsorbOK, SMTT(30) DEF CanCombine
  <2>3. M.hdr[b].size >= s /\ M.hdr[b].size \in Nat
    <3>1. H.hdr[b].size + Meta + H.hdr[H.hdr[b].next].size >= s
      BY <1>4, Zenon DEF CanCombine
    <3>2. M.hdr[b].size >= s
      BY <2>2, <3>1, Zenon
    <3>3. M.hdr[b] \in Block
      BY <2>2, ZenonT(60) DEF HeapOK, HeapType
    <3> QED BY <3>2, <3>3 DEF Block
  <2> HIDE DEF M
  <2>4. /\ HeapOK(T) /\ Keeps(M, T, {b}) /\ b \in DOMAIN T.hdr
        /\ T.hdr[b].free = M.hdr[b].free /\ s <= T.hdr[b].size
    BY <1>1, <2>2, <2>3, TrimOK, SMTT(30)
  <2>5. n <= T.hdr[b].size
    BY <2>4, <1>1 DEF HeapOK, HeapType, Block
  <2>6. Min2(H.hdr[b].size, n) <= H.hdr[b].size
    BY <1>2 DEF Min2
  <2> HIDE DEF T
  <2>7. Keeps(H, T, {b})
    BY <2>2, <2>4, KeepsTrans, KeepsWeaken
  <2> QED
    BY <1>2, <2>1, <2>2, <2>4, <2>5, <2>6, <2>7, SMTT(30) DEF Granted
<1>5. CASE ~(H.hdr[b].size >= s) /\ ~CanCombine(H, b, s)
  <2>1. PICK m \in Kmalloc(H, n) :
          r = IF m.ptr = NULL THEN [heap |-> m.heap, ptr |-> NULL, kept |-> 0]
              ELSE [heap |-> Kfree(m.heap, p), ptr |-> m.ptr,
                    kept |-> CopySize(m.heap, b, Header(m.ptr))]
    BY <1>5, Zenon DEF Krealloc
  <2>2. /\ HeapOK(m.heap) /\ Keeps(H, m.heap, {})
        /\ m.ptr # NULL => Granted(m.heap, m.ptr, n) /\ Fresh(H, m.ptr)
    BY KmallocOK
  <2>3. CASE m.ptr = NULL
    BY <2>1, <2>2, <2>3, SMTT(30)
  <2>4. CASE m.ptr # NULL
    <3> DEFINE K == Kfree(m.heap, p)
    <3>1. r.heap = K /\ r.ptr = m.ptr /\ r.kept = CopySize(m.heap, b, Header(m.ptr))
      BY <2>1, <2>4
    <3>2. b \in DOMAIN m.heap.hdr /\ H.hdr[b].size <= m.heap.hdr[b].size
      BY <2>2 DEF Keeps
    <3>3. HeapOK(K) /\ Keeps(m.heap, K, {b})
      BY <2>2, <3>2, KfreeOK
    <3> HIDE DEF K
    <3>4. Keeps(H, K, {b})
      BY <2>2, <3>3, KeepsTrans, KeepsWeaken
    <3>5. Header(m.ptr) # b
      BY <2>2, <2>4, SMTT(30) DEF Fresh
    <3>6. Granted(K, m.ptr, n)
      BY <2>2, <2>4, <3>3, <3>5, SMTT(30) DEF Granted, Keeps, HeapOK, HeapType, Block
    <3>7. /\ CopySize(m.heap, b, Header(m.ptr)) \in Nat
          /\ Min2(H.hdr[b].size, n) <= CopySize(m.heap, b, Header(m.ptr))
      <4>1. /\ m.heap.hdr[b].size \in Nat
            /\ m.heap.hdr[Header(m.ptr)].size \in Nat
            /\ n <= m.heap.hdr[Header(m.ptr)].size
        BY <2>2, <2>4, <3>2 DEF Granted, HeapOK, HeapType, Block
      <4> QED
        BY <4>1, <1>2, <3>2, SMTT(30) DEF CopySize, Min2
    <3> QED
      BY <2>2, <2>4, <3>1, <3>3, <3>4, <3>6, <3>7
  <2> QED
    BY <2>3, <2>4, SMTT(30)
<1> QED
  BY <1>3, <1>4, <1>5

-----------------------------------------------------------------------------
(* The heap and its clients. *)

\* The inductive invariant.  The links are needed to know which block kfree
\* and krealloc absorb, and that the block kmalloc extends is the last one;
\* the sizes clients asked for are needed for the contents krealloc copies.
Inv ==
    /\ TypeOK
    /\ BlocksDisjoint
    /\ LinksConsistent
    /\ LiveHasBlock
    /\ ContentsKept

LEMMA InvIsHeapOK == Inv => HeapOK(heap)
  BY DEF Inv, TypeOK, BlocksDisjoint, LinksConsistent, HeapOK

LEMMA InitInv == Init => Inv
<1> SUFFICES ASSUME Init PROVE Inv
  OBVIOUS
<1>1. /\ DOMAIN heap.hdr = {} /\ heap.base = NULL /\ heap.brk = HeapStart
      /\ DOMAIN live = {}
  BY DEF Init, KmemInit, Heap
<1>2. heap.brk \in HeapStart .. Endp
  BY <1>1, HeapAssumption DEF Endp
<1> QED
  BY <1>1, <1>2 DEF Inv, TypeOK, HeapType, BlocksDisjoint, Disjoint, LinksConsistent,
     NextLinks, PrevLinks, TailIsLast, BaseIsFirst, LiveHasBlock, ContentsKept

\* The invariant of the next state, from what an operation does to the heap
\* (it keeps the allocated blocks outside E) and to the clients' pointers.
LEMMA InvFromHeap ==
    ASSUME Inv, HeapOK(heap'), NEW E, Keeps(heap, heap', E),
           \A q \in DOMAIN live' :
               \/ /\ q \in DOMAIN live /\ live'[q] = live[q]
                  /\ Header(q) \notin E
               \/ /\ live'[q] \in [req : Nat, good : Nat]
                  /\ live'[q].good = live'[q].req
                  /\ Granted(heap', q, live'[q].req)
    PROVE  Inv'
<1>1. BlocksDisjoint' /\ LinksConsistent' /\ HeapType(heap')
  BY DEF HeapOK, BlocksDisjoint, LinksConsistent
<1>2. TypeOK'
  BY <1>1 DEF TypeOK, Inv, Granted
<1>3. ContentsKept'
  BY DEF ContentsKept, Inv
<1>4. LiveHasBlock'
  <2> SUFFICES ASSUME NEW q \in DOMAIN live'
               PROVE  /\ Header(q) \in DOMAIN heap'.hdr
                      /\ ~heap'.hdr[Header(q)].free
                      /\ live'[q].req <= heap'.hdr[Header(q)].size
    BY DEF LiveHasBlock, Header
  <2>1. CASE q \in DOMAIN live /\ live'[q] = live[q] /\ Header(q) \notin E
    <3>1. /\ Header(q) \in DOMAIN heap.hdr /\ ~heap.hdr[Header(q)].free
          /\ live[q].req <= heap.hdr[Header(q)].size
          /\ live[q].req \in Nat
      BY <2>1 DEF Inv, LiveHasBlock, TypeOK
    <3>2. /\ Header(q) \in DOMAIN heap'.hdr /\ ~heap'.hdr[Header(q)].free
          /\ heap.hdr[Header(q)].size <= heap'.hdr[Header(q)].size
      BY <2>1, <3>1, SMTT(30) DEF Keeps
    <3>3. heap.hdr[Header(q)].size \in Nat /\ heap'.hdr[Header(q)].size \in Nat
      BY <3>1, <3>2, InvIsHeapOK, SMTT(30) DEF HeapOK, HeapType, Block
    <3> QED
      BY <2>1, <3>1, <3>2, <3>3
  <2>2. CASE Granted(heap', q, live'[q].req)
    BY <2>2, SMTT(30) DEF Granted
  <2> QED
    BY <2>1, <2>2
<1> QED
  BY <1>1, <1>2, <1>3, <1>4 DEF Inv

LEMMA AllocInv ==
    ASSUME Inv, NEW n \in Sizes, Alloc(n)
    PROVE  Inv'
<1>1. n \in Nat
  BY HeapAssumption
<1>2. PICK r \in Kmalloc(heap, n) :
        heap' = r.heap /\ live' = IF r.ptr = NULL THEN live ELSE Hold(r.ptr, n, n)
  BY DEF Alloc
<1>3. /\ HeapOK(heap') /\ Keeps(heap, heap', {})
      /\ r.ptr # NULL => Granted(heap', r.ptr, n)
  BY <1>1, <1>2, InvIsHeapOK, KmallocOK
<1>4. ASSUME NEW q \in DOMAIN live'
      PROVE  \/ /\ q \in DOMAIN live /\ live'[q] = live[q]
                /\ Header(q) \notin {}
             \/ /\ live'[q] \in [req : Nat, good : Nat]
                /\ live'[q].good = live'[q].req
                /\ Granted(heap', q, live'[q].req)
  BY <1>1, <1>2, <1>3 DEF Hold
<1> QED
  BY <1>3, <1>4, InvFromHeap

LEMMA FreeInv ==
    ASSUME Inv, NEW p \in DOMAIN live, Free(p)
    PROVE  Inv'
<1>1. Header(p) \in DOMAIN heap.hdr
  BY DEF Inv, LiveHasBlock
<1>2. HeapOK(heap') /\ Keeps(heap, heap', {Header(p)})
  BY <1>1, InvIsHeapOK, KfreeOK DEF Free
<1>3. ASSUME NEW q \in DOMAIN live'
      PROVE  /\ q \in DOMAIN live /\ live'[q] = live[q]
             /\ Header(q) \notin {Header(p)}
  <2>1. q \in DOMAIN live /\ q # p /\ live'[q] = live[q]
    BY DEF Free, Drop
  <2> QED
    BY <2>1, HeapAssumption DEF Inv, TypeOK, Header
<1> QED
  BY <1>2, <1>3, InvFromHeap

LEMMA ResizeInv ==
    ASSUME Inv, NEW p \in DOMAIN live, NEW n \in Sizes, Resize(p, n)
    PROVE  Inv'
<1>1. n \in Nat
  BY HeapAssumption
<1>2. PICK r \in Krealloc(heap, p, n) :
        /\ heap' = r.heap
        /\ live' = IF r.ptr = NULL THEN live
                   ELSE [q \in (DOMAIN live \ {p}) \cup {r.ptr} |->
                            IF q = r.ptr
                            THEN [req |-> n, good |-> Contents(live[p], n, r.kept)]
                            ELSE live[q]]
  BY ZenonT(60) DEF Resize
<1>3. /\ p \in Nat /\ live[p].req \in Nat
      /\ Header(p) \in DOMAIN heap.hdr /\ ~heap.hdr[Header(p)].free
      /\ live[p].req <= heap.hdr[Header(p)].size
      /\ heap.hdr[Header(p)].size \in Nat
  BY InvIsHeapOK DEF Inv, TypeOK, LiveHasBlock, HeapOK, HeapType, Block
<1>4. /\ HeapOK(heap')
      /\ Keeps(heap, heap', IF r.ptr = NULL THEN {} ELSE {Header(p)})
      /\ r.ptr # NULL => /\ Granted(heap', r.ptr, n)
                         /\ r.kept \in Nat
                         /\ Min2(heap.hdr[Header(p)].size, n) <= r.kept
  BY <1>1, <1>2, <1>3, InvIsHeapOK, KreallocOK, ZenonT(60)
<1>5. CASE r.ptr = NULL
  <2>1. \A q \in DOMAIN live' : q \in DOMAIN live /\ live'[q] = live[q] /\ Header(q) \notin {}
    BY <1>2, <1>5, SMTT(30)
  <2> QED
    BY <1>4, <1>5, <2>1, InvFromHeap
<1>6. CASE r.ptr # NULL
  <2>1. Contents(live[p], n, r.kept) = n
    BY <1>1, <1>3, <1>4, <1>6 DEF Contents, Min2
  <2>2. ASSUME NEW q \in DOMAIN live'
        PROVE  \/ /\ q \in DOMAIN live /\ live'[q] = live[q]
                  /\ Header(q) \notin {Header(p)}
               \/ /\ live'[q] \in [req : Nat, good : Nat]
                  /\ live'[q].good = live'[q].req
                  /\ Granted(heap', q, live'[q].req)
    <3>1. CASE q = r.ptr
      BY <1>1, <1>2, <1>4, <1>6, <2>1, <3>1
    <3>2. CASE q # r.ptr
      <4>1. q \in DOMAIN live /\ q # p /\ live'[q] = live[q]
        BY <1>2, <1>6, <3>2
      <4> QED
        BY <4>1, <1>3, HeapAssumption DEF Inv, TypeOK, Header
    <3> QED
      BY <3>1, <3>2
  <2> QED
    BY <1>4, <1>6, <2>2, InvFromHeap, SMTT(30)
<1> QED
  BY <1>5, <1>6

LEMMA InvHolds == Spec => []Inv
<1>1. Inv /\ [Next]_vars => Inv'
  <2> SUFFICES ASSUME Inv, [Next]_vars PROVE Inv'
    OBVIOUS
  <2>1. CASE \E n \in Sizes : Alloc(n)
    BY <2>1, AllocInv
  <2>2. CASE \E p \in DOMAIN live : Free(p)
    BY <2>2, FreeInv
  <2>3. CASE \E p \in DOMAIN live, n \in Sizes : Resize(p, n)
    BY <2>3, ResizeInv, SMTT(30)
  <2>4. CASE UNCHANGED vars
    BY <2>4 DEF vars, Inv, TypeOK, BlocksDisjoint, LinksConsistent, LiveHasBlock, ContentsKept
  <2> QED
    BY <2>1, <2>2, <2>3, <2>4 DEF Next
<1> QED
  BY <1>1, InitInv, PTL DEF Spec

\* Whatever clients ask for, in any order: the blocks of the heap stay apart
\* (BlocksDisjoint), the links stay consistent (LinksConsistent), a pointer
\* that kmalloc or krealloc returned keeps its block and its size until it is
\* freed (LiveHasBlock), and krealloc loses no contents (ContentsKept).
THEOREM HeapSafety == Spec => [](TypeOK /\ BlocksDisjoint /\ LinksConsistent
                                   /\ LiveHasBlock /\ ContentsKept)
  BY InvHolds, PTL DEF Inv

\* The data of two pointers that clients hold never overlap.
THEOREM LiveBlocksApart == Spec => []LiveApart
<1>1. TypeOK /\ BlocksDisjoint /\ LiveHasBlock => LiveApart
  <2> SUFFICES ASSUME TypeOK, BlocksDisjoint, LiveHasBlock, NEW p \in DOMAIN live
               PROVE  /\ p + live[p].req <= Endp
                      /\ \A q \in DOMAIN live : p < q => p + live[p].req <= Header(q)
    BY DEF LiveApart
  <2>1. \A q \in DOMAIN live : /\ q \in Nat /\ live[q].req \in Nat
                                /\ Header(q) \in DOMAIN heap.hdr
                                /\ live[q].req <= heap.hdr[Header(q)].size
                                /\ heap.hdr[Header(q)].size \in Nat
    BY DEF TypeOK, LiveHasBlock, HeapType, Block
  <2>2. EndOf(heap, Header(p)) = p + heap.hdr[Header(p)].size
    BY <2>1, HeapAssumption DEF EndOf, Data, Header
  <2>3. EndOf(heap, Header(p)) <= heap.brk /\ heap.brk \in Nat /\ heap.brk <= Endp
    BY <2>1, HeapAssumption DEF BlocksDisjoint, Disjoint, TypeOK, HeapType, Endp
  <2>4. ASSUME NEW q \in DOMAIN live, p < q PROVE p + live[p].req <= Header(q)
    <3>1. Header(p) < Header(q)
      BY <2>1, <2>4, HeapAssumption DEF Header
    <3>2. EndOf(heap, Header(p)) <= Header(q)
      BY <2>1, <3>1 DEF BlocksDisjoint, Disjoint
    <3> QED
      BY <2>1, <2>2, <3>2, HeapAssumption DEF Header
  <2> QED
    BY <2>1, <2>2, <2>3, <2>4, HeapAssumption DEF Endp
<1> QED
  BY <1>1, HeapSafety, PTL

\* The walks of find_block, merge_blocks and kfree stay on blocks of the heap, for every
\* size of the heap and of requests: no call leaves a link that leads elsewhere.
THEOREM LinksStayConsistent == Spec => []LinksConsistent
  BY HeapSafety, PTL

\* krealloc loses no byte of a client, whether it splits, grows in place or moves.
THEOREM ContentsSurvive == Spec => []ContentsKept
  BY HeapSafety, PTL

-----------------------------------------------------------------------------
(* Alignment: every address that becomes a block or the break, and every     *)
(* size, is a multiple of 4.                                                 *)

Aligned(H) ==
    /\ (H.brk - HeapStart) % 4 = 0
    /\ \A b \in DOMAIN H.hdr : (b - HeapStart) % 4 = 0 /\ H.hdr[b].size % 4 = 0

HeapAligned == Aligned(heap)

LEMMA Align4IsAligned == ASSUME NEW n \in Nat PROVE Align4(n) \in Nat /\ Align4(n) % 4 = 0
  BY DEF Align4

LEMMA SplitAligned ==
    ASSUME NEW H, HeapOK(H), Aligned(H), NEW b \in DOMAIN H.hdr, NEW s \in Nat, s % 4 = 0
    PROVE  Aligned(Split(H, b, s))
<1> DEFINE new == Data(b) + s
           S == Split(H, b, s)
<1>1. b \in Nat /\ H.hdr[b].size \in Nat /\ \A c \in DOMAIN H.hdr : c \in Nat /\ H.hdr[c] \in Block
  BY DEF HeapOK, HeapType, Block
<1>2. (new - HeapStart) % 4 = 0
  BY <1>1, HeapAssumption, MetaAligned DEF Aligned, Data
<1>3. (H.hdr[b].size - s - Meta) % 4 = 0
  BY <1>1, HeapAssumption, MetaAligned DEF Aligned
<1>4. DOMAIN S.hdr = DOMAIN H.hdr \cup {new} /\ S.brk = H.brk
  BY DEF Split, Heap
<1>5. S.hdr[new].size = H.hdr[b].size - s - Meta
  BY DEF Split, Heap
<1>6. ASSUME NEW c \in DOMAIN H.hdr, c # new PROVE S.hdr[c].size = IF c = b THEN s ELSE H.hdr[c].size
  BY <1>1, <1>6 DEF Split, Heap, Block
<1> HIDE DEF new, S
<1> QED BY <1>2, <1>3, <1>4, <1>5, <1>6 DEF Aligned, S

LEMMA TrimAligned ==
    ASSUME NEW H, HeapOK(H), Aligned(H), NEW b \in DOMAIN H.hdr, NEW s \in Nat, s % 4 = 0
    PROVE  Aligned(Trim(H, b, s))
  BY SplitAligned DEF Trim

LEMMA SetFreeAligned ==
    ASSUME NEW H, HeapOK(H), Aligned(H), NEW b \in DOMAIN H.hdr, NEW free \in BOOLEAN
    PROVE  Aligned(SetFree(H, b, free))
<1> DEFINE F == SetFree(H, b, free)
<1>1. F.brk = H.brk /\ DOMAIN F.hdr = DOMAIN H.hdr
  BY DEF SetFree, Heap
<1>2. ASSUME NEW c \in DOMAIN H.hdr PROVE F.hdr[c].size = H.hdr[c].size
  BY DEF SetFree, Heap, HeapOK, HeapType, Block
<1> QED BY <1>1, <1>2 DEF Aligned

LEMMA MergeAligned ==
    ASSUME NEW H, HeapOK(H), Aligned(H), NEW b \in DOMAIN H.hdr
    PROVE  Aligned(MergeBlocks(H, b))
<1> DEFINE n == H.hdr[b].next
           absorb == n # NULL /\ H.hdr[n].free
           M == MergeBlocks(H, b)
<1>1. \A c \in DOMAIN H.hdr : c \in Nat /\ H.hdr[c] \in Block /\ H.hdr[c].size \in Nat
  BY DEF HeapOK, HeapType, Block
<1>2. absorb => n \in DOMAIN H.hdr
  BY DEF HeapOK, NextLinks
<1>3. M.brk = H.brk /\ DOMAIN M.hdr \subseteq DOMAIN H.hdr
  BY SMTT(30) DEF MergeBlocks, Heap
<1>4. ASSUME NEW c \in DOMAIN M.hdr, c # b PROVE M.hdr[c].size = H.hdr[c].size
  BY <1>1, <1>3, <1>4, Zenon DEF MergeBlocks, Heap, Block
<1>5. b \in DOMAIN M.hdr => M.hdr[b].size = IF absorb THEN H.hdr[b].size + Meta + H.hdr[n].size ELSE H.hdr[b].size
  BY <1>1, Zenon DEF MergeBlocks, Heap, Block
<1>6. absorb => (H.hdr[b].size + Meta + H.hdr[n].size) % 4 = 0
  BY <1>1, <1>2, HeapAssumption, MetaAligned DEF Aligned
<1> HIDE DEF M, absorb, n
<1> QED BY <1>3, <1>4, <1>5, <1>6, SMTT(30) DEF Aligned, M

LEMMA SettleAligned ==
    ASSUME NEW H, HeapOK(H), Aligned(H), NEW b \in DOMAIN H.hdr
    PROVE  Aligned(Settle(H, b))
<1>1. CASE H.hdr[b].next # NULL
  BY <1>1, MergeAligned DEF Settle
<1>2. CASE H.hdr[b].next = NULL
  <2> DEFINE U == Unlink(H, b)
  <2>1. U.brk = H.brk /\ DOMAIN U.hdr \subseteq DOMAIN H.hdr /\ \A c \in DOMAIN U.hdr : U.hdr[c].size = H.hdr[c].size
    <3>1. \A c \in DOMAIN H.hdr : H.hdr[c] \in Block
      BY DEF HeapOK, HeapType
    <3> QED BY <3>1 DEF Unlink, Heap, Block
  <2>2. Aligned(U)
    BY <2>1 DEF Aligned
  <2> HIDE DEF U
  <2>3. Aligned(Cbrk(U, b))
    BY <2>2 DEF Cbrk, Heap, Aligned
  <2> QED BY <1>2, <2>2, <2>3 DEF Settle, DropTail, U
<1> QED BY <1>1, <1>2

LEMMA KfreeAligned ==
    ASSUME NEW H, HeapOK(H), Aligned(H), NEW p, Header(p) \in DOMAIN H.hdr
    PROVE  Aligned(Kfree(H, p))
<1> DEFINE b == Header(p)
           H1 == SetFree(H, b, TRUE)
           pv == H.hdr[b].prev
           M == MergeBlocks(H1, pv)
<1>1. HeapOK(H1) /\ Aligned(H1) /\ DOMAIN H1.hdr = DOMAIN H.hdr
  BY SetFreeOK, SetFreeAligned, ZenonT(60)
<1>2. pv # NULL => pv \in DOMAIN H1.hdr
  BY <1>1, Zenon DEF HeapOK, PrevLinks
<1>4. \/ Kfree(H, p) = H
      \/ pv # NULL /\ Kfree(H, p) = Settle(M, pv)
      \/ Kfree(H, p) = Settle(H1, b)
  BY Zenon DEF Kfree, FreeBlock
<1> HIDE DEF H1, b, pv, M
<1>5. CASE pv # NULL /\ Kfree(H, p) = Settle(M, pv)
  <2>1. HeapOK(M) /\ pv \in DOMAIN M.hdr /\ Aligned(M)
    BY <1>1, <1>2, <1>5, MergeOK, MergeAligned DEF M
  <2> QED BY <1>5, <2>1, SettleAligned
<1>6. CASE Kfree(H, p) = Settle(H1, b)
  <2>1. b \in DOMAIN H1.hdr
    BY <1>1 DEF b
  <2> QED BY <1>1, <1>6, <2>1, SettleAligned
<1> QED BY <1>4, <1>5, <1>6

LEMMA KmallocAligned ==
    ASSUME NEW H, HeapOK(H), Aligned(H), NEW n \in Nat, NEW r \in Kmalloc(H, n)
    PROVE  Aligned(r.heap)
<1> DEFINE s == Align4(n)
<1>1. s \in Nat /\ s % 4 = 0
  BY Align4IsAligned
<1>2. \/ \E last : r = AppendBlock(H, last, s)
      \/ \E b \in FindBlock(H, s) : r = TakeBlock(H, b, s)
  BY DEF Kmalloc
<1> HIDE DEF s
<1>3. ASSUME NEW last, r = AppendBlock(H, last, s) PROVE Aligned(r.heap)
  <2> DEFINE X == ExtendHeap(H, last, s)
  <2>1. H.brk \in Nat /\ \A c \in DOMAIN H.hdr : H.hdr[c] \in Block
    BY HeapAssumption DEF HeapOK, HeapType, Endp
  <2>2. X.brk = Data(H.brk) + s /\ DOMAIN X.hdr = DOMAIN H.hdr \cup {H.brk} /\ X.hdr[H.brk].size = s
    BY DEF ExtendHeap, Heap
  <2>3. ASSUME NEW c \in DOMAIN H.hdr, c # H.brk PROVE X.hdr[c].size = H.hdr[c].size
    BY <2>1, <2>3 DEF ExtendHeap, Heap, Block
  <2>4. (X.brk - HeapStart) % 4 = 0
    BY <1>1, <2>1, <2>2, HeapAssumption, MetaAligned DEF Aligned, Data
  <2> HIDE DEF X
  <2>5. Aligned(X)
    BY <1>1, <2>2, <2>3, <2>4 DEF Aligned
  <2>6. r.heap = X \/ r.heap = H
    BY <1>3 DEF AppendBlock, X
  <2> QED BY <2>5, <2>6, SMTT(30)
<1>4. ASSUME NEW b \in FindBlock(H, s), r = TakeBlock(H, b, s) PROVE Aligned(r.heap)
  <2>1. b \in DOMAIN H.hdr /\ H.hdr[b].size >= s /\ H.hdr[b].size \in Nat
    BY ChainBehindBase DEF FindBlock, HeapOK, HeapType, Block
  <2>2. HeapOK(Trim(H, b, s)) /\ Aligned(Trim(H, b, s)) /\ b \in DOMAIN Trim(H, b, s).hdr
    BY <1>1, <2>1, TrimOK, TrimAligned, Zenon
  <2>3. Aligned(SetFree(Trim(H, b, s), b, FALSE))
    BY <2>2, SetFreeAligned, Zenon
  <2> QED BY <1>4, <2>3, ZenonT(60) DEF TakeBlock
<1> QED BY <1>2, <1>3, <1>4

LEMMA KreallocAligned ==
    ASSUME NEW H, HeapOK(H), Aligned(H), NEW p, NEW n \in Nat,
           Header(p) \in DOMAIN H.hdr, ~H.hdr[Header(p)].free, NEW r \in Krealloc(H, p, n)
    PROVE  Aligned(r.heap)
<1> DEFINE s == Align4(n)
           b == Header(p)
<1>1. s \in Nat /\ s % 4 = 0 /\ b \in DOMAIN H.hdr
  BY Align4IsAligned, SMTT(30)
<1>2. \/ r.heap = Trim(H, b, s)
      \/ r.heap = Trim(MergeBlocks(H, b), b, s)
      \/ \E m \in Kmalloc(H, n) : r.heap = m.heap \/ r.heap = Kfree(m.heap, p)
  BY DEF Krealloc
<1> HIDE DEF s, b
<1>3. CASE r.heap = Trim(H, b, s)
  BY <1>1, <1>3, TrimAligned
<1>4. CASE r.heap = Trim(MergeBlocks(H, b), b, s)
  <2>1. HeapOK(MergeBlocks(H, b)) /\ Aligned(MergeBlocks(H, b)) /\ b \in DOMAIN MergeBlocks(H, b).hdr
    BY <1>1, MergeOK, MergeAligned
  <2> QED BY <1>1, <1>4, <2>1, TrimAligned
<1>5. ASSUME NEW m \in Kmalloc(H, n), r.heap = m.heap \/ r.heap = Kfree(m.heap, p) PROVE Aligned(r.heap)
  <2>1. HeapOK(m.heap) /\ Keeps(H, m.heap, {}) /\ Aligned(m.heap)
    BY KmallocOK, KmallocAligned
  <2>2. Header(p) \in DOMAIN m.heap.hdr
    BY <2>1 DEF Keeps
  <2> QED BY <1>5, <2>1, <2>2, KfreeAligned, SMTT(30)
<1> QED BY <1>2, <1>3, <1>4, <1>5

-----------------------------------------------------------------------------
(* The walks *)

\* A set of addresses below a bound has a least and a greatest one.
LEMMA LeastOf ==
    ASSUME NEW S \in SUBSET Nat, S # {}
    PROVE  \E m \in S : \A k \in S : m <= k
<1> DEFINE R == OpToRel(<, Nat)
<1>1. \A x, y \in Nat : x < y => <<x, y>> \in R
  BY DEF OpToRel
<1>2. IsWellFoundedOn(R, Nat) /\ S \subseteq Nat /\ S # {}
  BY NatLessThanWellFounded, Zenon
<1> HIDE DEF R, IsWellFoundedOn
<1>3. PICK m \in S : \A k \in S : ~(<<k, m>> \in R)
  BY ONLY <1>2, WFMin, Zenon
<1>4. ASSUME NEW k \in S PROVE m <= k
  <2>1. ~(k < m)
    BY <1>1, <1>2, <1>3, Zenon
  <2> QED BY <1>2, <2>1
<1> QED BY <1>4

LEMMA GreatestOf ==
    ASSUME NEW top \in Nat, NEW S \in SUBSET (0 .. top), S # {}
    PROVE  \E m \in S : \A k \in S : k <= m
<1> DEFINE D == {top - k : k \in S}
<1>1. D \in SUBSET Nat /\ D # {}
  <2>1. \A k \in S : k \in Int /\ top - k \in Nat
    OBVIOUS
  <2> QED BY <2>1, Zenon
<1>2. PICK d \in D : \A k \in D : d <= k
  BY <1>1, LeastOf, Zenon
<1>3. PICK m \in S : d = top - m
  OBVIOUS
<1>4. ASSUME NEW k \in S PROVE k <= m
  <2>1. top - m <= top - k
    BY <1>2, <1>3, Zenon
  <2> QED BY <2>1
<1> QED BY <1>4, Zenon

\* The list is closed, and its part from b on is what a walk from b visits.
LEMMA ChainClosed ==
    ASSUME NEW H, HeapOK(H), H.base # NULL
    PROVE  /\ H.base \in Chain(H) /\ Chain(H) \subseteq DOMAIN H.hdr
           /\ \A b \in Chain(H) : H.hdr[b].next # NULL => H.hdr[b].next \in Chain(H)
<1>1. H.base \in DOMAIN H.hdr
  BY DEF HeapOK, HeapType
<1>2. ASSUME NEW b \in Chain(H), H.hdr[b].next # NULL PROVE H.hdr[b].next \in Chain(H)
  <2>1. b \in DOMAIN H.hdr
    BY DEF Chain, Reach
  <2>2. H.hdr[b].next \in DOMAIN H.hdr
    BY <1>2, <2>1 DEF HeapOK, NextLinks
  <2>3. ASSUME NEW S \in SUBSET DOMAIN H.hdr, H.base \in S, ClosedUnderNext(H, S) PROVE H.hdr[b].next \in S
    <3>1. b \in S
      BY <2>3 DEF Chain, Reach
    <3> QED BY <1>2, <2>3, <3>1 DEF ClosedUnderNext
  <2> QED BY <2>2, <2>3 DEF Chain, Reach
<1> QED BY <1>1, <1>2, SMTT(30) DEF Chain, Reach

LEMMA ReachIsRest ==
    ASSUME NEW H, HeapOK(H), H.base # NULL, NEW b \in Chain(H)
    PROVE  /\ \A c \in Chain(H) : b <= c => c \in Reach(H, b)
           /\ \A c \in Reach(H, b) : b <= c
<1>1. \A c \in DOMAIN H.hdr : c \in Nat
  BY DEF HeapOK, HeapType
<1>2. H.base \in DOMAIN H.hdr /\ b \in DOMAIN H.hdr /\ H.base <= b
  BY ChainBehindBase, ChainClosed
<1>3. ASSUME NEW c \in Chain(H), b <= c, NEW S \in SUBSET DOMAIN H.hdr, b \in S, ClosedUnderNext(H, S)
      PROVE  c \in S
  <2> DEFINE T == {x \in Chain(H) : x < b} \cup S
  <2>1. H.base \in T
    BY <1>1, <1>2, <1>3, ChainClosed
  <2>2. ASSUME NEW x \in T, H.hdr[x].next # NULL PROVE H.hdr[x].next \in T
    <3>1. CASE x \in S
      BY <1>3, <2>2, <3>1 DEF ClosedUnderNext
    <3>2. CASE x \in Chain(H) /\ x < b
      <4>1. x \in DOMAIN H.hdr /\ H.hdr[x].next \in Chain(H) /\ H.hdr[x].next \in DOMAIN H.hdr
        BY <2>2, <3>2, ChainClosed, SMTT(30)
      <4>2. b <= x \/ H.hdr[x].next <= b
        BY <1>2, <2>2, <4>1 DEF HeapOK, NextLinks
      <4>3. H.hdr[x].next < b \/ H.hdr[x].next = b
        BY <1>1, <1>2, <3>2, <4>1, <4>2
      <4> QED BY <1>3, <4>1, <4>3
    <3> QED BY <3>1, <3>2
  <2>3. T \in SUBSET DOMAIN H.hdr
    BY ChainClosed
  <2>4. ClosedUnderNext(H, T)
    BY <2>2 DEF ClosedUnderNext
  <2> HIDE DEF T
  <2>5. c \in T
    BY <2>1, <2>3, <2>4 DEF Chain, Reach
  <2>6. c \in DOMAIN H.hdr
    BY ChainClosed
  <2> QED BY <1>1, <1>2, <1>3, <2>5, <2>6, SMTT(30) DEF T
<1>4. ASSUME NEW c \in Reach(H, b) PROVE b <= c
  <2> DEFINE S == {x \in DOMAIN H.hdr : b <= x}
  <2>1. S \in SUBSET DOMAIN H.hdr /\ b \in S
    BY <1>1, <1>2, SMTT(30)
  <2>2. ClosedUnderNext(H, S)
    BY <1>1, <1>2 DEF ClosedUnderNext, HeapOK, NextLinks
  <2> HIDE DEF S
  <2>3. c \in S
    BY <2>1, <2>2 DEF Reach
  <2> QED BY <2>3 DEF S
<1>5. Chain(H) \subseteq DOMAIN H.hdr
  BY ChainClosed
<1> QED BY <1>3, <1>4, <1>5 DEF Reach

LEMMA OneLastBlock ==
    ASSUME NEW H, HeapOK(H), H.base # NULL
    PROVE  \E b \in Chain(H) : GetLastBlock(H) = {b}
<1>1. Chain(H) \in SUBSET (0 .. Endp) /\ Chain(H) # {} /\ Endp \in Nat
  <2>1. \A b \in DOMAIN H.hdr : b \in Nat /\ b <= Endp
    BY HeapAssumption DEF HeapOK, HeapType, Disjoint, EndOf, Data, Block, Endp
  <2> QED BY <2>1, ChainClosed, HeapAssumption DEF Endp
<1>2. PICK m \in Chain(H) : \A c \in Chain(H) : c <= m
  BY <1>1, GreatestOf, Zenon
<1>3. H.hdr[m].next = NULL
  <2> SUFFICES ASSUME H.hdr[m].next # NULL PROVE FALSE
    OBVIOUS
  <2>1. m \in DOMAIN H.hdr /\ H.hdr[m].next \in Chain(H)
    BY ChainClosed, SMTT(30)
  <2>2. m < H.hdr[m].next
    BY <2>1 DEF HeapOK, NextLinks
  <2> QED BY <1>1, <1>2, <2>1, <2>2
<1>4. ASSUME NEW b \in GetLastBlock(H) PROVE b = m
  <2>1. b \in Chain(H) /\ b <= m
    BY <1>2, SMTT(30) DEF GetLastBlock
  <2>2. m <= b
    BY <2>1, ChainBehindBase DEF GetLastBlock, HeapOK, TailIsLast
  <2> QED BY <1>1, <2>1, <2>2
<1>5. GetLastBlock(H) = {m}
  BY <1>3, <1>4, SMTT(30) DEF GetLastBlock
<1> QED BY <1>5

LEMMA FirstFitIsFound ==
    ASSUME NEW H, HeapOK(H), H.base # NULL, NEW s
    PROVE  LET fits == {b \in Chain(H) : H.hdr[b].free /\ H.hdr[b].size >= s}
           IN  IF fits = {} THEN FindBlock(H, s) = {} ELSE \E b \in fits : FindBlock(H, s) = {b}
<1> DEFINE fits == {b \in Chain(H) : H.hdr[b].free /\ H.hdr[b].size >= s}
<1>1. fits \in SUBSET Nat /\ fits \subseteq Chain(H)
  BY ChainClosed DEF HeapOK, HeapType
<1>2. FindBlock(H, s) = {b \in fits : fits \subseteq Reach(H, b)}
  BY DEF FindBlock
<1> HIDE DEF fits
<1>4. CASE fits = {}
  BY <1>2, <1>4 DEF fits
<1>5. CASE fits # {}
  <2>1. PICK m \in fits : \A c \in fits : m <= c
    BY <1>1, <1>5, LeastOf
  <2>2. m \in FindBlock(H, s)
    BY <1>1, <1>2, <2>1, ReachIsRest
  <2>3. ASSUME NEW b \in FindBlock(H, s) PROVE b = m
    <3>1. b \in fits /\ m \in Reach(H, b)
      BY <1>2, <2>1
    <3>2. b <= m
      BY <1>1, <3>1, ReachIsRest
    <3> QED BY <1>1, <2>1, <3>1, <3>2
  <2>4. FindBlock(H, s) = {m}
    BY <2>2, <2>3
  <2> QED BY <1>5, <2>4 DEF fits
<1> QED BY <1>4, <1>5, SMTT(30)

\* For every size of the heap and of requests, 0 among them: blocks stay aligned, find_block finds
\* the first block that fits whenever there is one, and get_last_block the one last block.
THEOREM WalksEndRight == Spec => []HeapInOrder
<1>1. Init => HeapAligned
  BY HeapAssumption DEF Init, KmemInit, Heap, HeapAligned, Aligned
<1>2. Inv /\ HeapAligned /\ [Next]_vars => HeapAligned'
  <2> SUFFICES ASSUME Inv, Aligned(heap), [Next]_vars PROVE Aligned(heap')
    BY DEF HeapAligned
  <2>0. HeapOK(heap) /\ Sizes \subseteq Nat
    BY InvIsHeapOK, HeapAssumption
  <2>1. ASSUME NEW n \in Sizes, Alloc(n) PROVE Aligned(heap')
    BY <2>0, <2>1, KmallocAligned, SMTT(30) DEF Alloc
  <2>2. ASSUME NEW p \in DOMAIN live, Free(p) PROVE Aligned(heap')
    BY <2>0, <2>2, KfreeAligned, SMTT(30) DEF Free, Inv, LiveHasBlock
  <2>3. ASSUME NEW p \in DOMAIN live, NEW n \in Sizes, Resize(p, n) PROVE Aligned(heap')
    <3>1. PICK r \in Krealloc(heap, p, n) : heap' = r.heap
      BY <2>3 DEF Resize
    <3> QED BY <2>0, <3>1, KreallocAligned DEF Inv, LiveHasBlock
  <2>4. CASE UNCHANGED vars
    BY <2>4 DEF vars
  <2> QED BY <2>1, <2>2, <2>3, <2>4 DEF Next
<1>3. Inv /\ HeapAligned => BlocksAligned /\ WalksFindTheirBlock
  <2> SUFFICES ASSUME Inv, Aligned(heap) PROVE BlocksAligned /\ WalksFindTheirBlock
    BY DEF HeapAligned
  <2>1. HeapOK(heap)
    BY InvIsHeapOK, SMTT(30)
  <2>2. WalksFindTheirBlock
    BY <2>1, OneLastBlock, FirstFitIsFound DEF WalksFindTheirBlock
  <2> QED BY <2>2 DEF Aligned, BlocksAligned
<1> QED
  BY <1>1, <1>2, <1>3, InvHolds, PTL DEF Spec, HeapInOrder
=============================================================================
