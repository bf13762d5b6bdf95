------------------------------- MODULE Paging -------------------------------
(***************************************************************************)
(* The page tables (mem/paging.c) and uacpi_kernel_map.  Virtual addresses   *)
(* are numbered by page; an address has `Depth' digits of base `Width', one  *)
(* for every level of tables (four of 512 in the code).                      *)
(***************************************************************************)
EXTENDS Naturals, TLC, SequencesExt

CONSTANTS
    Width, Depth,
    PageBytes,  \* bytes of a page
    Frames,     \* pages that pmm_alloc_page can give for tables, as numbers above 0
    Ram,        \* entries of the memory map that are neither reserved nor bad: <<base, pages>>
    Hhdm,       \* first virtual page of the direct map
    KernelVirt, KernelPhys, RoPages, RwPages,
    MaxPhys     \* physical pages a client may ask for are below this

VARIABLE s

Absent == [present |-> FALSE, frame |-> 0, writable |-> FALSE]
Empty == [i \in 0 .. Width - 1 |-> Absent]
Pages == 0 .. Width^Depth - 1
Index(v, k) == (v \div Width^(Depth - 1 - k)) % Width
Steps(n) == [i \in 1 .. n |-> i - 1]
Root == CHOOSE f \in Frames : \A g \in Frames : f <= g

Init ==
    s = [tab |-> [f \in Frames \cup {0} |-> Empty], free |-> Frames \ {Root}, lost |-> FALSE,
         up |-> FALSE, want |-> [v \in Pages |-> Absent]]

-----------------------------------------------------------------------------
(* map_page *)

setPageTableEntry(frame, writable) == [present |-> TRUE, frame |-> frame, writable |-> writable]

\* allocateEntry returns 0 without a page, and map_page goes on in page 0.
Enter(st, v, k) ==
    LET e == st.tab[st.at][Index(v, k)]
        f == CHOOSE x \in st.free : \A y \in st.free : x <= y IN
    IF e.present THEN [st EXCEPT !.at = e.frame]
    ELSE IF st.free = {} THEN [st EXCEPT !.at = 0, !.lost = TRUE]
    ELSE [st EXCEPT !.at = f, !.free = @ \ {f},
                    !.tab = [@ EXCEPT ![f] = Empty,
                                      ![st.at][Index(v, k)] = setPageTableEntry(f, TRUE)]]

MapOne(st, v, p, w) ==
    LET table == FoldLeft(LAMBDA t, k : Enter(t, v, k), [at |-> Root] @@ st, Steps(Depth - 1)) IN
    [x \in DOMAIN st |->
        IF x = "tab"
        THEN [table.tab EXCEPT ![table.at][Index(v, Depth - 1)] = setPageTableEntry(p, w)]
        ELSE table[x]]

map_page(st, virt, phys, w, n) ==
    FoldLeft(LAMBDA t, i : MapOne(t, virt + i, phys + i, w), st, Steps(n))

-----------------------------------------------------------------------------

\* What the tables should hold after the call
Wanted(want, virt, phys, w, n) ==
    [v \in Pages |-> IF v \in virt .. virt + n - 1
                     THEN setPageTableEntry(phys + (v - virt), w) ELSE want[v]]

map_kernel(st) ==
    map_page(map_page(st, KernelVirt, KernelPhys, FALSE, RoPages),
             KernelVirt + RoPages, KernelPhys + RoPages, TRUE, RwPages)

map_all_mem(st) ==
    map_kernel(FoldLeft(LAMBDA t, e : map_page(t, Hhdm + e[1], e[1], TRUE, e[2]), st, Ram))

initPML4 ==
    /\ ~s.up
    /\ LET direct == FoldLeft(LAMBDA w, e : Wanted(w, Hhdm + e[1], e[1], TRUE, e[2]), s.want, Ram)
           ro == Wanted(direct, KernelVirt, KernelPhys, FALSE, RoPages) IN
       s' = [map_all_mem(s) EXCEPT
               !.up = TRUE, !.want = Wanted(ro, KernelVirt + RoPages, KernelPhys + RoPages, TRUE, RwPages)]

\* addr and len are in bytes; uacpi_kernel_unmap does nothing.
BugPagesFor(addr, len) == (len + PageBytes - 1) \div PageBytes   \* forgets the offset in the page
PagesFor(addr, len) == ((addr % PageBytes) + len + PageBytes - 1) \div PageBytes
Covered(addr, len) == {b \div PageBytes : b \in addr .. addr + len - 1}

uacpi_kernel_map(addr, len) ==
    LET p == addr \div PageBytes IN
    /\ s.up /\ ~s.lost
    /\ \A q \in Covered(addr, len) : q < MaxPhys
    /\ s' = [map_page(s, Hhdm + p, p, TRUE, PagesFor(addr, len)) EXCEPT
               !.want = [v \in Pages |->
                   IF \E q \in Covered(addr, len) : v = Hhdm + q
                   THEN setPageTableEntry(v - Hhdm, TRUE) ELSE @[v]]]

Next ==
    \/ initPML4
    \/ \E addr \in 0 .. MaxPhys * PageBytes - 1, len \in 1 .. 2 * PageBytes : uacpi_kernel_map(addr, len)

Spec == Init /\ [][Next]_s

-----------------------------------------------------------------------------
(* Properties *)

getPhysicalAddress(v) ==
    FoldLeft(LAMBDA e, k : IF e.present THEN s.tab[e.frame][Index(v, k)] ELSE Absent,
             setPageTableEntry(Root, TRUE), Steps(Depth))

virt_to_phys(v) == IF v >= Hhdm THEN v - Hhdm ELSE getPhysicalAddress(v).frame

\* As long as there were pages for tables, an address leads where the calls so far
\* asked, with the rights they asked for, and nowhere else; an address of the
\* direct map is the one virt_to_phys computes.
TranslationAgrees ==
    ~s.lost => \A v \in Pages :
        /\ getPhysicalAddress(v) = s.want[v]
        /\ v \in Hhdm .. KernelVirt - 1 /\ s.want[v].present => virt_to_phys(v) = s.want[v].frame
=============================================================================
