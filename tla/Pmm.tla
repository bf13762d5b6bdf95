-------------------------------- MODULE Pmm ---------------------------------
(***************************************************************************)
(* The physical page allocator (src/src/mem/pmm.c): a bitmap over the      *)
(* pages of the largest usable region, stored in the first pages of that   *)
(* region.  The scan of pmm_alloc_page is modelled loop iteration by loop  *)
(* iteration, with the code's i and j, because what it may skip is the     *)
(* point of its correctness.                                               *)
(***************************************************************************)
EXTENDS Integers, FiniteSets

CONSTANTS
    Base,         \* physical.base
    TotalPages,   \* total_pages
    BitmapPages,  \* the pages that hold the bitmap
    CleanPages,   \* pages whose bits init_PMM clears (64 bits in the code)
    Sizes         \* the byte counts callers ask for

BLOCK_SIZE == 4096

Pages == 0 .. TotalPages - 1

\* No caller asks for 0 bytes, and the region has room for its own bitmap.
ASSUME PmmAssumption ==
    /\ Base \in Nat \ {0}
    /\ TotalPages \in Nat
    /\ BitmapPages \in Nat \ {0}
    /\ BitmapPages <= TotalPages
    /\ CleanPages \in Nat
    /\ Sizes \subseteq Nat \ {0}

VARIABLES
    used,   \* the pages whose bit is set
    owned,  \* ghost: what callers hold, as <<address, number of pages>>
    boot,   \* ghost: the bits that were set when init_PMM returned
    loop, i, j, need  \* pmm_alloc_page: loop, loop counters and page_needed

pmm_vars == <<used, owned, boot, loop, i, j, need>>

PageAddr(k) == Base + k * BLOCK_SIZE
PageIndex(addr) == (addr - Base) \div BLOCK_SIZE
PagesNeeded(size) == (size + BLOCK_SIZE - 1) \div BLOCK_SIZE

Run(k, n) == k .. k + n - 1
PagesOf(a) == Run(PageIndex(a[1]), a[2])

\* init_PMM clears 8 bytes of the bitmap; the other bits are what the memory
\* happened to hold.
InitPMM ==
    /\ boot \in {g \cup Run(0, BitmapPages) : g \in SUBSET {k \in Pages : k >= CleanPages}}
    /\ used = boot

PmmInit ==
    /\ InitPMM
    /\ owned = {}
    /\ loop = "idle" /\ i = 0 /\ j = 0 /\ need = 0

-----------------------------------------------------------------------------
(* pmm_alloc_page *)

AllocCall(size) ==
    /\ loop = "idle"
    /\ loop' = "outer"
    /\ need' = PagesNeeded(size)
    /\ i' = 0
    /\ UNCHANGED <<used, owned, boot, j>>

\* The head of the loop over i: stop, skip a used page, or start a run.
ScanOuter ==
    /\ loop = "outer"
    /\ i < TotalPages
    /\ IF i \in used
       THEN i' = i + 1 /\ UNCHANGED <<loop, j>>
       ELSE loop' = "inner" /\ j' = i /\ UNCHANGED i
    /\ UNCHANGED <<used, owned, boot, need>>

OutOfMemory ==
    /\ loop = "outer"
    /\ i >= TotalPages
    /\ loop' = "idle"
    /\ UNCHANGED <<used, owned, boot, i, j, need>>

InnerGoesOn == j < i + need /\ j < TotalPages /\ j \notin used

ScanInner ==
    /\ loop = "inner"
    /\ InnerGoesOn
    /\ j' = j + 1
    /\ UNCHANGED <<used, owned, boot, loop, i, need>>

Found ==
    /\ loop = "inner"
    /\ ~InnerGoesOn
    /\ j = i + need
    /\ used' = used \cup Run(i, need)
    /\ owned' = owned \cup {<<PageAddr(i), need>>}
    /\ loop' = "idle"
    /\ UNCHANGED <<boot, i, j, need>>

BugTooShort ==  \* skips one page too many
    /\ loop = "inner"
    /\ ~InnerGoesOn
    /\ j # i + need
    /\ i' = j + 2
    /\ loop' = "outer"
    /\ UNCHANGED <<used, owned, boot, j, need>>

BugTooShortStuck ==  \* i does not move
    /\ loop = "inner"
    /\ ~InnerGoesOn
    /\ j # i + need
    /\ loop' = "outer"
    /\ UNCHANGED <<used, owned, boot, i, j, need>>

\* The run ends too early: `i = j', and the loop's i++.
TooShort ==
    /\ loop = "inner"
    /\ ~InnerGoesOn
    /\ j # i + need
    /\ i' = j + 1
    /\ loop' = "outer"
    /\ UNCHANGED <<used, owned, boot, j, need>>

BugPmmFree(a) ==  \* one page too many
    /\ loop = "idle"
    /\ used' = used \ Run(PageIndex(a[1]), a[2] + 1)
    /\ owned' = owned \ {a}
    /\ UNCHANGED <<boot, loop, i, j, need>>

\* pmm_free of an allocation, with the number of pages it has.
PmmFree(a) ==
    /\ loop = "idle"
    /\ used' = used \ Run(PageIndex(a[1]), a[2])
    /\ owned' = owned \ {a}
    /\ UNCHANGED <<boot, loop, i, j, need>>

Scan == ScanOuter \/ OutOfMemory \/ ScanInner \/ Found \/ TooShort

PmmNext ==
    \/ \E size \in Sizes : AllocCall(size)
    \/ Scan
    \/ \E a \in owned : PmmFree(a)

PmmSpec == PmmInit /\ [][PmmNext]_pmm_vars

\* The scan is a loop of straight-line code: it runs once it was called.
PmmFairSpec == PmmSpec /\ WF_pmm_vars(Scan)

-----------------------------------------------------------------------------
(* Properties *)

\* Pages, loop counters and the loop's state have their types.
PmmTypeOK ==
    /\ used \subseteq Pages /\ boot \subseteq Pages
    /\ owned \subseteq Nat \X Nat
    /\ loop \in {"idle", "outer", "inner"}
    /\ i \in Nat /\ j \in Nat /\ need \in Nat

\* The pages of an allocation are marked, lie behind the bitmap's own pages
\* and inside the region, and belong to no other allocation.
OwnedApart ==
    \A a \in owned :
        /\ PagesOf(a) \subseteq used /\ PagesOf(a) # {}
        /\ PagesOf(a) \cap (boot \cup Run(0, BitmapPages)) = {}
        /\ \A b \in owned : a # b => PagesOf(a) \cap PagesOf(b) = {}

\* Every marked page was marked at boot or belongs to an allocation: pmm_free
\* makes all the pages of an allocation available again.
NoPageLost == used \ boot \subseteq UNION {PagesOf(a) : a \in owned}

FreeRun(k, n) == k >= 0 /\ k + n <= TotalPages /\ Run(k, n) \cap used = {}

\* The scan skips no run that is long enough: when it gives up, there is
\* none, and when it takes one, there is none before it.
FirstFit ==
    /\ loop = "outer" /\ i >= TotalPages => \A k \in Pages : ~FreeRun(k, need)
    /\ loop = "inner" /\ j = i + need =>
            FreeRun(i, need) /\ \A k \in Pages : k < i => ~FreeRun(k, need)

\* pmm_alloc_page returns.
AllocReturns == loop # "idle" ~> loop = "idle"

\* Does not hold (README, "What does not hold").
\* "%d pages available", total_pages - bitmap_pages: nothing else is marked
\* when init_PMM reports it.
AvailableAsReported ==
    owned = {} => Cardinality(Pages \ used) = TotalPages - BitmapPages
=============================================================================
