---------------------------- MODULE KernelProofs ----------------------------
(***************************************************************************)
(* The page allocator hands out no page twice, loses none, and its scan    *)
(* finds the first run that is long enough, for every region and every     *)
(* sequence of calls.  The keyboard's ring buffer implements a bounded     *)
(* queue, for every size, although the interrupt handler runs between any  *)
(* two steps of the shell; and the decoder behind it follows what the      *)
(* keyboard sends.                                                         *)
(***************************************************************************)
EXTENDS Pmm, Keyboard, SequenceTheorems, TLAPS

-----------------------------------------------------------------------------
(* The page allocator *)

\* What the loops of pmm_alloc_page have established so far: no run of
\* `need' pages starts before i, and the pages from i to j - 1 are free.
ScanInv ==
    /\ loop # "idle" => /\ need >= 1
                      /\ \A k \in Nat : k < i => ~FreeRun(k, need)
    /\ loop = "inner" => /\ i <= j /\ j <= i + need /\ j <= TotalPages
                       /\ \A k \in Nat : i <= k /\ k < j => k \notin used

\* Allocations are page addresses, and boot's bits are never cleared.
PagesInv ==
    /\ Run(0, BitmapPages) \subseteq boot /\ boot \subseteq used
    /\ \A a \in owned : /\ a[2] >= 1
                        /\ \E k \in Nat : a = <<PageAddr(k), a[2]>>

PmmInv == PmmTypeOK /\ PagesInv /\ OwnedApart /\ NoPageLost /\ ScanInv

\* The address that pmm_alloc_page computes is the one pmm_free inverts.
LEMMA PagesOfAlloc ==
    ASSUME NEW k \in Nat, NEW n \in Nat
    PROVE  PagesOf(<<PageAddr(k), n>>) = Run(k, n)
<1>1. PageIndex(PageAddr(k)) = k
  BY PmmAssumption DEF PageIndex, PageAddr, BLOCK_SIZE
<1> QED
  BY <1>1 DEF PagesOf

LEMMA PmmInitInv == PmmInit => PmmInv
<1> SUFFICES ASSUME PmmInit PROVE PmmInv
  OBVIOUS
<1>1. boot \subseteq Pages /\ Run(0, BitmapPages) \subseteq boot
  <2>1. PICK g \in SUBSET {k \in Pages : k >= CleanPages} : boot = g \cup Run(0, BitmapPages)
    BY DEF PmmInit, InitPMM
  <2>2. Run(0, BitmapPages) \subseteq Pages
    BY PmmAssumption DEF Run, Pages
  <2> QED
    BY <2>1, <2>2
<1> QED
  BY <1>1 DEF PmmInv, PmmTypeOK, PagesInv, OwnedApart, NoPageLost, ScanInv, PmmInit, InitPMM

\* A step that leaves bitmap and allocations alone.
LEMMA SamePages ==
    ASSUME PmmInv, UNCHANGED <<used, owned, boot>>, PmmTypeOK', ScanInv'
    PROVE  PmmInv'
  BY DEF PmmInv, PagesInv, OwnedApart, NoPageLost

LEMMA AllocCallInv ==
    ASSUME PmmInv, NEW size \in Sizes, AllocCall(size)
    PROVE  PmmInv'
<1>1. PagesNeeded(size) \in Nat /\ PagesNeeded(size) >= 1
  BY PmmAssumption DEF PagesNeeded, BLOCK_SIZE
<1>2. PmmTypeOK'
  BY <1>1 DEF PmmInv, PmmTypeOK, AllocCall
<1>3. ScanInv'
  BY <1>1 DEF ScanInv, AllocCall
<1> QED
  BY <1>2, <1>3, SamePages DEF AllocCall

LEMMA ScanOuterInv ==
    ASSUME PmmInv, ScanOuter
    PROVE  PmmInv'
<1>1. PmmTypeOK'
  BY DEF PmmInv, PmmTypeOK, ScanOuter
<1>2. CASE i \in used
  <2>1. ~FreeRun(i, need)
    BY <1>2 DEF FreeRun, Run, PmmInv, ScanInv, PmmTypeOK, ScanOuter
  <2>2. \A k \in Nat : k < i + 1 => ~FreeRun(k, need)
    BY <2>1 DEF PmmInv, ScanInv, PmmTypeOK, ScanOuter
  <2>3. ScanInv'
    BY <1>2, <2>2 DEF PmmInv, ScanInv, ScanOuter, FreeRun, Run
  <2> QED
    BY <1>1, <2>3, SamePages DEF ScanOuter
<1>3. CASE i \notin used
  <2>1. ScanInv'
    BY <1>3, PmmAssumption DEF PmmInv, ScanInv, PmmTypeOK, ScanOuter, FreeRun, Run
  <2> QED
    BY <1>1, <2>1, SamePages DEF ScanOuter
<1> QED
  BY <1>2, <1>3

LEMMA ScanInnerInv ==
    ASSUME PmmInv, ScanInner
    PROVE  PmmInv'
<1>1. PmmTypeOK'
  BY DEF PmmInv, PmmTypeOK, ScanInner
<1>2. ScanInv'
  BY PmmAssumption DEF PmmInv, ScanInv, PmmTypeOK, ScanInner, InnerGoesOn, FreeRun, Run
<1> QED
  BY <1>1, <1>2, SamePages DEF ScanInner

\* The runs that TooShort skips contain the used page j or the region's end.
LEMMA TooShortInv ==
    ASSUME PmmInv, TooShort
    PROVE  PmmInv'
<1>1. PmmTypeOK'
  BY DEF PmmInv, PmmTypeOK, TooShort
<1>2. /\ i \in Nat /\ j \in Nat /\ need \in Nat /\ TotalPages \in Nat /\ need >= 1
      /\ i <= j /\ j < i + need
      /\ j \in used \/ j >= TotalPages
      /\ loop = "inner"
  BY PmmAssumption DEF PmmInv, PmmTypeOK, ScanInv, TooShort, InnerGoesOn
<1>3. ASSUME NEW k \in Nat, i <= k, k <= j PROVE ~FreeRun(k, need)
  <2>1. CASE j \in used
    <3>1. j \in Run(k, need)
      BY <1>2, <1>3 DEF Run
    <3> QED
      BY <2>1, <3>1 DEF FreeRun
  <2>2. CASE j >= TotalPages
    BY <1>2, <1>3, <2>2 DEF FreeRun
  <2> QED
    BY <1>2, <2>1, <2>2
<1>4. \A k \in Nat : k < j + 1 => ~FreeRun(k, need)
  BY <1>2, <1>3 DEF PmmInv, ScanInv
<1>5. ScanInv'
  BY <1>2, <1>4 DEF ScanInv, TooShort, FreeRun
<1> QED
  BY <1>1, <1>5, SamePages DEF TooShort

LEMMA FoundInv ==
    ASSUME PmmInv, Found
    PROVE  PmmInv'
<1> DEFINE new == <<PageAddr(i), need>>
<1>1. /\ i \in Nat /\ j \in Nat /\ need \in Nat /\ TotalPages \in Nat /\ need >= 1
      /\ j = i + need /\ j <= TotalPages /\ loop = "inner"
  BY PmmAssumption DEF PmmInv, PmmTypeOK, ScanInv, Found
<1>2. PagesOf(new) = Run(i, need)
  BY <1>1, PagesOfAlloc
<1>3. Run(i, need) \cap used = {} /\ Run(i, need) \subseteq Pages /\ i \in Run(i, need)
  BY <1>1 DEF PmmInv, ScanInv, Run, Pages
<1>4. /\ used' = used \cup Run(i, need) /\ owned' = owned \cup {new}
      /\ boot' = boot /\ loop' = "idle" /\ UNCHANGED <<i, j, need>>
  BY DEF Found
<1>5. PageAddr(i) \in Nat
  BY <1>1, PmmAssumption DEF PageAddr, BLOCK_SIZE
<1>6. PmmTypeOK'
  BY <1>1, <1>3, <1>4, <1>5 DEF PmmInv, PmmTypeOK
<1>7. PagesInv'
  BY <1>1, <1>4 DEF PmmInv, PagesInv
<1>8. OwnedApart'
  <2>1. boot \subseteq used /\ \A a \in owned : PagesOf(a) \subseteq used
    BY DEF PmmInv, PagesInv, OwnedApart
  <2>2. ASSUME NEW a \in owned'
        PROVE  /\ PagesOf(a) \subseteq used' /\ PagesOf(a) # {}
               /\ PagesOf(a) \cap (boot' \cup Run(0, BitmapPages)) = {}
    <3>1. Run(0, BitmapPages) \subseteq used
      BY DEF PmmInv, PagesInv
    <3> QED
      BY <1>2, <1>3, <1>4, <2>1, <3>1 DEF PmmInv, OwnedApart
  <2>3. ASSUME NEW a \in owned', NEW b \in owned', a # b
        PROVE  PagesOf(a) \cap PagesOf(b) = {}
    BY <1>2, <1>3, <1>4, <2>1, <2>3 DEF PmmInv, OwnedApart
  <2> QED
    BY <2>2, <2>3 DEF OwnedApart, PagesOf, PageIndex, Run
<1>9. NoPageLost'
  BY <1>2, <1>4, ZenonT(60) DEF PmmInv, NoPageLost, PagesOf, PageIndex, Run
<1>10. ScanInv'
  BY <1>4 DEF ScanInv
<1> QED
  BY <1>6, <1>7, <1>8, <1>9, <1>10 DEF PmmInv

LEMMA PmmFreeInv ==
    ASSUME PmmInv, NEW a \in owned, PmmFree(a)
    PROVE  PmmInv'
<1>1. /\ used' = used \ PagesOf(a) /\ owned' = owned \ {a}
      /\ boot' = boot /\ loop = "idle" /\ UNCHANGED <<loop, i, j, need>>
  BY DEF PmmFree, PagesOf
<1>2. PmmTypeOK'
  BY <1>1 DEF PmmInv, PmmTypeOK
<1>3. PagesInv'
  BY <1>1 DEF PmmInv, PagesInv, OwnedApart
<1>4. OwnedApart'
  <2>1. ASSUME NEW b \in owned'
        PROVE  /\ PagesOf(b) \subseteq used' /\ PagesOf(b) # {}
               /\ PagesOf(b) \cap (boot' \cup Run(0, BitmapPages)) = {}
    BY <1>1 DEF PmmInv, OwnedApart
  <2>2. ASSUME NEW b \in owned', NEW c \in owned', b # c
        PROVE  PagesOf(b) \cap PagesOf(c) = {}
    BY <1>1, <2>2 DEF PmmInv, OwnedApart
  <2> QED
    BY <2>1, <2>2 DEF OwnedApart, PagesOf, PageIndex, Run
<1>5. NoPageLost'
  BY <1>1 DEF PmmInv, NoPageLost, PagesOf, PageIndex, Run
<1>6. ScanInv'
  BY <1>1 DEF ScanInv
<1> QED
  BY <1>2, <1>3, <1>4, <1>5, <1>6 DEF PmmInv

\* In every reachable state allocations are disjoint, marked and clear of the
\* bitmap (OwnedApart), no page is lost (NoPageLost), and pmm_alloc_page takes
\* the first run that fits and fails only if there is none (FirstFit).
THEOREM PmmSafety == PmmSpec => [](PmmTypeOK /\ OwnedApart /\ NoPageLost /\ FirstFit)
<1>1. PmmInv /\ [PmmNext]_pmm_vars => PmmInv'
  <2> SUFFICES ASSUME PmmInv, [PmmNext]_pmm_vars PROVE PmmInv'
    OBVIOUS
  <2>1. CASE \E size \in Sizes : AllocCall(size)
    BY <2>1, AllocCallInv
  <2>2. CASE ScanOuter
    BY <2>2, ScanOuterInv
  <2>3. CASE OutOfMemory
    <3>1. PmmTypeOK' /\ ScanInv'
      BY <2>3 DEF PmmInv, PmmTypeOK, ScanInv, OutOfMemory
    <3> QED
      BY <2>3, <3>1, SamePages DEF OutOfMemory
  <2>4. CASE ScanInner
    BY <2>4, ScanInnerInv
  <2>5. CASE Found
    BY <2>5, FoundInv
  <2>6. CASE TooShort
    BY <2>6, TooShortInv
  <2>7. CASE \E a \in owned : PmmFree(a)
    BY <2>7, PmmFreeInv
  <2>8. CASE UNCHANGED pmm_vars
    <3>1. PmmTypeOK' /\ ScanInv'
      BY <2>8 DEF PmmInv, PmmTypeOK, ScanInv, pmm_vars, FreeRun
    <3> QED
      BY <2>8, <3>1, SamePages DEF pmm_vars
  <2> QED
    BY <2>1, <2>2, <2>3, <2>4, <2>5, <2>6, <2>7, <2>8 DEF PmmNext, Scan
<1>2. PmmInv => FirstFit
  <2> SUFFICES ASSUME PmmInv PROVE FirstFit
    OBVIOUS
  <2>1. loop = "outer" /\ i >= TotalPages => \A k \in Pages : ~FreeRun(k, need)
    BY PmmAssumption DEF PmmInv, ScanInv, PmmTypeOK, Pages
  <2>2. loop = "inner" /\ j = i + need => FreeRun(i, need)
    BY PmmAssumption DEF PmmInv, ScanInv, PmmTypeOK, FreeRun, Run
  <2>3. loop = "inner" => \A k \in Pages : k < i => ~FreeRun(k, need)
    BY PmmAssumption DEF PmmInv, ScanInv, PmmTypeOK, Pages
  <2> QED
    BY <2>1, <2>2, <2>3 DEF FirstFit
<1> QED
  BY <1>1, <1>2, PmmInitInv, PTL DEF PmmSpec, PmmInv

\* No two callers of pmm_alloc_page hold the same page, nor one of the bitmap.
THEOREM AllocationsApart == PmmSpec => []OwnedApart
  BY PmmSafety, PTL

-----------------------------------------------------------------------------
(* The keyboard *)

\* The shell reads only slots that hold a code, and between the read and the
\* moment it gives the slot up the handler has not overwritten it.
RingInv ==
    /\ kbd_buf \in [Slots -> Codes]
    /\ kbd_head \in Slots /\ kbd_tail \in Slots
    /\ sc \in Codes /\ taken \in Codes
    /\ pc \in {"read", "advance"} => kbd_tail # kbd_head
    /\ pc = "advance" => sc = kbd_buf[kbd_tail]

LEMMA NextSlotValue ==
    ASSUME NEW k \in Slots
    PROVE  NextSlot(k) = IF k = KBD_BUF - 1 THEN 0 ELSE k + 1
<1>1. KBD_BUF \in Nat /\ KBD_BUF > 0 /\ k \in Nat /\ k < KBD_BUF
  BY KeyboardAssumption DEF Slots
<1>2. CASE k = KBD_BUF - 1
  BY <1>1, <1>2 DEF NextSlot
<1>3. CASE k # KBD_BUF - 1
  BY <1>1, <1>3 DEF NextSlot
<1> QED
  BY <1>2, <1>3

LEMMA NextSlotType ==
    ASSUME NEW k \in Slots
    PROVE  NextSlot(k) \in Slots
  BY NextSlotValue, KeyboardAssumption DEF Slots

LEMMA E0IsCode == E0 \in Codes
  BY DEF Codes

LEMMA RingInvInductive == Spec => []RingInv
<1>1. Init => RingInv
  BY E0IsCode, KeyboardAssumption DEF Init, RingInv, Slots
<1>2. RingInv /\ [Next]_vars => RingInv'
  <2> SUFFICES ASSUME RingInv, [Next]_vars PROVE RingInv'
    OBVIOUS
  <2>1. CASE Poll
    BY <2>1 DEF RingInv, Poll, ring
  <2>2. CASE PollRead
    BY <2>2 DEF RingInv, PollRead, ring
  <2>3. CASE PollAdvance
    BY <2>3, NextSlotType DEF RingInv, PollAdvance
  <2>4. CASE PollHandle
    BY <2>4 DEF RingInv, PollHandle, ring
  <2>5. CASE Idle
    BY <2>5 DEF RingInv, Idle, ring
  <2>6. CASE Sleep
    BY <2>6 DEF RingInv, Sleep, ring
  <2>7. ASSUME NEW c \in Codes, keyboardhandler(c) PROVE RingInv'
    <3>1. CASE NextSlot(kbd_head) # kbd_tail
      <4>1. /\ kbd_buf' = [kbd_buf EXCEPT ![kbd_head] = c]
            /\ kbd_head' = NextSlot(kbd_head)
            /\ UNCHANGED <<kbd_tail, sc, taken>>
            /\ pc' \in {"read", "advance"} => pc' = pc
        BY <2>7, <3>1 DEF keyboardhandler, Store, Wakes
      <4> QED
        BY <3>1, <4>1, NextSlotType DEF RingInv
    <3>2. CASE NextSlot(kbd_head) = kbd_tail
      <4>1. /\ UNCHANGED <<kbd_buf, kbd_head, kbd_tail, sc, taken>>
            /\ pc' \in {"read", "advance"} => pc' = pc
        BY <2>7, <3>2 DEF keyboardhandler, Store, Wakes
      <4> QED
        BY <4>1 DEF RingInv
    <3> QED
      BY <3>1, <3>2
  <2>8. CASE apic_timer_handler
    BY <2>8 DEF RingInv, apic_timer_handler, ring, Wakes
  <2>9. CASE UNCHANGED vars
    BY <2>9 DEF RingInv, vars, ring
  <2> QED
    BY <2>1, <2>2, <2>3, <2>4, <2>5, <2>6, <2>7, <2>8, <2>9 DEF Next, Shell
<1> QED
  BY <1>1, <1>2, PTL DEF Spec

\* The number of waiting codes, and the slot of each.
QueueOK ==
    /\ Waiting \in 0 .. KBD_BUF - 1
    /\ \A k \in 1 .. Waiting : SlotOf(k) \in Slots
    /\ Queue \in Seq(Codes)
    /\ Len(Queue) = Waiting
    /\ \A k \in 1 .. Waiting : Queue[k] = kbd_buf[SlotOf(k)]

LEMMA QueueShape == RingInv => QueueOK
<1> SUFFICES ASSUME RingInv PROVE QueueOK
  OBVIOUS
<1>1. Waiting \in 0 .. KBD_BUF - 1
  BY KeyboardAssumption DEF RingInv, Waiting, Slots
<1>2. \A k \in 1 .. Waiting : SlotOf(k) \in Slots
  BY KeyboardAssumption DEF RingInv, Waiting, SlotOf, Slots
<1>3. \A k \in 1 .. Waiting : kbd_buf[SlotOf(k)] \in Codes
  BY <1>2 DEF RingInv
<1>4. Queue \in Seq(Codes) /\ Len(Queue) = Waiting
  BY <1>1, <1>3 DEF Queue
<1>5. \A k \in 1 .. Waiting : Queue[k] = kbd_buf[SlotOf(k)]
  BY DEF Queue
<1> QED
  BY <1>1, <1>2, <1>4, <1>5 DEF QueueOK

\* The handler's step puts a code into the queue, or turns it away.
LEMMA HandlerPuts ==
    ASSUME RingInv, RingInv', NEW c \in Codes, keyboardhandler(c)
    PROVE  Fifo!Put(c) /\ (lost' = TRUE \/ (lost' = lost /\ Queue' = Append(Queue, c)))
<1>a. QueueOK
  BY QueueShape
<1>b. QueueOK'
  BY QueueShape, PTL
<1>1. taken' = taken /\ kbd_tail' = kbd_tail
  BY DEF keyboardhandler
<1>2. CASE NextSlot(kbd_head) # kbd_tail
  <2>1. /\ kbd_buf' = [kbd_buf EXCEPT ![kbd_head] = c]
        /\ kbd_head' = NextSlot(kbd_head)
    BY <1>2 DEF keyboardhandler, Store
  <2>2. Waiting < KBD_BUF - 1 /\ Waiting' = Waiting + 1
    <3>1. /\ KBD_BUF \in Nat /\ kbd_head \in Nat /\ kbd_tail \in Nat
          /\ kbd_head < KBD_BUF /\ kbd_tail < KBD_BUF
      BY KeyboardAssumption DEF RingInv, Slots
    <3>2. kbd_head' = IF kbd_head = KBD_BUF - 1 THEN 0 ELSE kbd_head + 1
      BY <2>1, NextSlotValue DEF RingInv
    <3>3. kbd_head' # kbd_tail
      BY <1>2, <2>1
    <3>4. CASE kbd_head = KBD_BUF - 1
      BY <1>1, <3>1, <3>2, <3>3, <3>4 DEF Waiting
    <3>5. CASE kbd_head # KBD_BUF - 1
      BY <1>1, <3>1, <3>2, <3>3, <3>5 DEF Waiting
    <3> QED
      BY <3>4, <3>5
  <2>3. SlotOf(Waiting + 1) = kbd_head /\ \A k \in 1 .. Waiting : SlotOf(k) # kbd_head
    BY KeyboardAssumption DEF RingInv, Waiting, SlotOf, Slots
  <2>4. \A k \in Nat : SlotOf(k)' = SlotOf(k)
    BY <1>1 DEF SlotOf
  <2>5. Queue' = Append(Queue, c)
    <3>1. Queue' \in Seq(Codes) /\ Len(Queue') = Waiting + 1
      BY <2>2, <1>a, <1>b DEF QueueOK
    <3>2. Queue \in Seq(Codes) /\ Len(Queue) = Waiting /\ Waiting \in Nat
      BY <1>a, <1>b DEF QueueOK
    <3>3. Append(Queue, c) \in Seq(Codes) /\ Len(Append(Queue, c)) = Waiting + 1
      BY <3>2
    <3>4. ASSUME NEW k \in 1 .. Waiting + 1 PROVE Queue'[k] = Append(Queue, c)[k]
      <4>1. Queue'[k] = kbd_buf'[SlotOf(k)]
        BY <2>2, <2>4, <3>2, <1>a, <1>b DEF QueueOK, Queue
      <4>2. CASE k = Waiting + 1
        BY <4>1, <4>2, <2>1, <2>3, <3>2 DEF RingInv
      <4>3. CASE k \in 1 .. Waiting
        <5>1. Queue[k] = kbd_buf[SlotOf(k)]
          BY <4>3, <1>a, <1>b DEF QueueOK
        <5>2. kbd_buf'[SlotOf(k)] = kbd_buf[SlotOf(k)]
          BY <4>3, <2>1, <2>3, <1>a, <1>b DEF QueueOK, RingInv
        <5> QED
          BY <4>1, <4>3, <5>1, <5>2, <3>2
      <4> QED
        BY <4>2, <4>3, <3>2
    <3> QED
      BY <3>1, <3>3, <3>4, SeqEqual
  <2> QED
    BY <1>1, <1>2, <2>2, <2>5, <1>a, <1>b DEF QueueOK, Fifo!Put, keyboardhandler, Store
<1>3. CASE NextSlot(kbd_head) = kbd_tail
  <2>1. UNCHANGED <<kbd_buf, kbd_head>>
    BY <1>3 DEF keyboardhandler, Store
  <2>2. Queue' = Queue
    BY <1>1, <2>1 DEF Queue, Waiting, SlotOf
  <2>3. ~(Len(Queue) < KBD_BUF - 1)
    <3>1. /\ KBD_BUF \in Nat /\ kbd_head \in Nat /\ kbd_tail \in Nat
          /\ kbd_head < KBD_BUF /\ kbd_tail < KBD_BUF
      BY KeyboardAssumption DEF RingInv, Slots
    <3>2. kbd_tail = IF kbd_head = KBD_BUF - 1 THEN 0 ELSE kbd_head + 1
      BY <1>3, NextSlotValue DEF RingInv
    <3>3. Waiting = KBD_BUF - 1
      BY <3>1, <3>2 DEF Waiting
    <3> QED
      BY <1>a, <3>1, <3>3 DEF QueueOK
  <2> QED
    BY <1>1, <1>3, <2>2, <2>3 DEF Fifo!Put, keyboardhandler, Store
<1> QED
  BY <1>2, <1>3, Zenon

\* The shell's step takes out the oldest code, and it is the one it has read.
LEMMA AdvanceGets ==
    ASSUME RingInv, RingInv', PollAdvance
    PROVE  Fifo!Get
<1>a. QueueOK
  BY QueueShape
<1>b. QueueOK'
  BY QueueShape, PTL
<1>1. /\ kbd_buf' = kbd_buf /\ kbd_head' = kbd_head
      /\ kbd_tail' = NextSlot(kbd_tail) /\ taken' = sc
      /\ kbd_tail # kbd_head /\ sc = kbd_buf[kbd_tail]
  BY DEF PollAdvance, RingInv
<1>2. Waiting >= 1 /\ Waiting' = Waiting - 1 /\ SlotOf(1) = kbd_tail
  BY <1>1, NextSlotValue, KeyboardAssumption, SMTT(60) DEF RingInv, Waiting, SlotOf, Slots
<1>3. \A k \in 1 .. Waiting - 1 : SlotOf(k)' = SlotOf(k + 1)
  BY <1>1, NextSlotValue, KeyboardAssumption, SMTT(60) DEF RingInv, Waiting, SlotOf, Slots
<1>4. Queue \in Seq(Codes) /\ Len(Queue) = Waiting /\ Queue # <<>>
  BY <1>2, <1>a, <1>b DEF QueueOK
<1>5. taken' = Head(Queue)
  BY <1>1, <1>2, <1>4, <1>a, <1>b DEF QueueOK
<1>6. Queue' = Tail(Queue)
  <2>1. Queue' \in Seq(Codes) /\ Len(Queue') = Waiting - 1
    BY <1>2, <1>a, <1>b DEF QueueOK
  <2>2. Tail(Queue) \in Seq(Codes) /\ Len(Tail(Queue)) = Waiting - 1
    BY <1>4
  <2>3. ASSUME NEW k \in 1 .. Waiting - 1 PROVE Queue'[k] = Tail(Queue)[k]
    <3>1. Queue'[k] = kbd_buf[SlotOf(k + 1)]
      BY <1>1, <1>2, <1>3, <1>a, <1>b DEF QueueOK, Queue
    <3>2. Tail(Queue)[k] = Queue[k + 1]
      BY <1>4, <2>2
    <3>3. k + 1 \in 1 .. Waiting
      BY <1>a, <1>b DEF QueueOK
    <3> QED
      BY <3>1, <3>2, <3>3, <1>a, <1>b DEF QueueOK
  <2> QED
    BY <2>1, <2>2, <2>3, SeqEqual
<1> QED
  BY <1>4, <1>5, <1>6 DEF Fifo!Get

\* The ring buffer of keyboardhandler and keyboard_poll implements the bounded
\* queue of BoundedFifo with KBD_BUF - 1 places.
THEOREM RingImplementsFifo == Spec => RingIsFifo
<1>1. Init => Fifo!Init
  <2> SUFFICES ASSUME Init PROVE Queue = <<>> /\ taken \in Codes
    BY DEF Fifo!Init
  <2>1. Waiting = 0
    BY DEF Init, Waiting
  <2> QED
    BY <2>1, E0IsCode DEF Init, Queue
<1>2. RingInv /\ RingInv' /\ [Next]_vars => [Fifo!Next]_<<Queue, taken>>
  <2> SUFFICES ASSUME RingInv, RingInv', [Next]_vars
               PROVE  Fifo!Next \/ UNCHANGED <<Queue, taken>>
    OBVIOUS
  <2>1. CASE UNCHANGED <<kbd_buf, kbd_head, kbd_tail, taken>>
    BY <2>1 DEF Queue, Waiting, SlotOf
  <2>2. ASSUME NEW c \in Codes, keyboardhandler(c) PROVE Fifo!Next
    BY <2>2, HandlerPuts, Zenon DEF Fifo!Next
  <2>3. CASE PollAdvance
    BY <2>3, AdvanceGets DEF Fifo!Next
  <2> QED
    BY <2>1, <2>2, <2>3 DEF Next, Shell, Poll, PollRead, PollHandle, Idle, Sleep,
       apic_timer_handler, vars, ring
<1> QED
  BY <1>1, <1>2, RingInvInductive, PTL DEF Spec, RingIsFifo, Fifo!Spec

-----------------------------------------------------------------------------
(* The decoder *)

States == [shift : BOOLEAN, caps : BOOLEAN, ext : BOOLEAN]

\* What handle_scancode makes of a code, in a given state
Decode(d, c) ==
    LET plain == c # E0 /\ ~d.ext
    IN  [shift |-> IF plain /\ c.key = "shift" THEN ~c.up ELSE d.shift,
         caps |-> IF plain /\ c.key = "caps" /\ ~c.up THEN ~d.caps ELSE d.caps,
         ext |-> (c = E0)]

Typed == [shift |-> held, caps |-> caps, ext |-> prefixed]
Decoded == [shift |-> shift_down, caps |-> caps_lock, ext |-> extended]

\* The decoder's state with the code that the shell has taken out and not decoded yet
Reached == IF pc = "handle" THEN Decode(Decoded, sc) ELSE Decoded

\* The states from the decoder's to the keyboard's, over the codes that wait in between
Path(g) ==
    /\ g \in [0 .. Waiting -> States]
    /\ g[0] = Reached /\ g[Waiting] = Typed
    /\ \A k \in 1 .. Waiting : g[k] = Decode(g[k - 1], Queue[k])
StepInv == lost = TRUE \/ \E g : Path(g)

LEMMA CodeUp == ASSUME NEW c \in Codes PROVE c.up \in BOOLEAN
<1>1. CASE c = E0
  <2>1. E0.up = TRUE
    BY DEF E0, Code
  <2> QED BY <1>1, <2>1, Zenon
<1>2. CASE c \in [key : Keys, up : BOOLEAN]
  BY <1>2
<1> QED BY <1>1, <1>2 DEF Codes

LEMMA DecodeType ==
    ASSUME NEW d \in States, NEW c \in Codes PROVE Decode(d, c) \in States
<1>1. c.up \in BOOLEAN
  BY CodeUp
<1> QED BY <1>1, Zenon DEF Decode, States

\* The keyboard's own state changes as the decoder's will.
LEMMA KeyboardSteps ==
    ASSUME NEW c \in Codes, Emits(c), Typed \in States
    PROVE  Typed' = Decode(Typed, c)
<1>0. held \in BOOLEAN /\ caps \in BOOLEAN /\ prefixed \in BOOLEAN
  BY DEF Typed, States
<1>1. c.up \in BOOLEAN
  BY CodeUp
<1>2. /\ held' = IF c # E0 /\ ~prefixed /\ c.key = "shift" THEN ~c.up ELSE held
      /\ caps' = IF c # E0 /\ ~prefixed /\ c.key = "caps" /\ ~c.up THEN ~caps ELSE caps
      /\ prefixed' = (c = E0)
  BY <1>0, <1>1, Zenon DEF Emits
<1> QED BY <1>2 DEF Typed, Decode

LEMMA DecoderSteps ==
    ASSUME NEW c \in Codes, handle_scancode(c)
    PROVE  Decoded' = Decode(Decoded, c)
<1>1. /\ shift_down' = IF c # E0 /\ ~extended /\ c.key = "shift" THEN ~c.up ELSE shift_down
      /\ caps_lock' = IF c # E0 /\ ~extended /\ c.key = "caps" /\ ~c.up THEN ~caps_lock ELSE caps_lock
      /\ extended' = (c = E0)
  BY DEF handle_scancode
<1> QED BY <1>1 DEF Decoded, Decode

LEMMA StepInvInit == Init => StepInv
<1> SUFFICES ASSUME Init PROVE StepInv
  OBVIOUS
<1>1. Waiting = 0
  BY DEF Init, Waiting
<1>2. Reached = Typed
  BY Zenon DEF Init, Reached, Decoded, Typed
<1>3. Typed \in States
  BY Zenon DEF Init, Typed, States
<1>4. Path([k \in 0 .. 0 |-> Typed])
  BY <1>1, <1>2, <1>3 DEF Path
<1> QED BY <1>4 DEF StepInv

\* The codes in between stay as they are, and so do both ends.
LEMMA PathKept ==
    ASSUME StepInv, Queue' = Queue, Waiting' = Waiting, Reached' = Reached, Typed' = Typed, lost' = lost
    PROVE  StepInv'
<1>1. CASE lost = TRUE
  BY <1>1 DEF StepInv
<1>2. ASSUME NEW g, Path(g) PROVE StepInv'
  <2>1. Path(g)'
    BY <1>2 DEF Path
  <2> QED BY <2>1 DEF StepInv
<1> QED BY <1>1, <1>2, Zenon DEF StepInv

LEMMA StepInvNext ==
    ASSUME RingInv, RingInv', StepInv, [Next]_vars
    PROVE  StepInv'
<1>a. QueueOK /\ Waiting \in Nat
  BY QueueShape DEF QueueOK
<1>b. QueueOK'
  BY QueueShape, PTL
<1>1. ASSUME UNCHANGED <<ring, decoder, keyboard, sc>>, pc # "handle", pc' # "handle" PROVE StepInv'
  <2>1. Queue' = Queue /\ Waiting' = Waiting /\ Reached' = Reached /\ Typed' = Typed /\ lost' = lost
    BY <1>1 DEF ring, decoder, keyboard, Queue, Waiting, SlotOf, Reached, Decoded, Typed
  <2> QED BY <2>1, PathKept
<1>2. CASE PollAdvance
  <2>1. Fifo!Get /\ Queue \in Seq(Codes) /\ Len(Queue) = Waiting /\ Queue # <<>>
    BY <1>2, <1>a, AdvanceGets DEF QueueOK, Fifo!Get
  <2>2. Queue' = Tail(Queue) /\ sc = Queue[1] /\ Waiting' = Waiting - 1 /\ Waiting \in Nat \ {0}
    BY <1>2, <1>a, <1>b, <2>1 DEF Fifo!Get, PollAdvance, QueueOK
  <2>3. /\ Reached = Decoded /\ Reached' = Decode(Decoded, sc) /\ Typed' = Typed /\ lost' = lost
    BY <1>2 DEF PollAdvance, Reached, Decoded, decoder, keyboard, Typed
  <2>4. ASSUME NEW g, Path(g) PROVE StepInv'
    <3> DEFINE h == [k \in 0 .. Waiting - 1 |-> g[k + 1]]
    <3>1. h \in [0 .. Waiting - 1 -> States]
      BY <2>2, <2>4 DEF Path
    <3>2. h[0] = Decode(Decoded, sc) /\ h[Waiting - 1] = Typed
      BY <2>2, <2>3, <2>4 DEF Path
    <3>3. ASSUME NEW k \in 1 .. Waiting - 1 PROVE h[k] = Decode(h[k - 1], Queue'[k])
      <4>1. Queue'[k] = Queue[k + 1] /\ k + 1 \in 1 .. Waiting /\ k - 1 \in 0 .. Waiting - 1
        BY <2>1, <2>2
      <4>2. h[k] = g[k + 1] /\ h[k - 1] = g[k] /\ (k + 1) - 1 = k
        BY <4>1
      <4> QED BY <2>4, <4>1, <4>2 DEF Path
    <3> HIDE DEF h
    <3>4. PICK f : f = h
      OBVIOUS
    <3>5. Path(f)'
      BY <2>2, <2>3, <3>1, <3>2, <3>3, <3>4, Zenon DEF Path
    <3> QED BY <3>5 DEF StepInv
  <2> QED BY <2>3, <2>4, Zenon DEF StepInv
<1>3. CASE PollHandle
  <2>1. Reached' = Reached
    BY <1>3, DecoderSteps DEF PollHandle, Reached, RingInv
  <2>2. Queue' = Queue /\ Waiting' = Waiting /\ Typed' = Typed /\ lost' = lost
    BY <1>3 DEF PollHandle, ring, keyboard, Queue, Waiting, SlotOf, Typed
  <2> QED BY <2>1, <2>2, PathKept
<1>4. ASSUME NEW c \in Codes, keyboardhandler(c), lost' # TRUE PROVE StepInv'
  <2>1. Queue' = Append(Queue, c) /\ lost' = lost
    BY <1>4, HandlerPuts, Zenon
  <2>2. Reached' = Reached
    BY <1>4 DEF keyboardhandler, decoder, Wakes, Reached, Decoded
  <2>3. Queue \in Seq(Codes) /\ Len(Queue) = Waiting /\ Waiting' = Waiting + 1
    BY <1>a, <1>b, <2>1 DEF QueueOK
  <2>4. PICK g : Path(g)
    BY <1>4, <2>1, Zenon DEF StepInv
  <2>5. Typed \in States
    BY <1>a, <2>4 DEF Path
  <2>6. Typed' = Decode(Typed, c) /\ Typed' \in States
    BY <1>4, <2>5, KeyboardSteps, DecodeType DEF keyboardhandler
  <2>7. PICK z : z = Typed'
    OBVIOUS
  <2> DEFINE h == [k \in 0 .. Waiting + 1 |-> IF k = Waiting + 1 THEN z ELSE g[k]]
  <2>8. h \in [0 .. Waiting + 1 -> States] /\ h[0] = Reached /\ h[Waiting + 1] = z
    BY <1>a, <2>4, <2>6, <2>7 DEF Path
  <2>9. ASSUME NEW k \in 1 .. Waiting + 1 PROVE h[k] = Decode(h[k - 1], Queue'[k])
    <3>1. CASE k = Waiting + 1
      <4>1. Queue'[k] = c /\ h[k - 1] = Typed /\ h[k] = z
        BY <1>a, <2>1, <2>3, <2>4, <3>1 DEF Path
      <4> QED BY <2>6, <2>7, <4>1
    <3>2. CASE k \in 1 .. Waiting
      <4>1. Queue'[k] = Queue[k] /\ h[k - 1] = g[k - 1] /\ h[k] = g[k]
        BY <1>a, <2>1, <2>3, <3>2
      <4> QED BY <2>4, <3>2, <4>1, Zenon DEF Path
    <3> QED BY <1>a, <3>1, <3>2
  <2> HIDE DEF h
  <2>10. PICK f : f = h
    OBVIOUS
  <2>11. Path(f)'
    BY <2>2, <2>3, <2>7, <2>8, <2>9, <2>10 DEF Path
  <2> QED BY <2>11 DEF StepInv
<1>5. ASSUME lost' = TRUE PROVE StepInv'
  BY <1>5, SMTT(30) DEF StepInv
<1>6. CASE UNCHANGED vars
  <2>1. Queue' = Queue /\ Waiting' = Waiting /\ Reached' = Reached /\ Typed' = Typed /\ lost' = lost
    BY <1>6 DEF vars, ring, decoder, keyboard, Queue, Waiting, SlotOf, Reached, Decoded, Typed
  <2> QED BY <2>1, PathKept
<1>7. CASE Poll \/ PollRead \/ Idle \/ Sleep \/ apic_timer_handler
  <2>1. CASE PollRead
    <3>1. Queue' = Queue /\ Waiting' = Waiting /\ Reached' = Reached /\ Typed' = Typed /\ lost' = lost
      BY <2>1 DEF PollRead, ring, decoder, keyboard, Queue, Waiting, SlotOf, Reached, Decoded, Typed
    <3> QED BY <3>1, PathKept
  <2>2. CASE Poll \/ Idle \/ Sleep
    BY <1>1, <2>2 DEF Poll, Idle, Sleep
  <2>3. CASE apic_timer_handler
    <3>1. Queue' = Queue /\ Waiting' = Waiting /\ Reached' = Reached /\ Typed' = Typed /\ lost' = lost
      BY <2>3 DEF apic_timer_handler, Wakes, ring, decoder, keyboard, Queue, Waiting, SlotOf, Reached, Decoded, Typed
    <3> QED BY <3>1, PathKept
  <2> QED BY <1>7, <2>1, <2>2, <2>3, SMTT(30)
<1> QED BY <1>2, <1>3, <1>4, <1>5, <1>6, <1>7, Zenon DEF Next, Shell

\* As long as keyboardhandler has dropped no code, shift_down, caps_lock and extended are what the
\* keyboard sent once all codes are handled, for every size of the ring and wherever the interrupt
\* cuts into keyboard_poll and handle_scancode.
THEOREM DecoderFollows == Spec => []DecoderInStep
<1>1. RingInv /\ RingInv' /\ StepInv /\ [Next]_vars => StepInv'
  BY StepInvNext
<1>2. RingInv /\ StepInv => DecoderInStep
  <2> SUFFICES ASSUME StepInv, ~lost, Waiting = 0, pc \in {"poll", "idle", "sleep", "halted"}
               PROVE  shift_down = held /\ caps_lock = caps /\ extended = prefixed
    BY DEF DecoderInStep
  <2>1. Decoded = Typed
    BY DEF StepInv, Path, Reached
  <2> QED BY <2>1 DEF Decoded, Typed
<1> QED BY <1>1, <1>2, StepInvInit, RingInvInductive, PTL DEF Spec
=============================================================================
