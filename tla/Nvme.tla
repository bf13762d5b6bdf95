-------------------------------- MODULE Nvme --------------------------------
(***************************************************************************)
(* The NVMe driver and its controller (drivers/x86/nvme.c).  The driver      *)
(* brings the controller up with commands of the admin queue and then reads  *)
(* and writes with one I/O queue; commands carry no identifier, and a        *)
(* completion is recognised by its phase bit alone.  The controller works    *)
(* through the submission ring in order, completes at any later time, and    *)
(* posts nothing while the completion ring is full.                          *)
(***************************************************************************)
EXTENDS Naturals, Sequences

CONSTANTS
    N,         \* entries of a ring, 64 in the code
    Lbas,      \* blocks of the disk
    Data,      \* what a block or a buffer may hold
    MaxPages   \* pages for lists that the page allocator has left

VARIABLE s

Queues == {"admin", "io"}
NoCommand == [op |-> "none"]

\* A queue: both rings, the driver's indices and phase, the controller's, and
\* (ghost) how many completions the driver has not taken.
Ring(stale) ==
    [sq |-> [i \in 0 .. N - 1 |-> NoCommand], tail |-> 0, head |-> 0, phase |-> 1,
     cq |-> [i \in 0 .. N - 1 |-> [ok |-> TRUE, phase |-> stale]],
     fetch |-> 0, post |-> 0, bit |-> 1, unread |-> 0]

\* The admin rings are not cleared: an old entry may bear the first phase.  Tail and
\* head of the I/O queue are what kmalloc's memory held before.
Init ==
    \E stale \in 0 .. 1, old \in 0 .. N - 1, d \in [Lbas -> Data], b \in Data :
        s = [pc |-> "off", ready |-> TRUE, todo |-> <<>>,
             q |-> [admin |-> Ring(stale), io |-> [Ring(0) EXCEPT !.tail = old, !.head = old]],
             dirty |-> (IF stale = 0 THEN {} ELSE {"admin"}) \cup (IF old = 0 THEN {} ELSE {"io"}),
             invented |-> {}, disk |-> d, buf |-> b, pages |-> MaxPages,
             late |-> FALSE, result |-> NoCommand]

-----------------------------------------------------------------------------
(* The rings *)

BugSubmit(q, cmd) ==  \* the tail moves before the command is copied
    [s.q EXCEPT ![q].sq = [@ EXCEPT ![(s.q[q].tail + 1) % N] = cmd], ![q].tail = (@ + 1) % N]
Submit(q, cmd) ==
    [s.q EXCEPT ![q].sq = [@ EXCEPT ![s.q[q].tail] = cmd], ![q].tail = (@ + 1) % N]

Arrived(q) == s.q[q].cq[s.q[q].head].phase = s.q[q].phase

Take(q) ==
    [s.q EXCEPT ![q].head = (@ + 1) % N,
                ![q].phase = IF s.q[q].head = N - 1 THEN 1 - @ ELSE @,
                ![q].unread = IF @ = 0 THEN 0 ELSE @ - 1]

Invented(q) == IF s.q[q].unread = 0 THEN {q} ELSE {}

\* The controller executes its next command and posts a completion.
Execute(q, ok) ==
    LET r == s.q[q]  cmd == r.sq[r.fetch] IN
    /\ r.fetch # r.tail /\ r.unread < N - 1 /\ s.ready
    /\ q = "io" => s.pc \in {"ready", "io"}
    /\ s' = [s EXCEPT
          !.q[q] = [r EXCEPT !.fetch = (@ + 1) % N, !.post = (@ + 1) % N, !.unread = @ + 1,
                             !.bit = IF r.post = N - 1 THEN 1 - @ ELSE @,
                             !.cq = [@ EXCEPT ![r.post] = [ok |-> ok, phase |-> r.bit]]],
          !.disk = IF ok /\ cmd.op = "write" THEN [@ EXCEPT ![cmd.lba] = s.buf] ELSE @,
          !.buf = IF ok /\ cmd.op = "read" THEN s.disk[cmd.lba] ELSE @]

-----------------------------------------------------------------------------
(* nvme_init: reset, then one admin command after the other.  A controller  *)
(* of another version, command set or page size is left alone.              *)

\* The commands of the four functions, in the order they run; one namespace is listed.
nvme_identify == <<"identify">>
nvme_create_io_queue == <<"create_cq", "create_sq">>
nvme_init_namespaces == <<"namespaces">>
nvme_identify_namespace == <<"namespace">>
Commands == nvme_identify \o nvme_create_io_queue \o nvme_init_namespaces \o nvme_identify_namespace

Start ==
    /\ s.pc = "off"
    /\ \/ s' = [s EXCEPT !.pc = "unsupported"]
       \/ s' = [s EXCEPT !.pc = "disabling"]

\* CC.EN is cleared; the loops wait for CSTS.RDY to follow.
WaitDisabled == s.pc = "disabling" /\ ~s.ready /\ s' = [s EXCEPT !.pc = "enabling"]
WaitEnabled ==
    /\ s.pc = "enabling" /\ s.ready
    /\ s' = [s EXCEPT !.pc = "admin", !.q = Submit("admin", [op |-> Head(Commands)]),
                      !.todo = Tail(Commands)]
Reset ==
    /\ \/ s.pc = "disabling" /\ s.ready
       \/ s.pc = "enabling" /\ ~s.ready
    /\ s' = [s EXCEPT !.ready = ~@]

\* nvme_wait_admin sees a completion; success brings the next command, a failure
\* of the last one only loses that namespace.  The admin rings are not used
\* again, and forgotten.
AdminDone ==
    /\ s.pc = "admin" /\ Arrived("admin")
    /\ LET ok == s.q.admin.cq[s.q.admin.head].ok
           q2 == Take("admin")
           t == q2.admin.tail
           on == ok /\ s.todo # <<>> IN
       s' = [s EXCEPT
           !.invented = @ \cup Invented("admin"),
           !.pc = IF on THEN "admin" ELSE IF ok THEN "ready" ELSE IF s.todo = <<>> THEN "no disk" ELSE "failed",
           !.todo = IF on THEN Tail(@) ELSE @,
           !.q = IF on THEN [q2 EXCEPT !.admin.sq = [@ EXCEPT ![t] = [op |-> Head(s.todo)]],
                                       !.admin.tail = (t + 1) % N]
                 ELSE [q2 EXCEPT !.admin = Ring(0)]]

\* It gives up after timeout_ms; the command stays in the ring.
AdminTimeout ==
    /\ s.pc = "admin" /\ ~Arrived("admin")
    /\ s' = [s EXCEPT !.pc = IF s.todo = <<>> THEN "no disk" ELSE "failed"]

-----------------------------------------------------------------------------
(* nvme_read and nvme_write *)

\* A buffer of which a page is not mapped is not sent, and its list page given
\* back; for more than two pages a list page is taken, or page 0 when none is left,
\* and never given back.  The caller waits for a completion all the same.
nvme_send_io(op, lba, size, mapped) ==
    s' = [s EXCEPT !.pc = "io", !.result = [op |-> op, lba |-> lba, ok |-> FALSE, done |-> FALSE],
                   !.q = IF mapped THEN Submit("io", [op |-> op, lba |-> lba]) ELSE @,
                   !.pages = IF mapped /\ size > 2 /\ @ > 0 THEN @ - 1 ELSE @]

nvme_read(lba, size, mapped) == s.pc = "ready" /\ nvme_send_io("read", lba, size, mapped)
nvme_write(lba, size, mapped) == s.pc = "ready" /\ nvme_send_io("write", lba, size, mapped)

Refuse ==  \* a buffer that is not aligned to a page
    /\ s.pc = "ready"
    /\ s' = [s EXCEPT !.result = NoCommand]

\* The caller fills its buffer between two calls.
Fill(v) == s.pc = "ready" /\ s' = [s EXCEPT !.buf = v, !.result = NoCommand]

IoDone ==
    /\ s.pc = "io" /\ Arrived("io")
    /\ s' = [s EXCEPT !.pc = "ready", !.q = Take("io"), !.invented = @ \cup Invented("io"),
                      !.result.ok = s.q.io.cq[s.q.io.head].ok, !.result.done = TRUE]

IoTimeout ==
    /\ s.pc = "io" /\ ~Arrived("io")
    /\ s' = [s EXCEPT !.pc = "ready", !.late = TRUE, !.result.done = TRUE]

Next ==
    \/ Start \/ WaitDisabled \/ WaitEnabled \/ Reset
    \/ AdminDone \/ AdminTimeout
    \/ \E q \in Queues, ok \in BOOLEAN : Execute(q, ok)
    \/ \E lba \in Lbas, size \in {1, 3}, mapped \in BOOLEAN :
           nvme_read(lba, size, mapped) \/ nvme_write(lba, size, mapped)
    \/ Refuse \/ \E v \in Data : Fill(v)
    \/ IoDone \/ IoTimeout

Spec == Init /\ [][Next]_s

-----------------------------------------------------------------------------
(* Properties *)

\* However late the controller answers and however often the driver gave up
\* before, nvme_wait_io takes only entries that the controller posted and the
\* driver has not taken yet: phase and head stay in step over the laps.  So does
\* nvme_wait_admin.  Each is stated for memory that happened to be clear.
TakesOnlyPosted == s.invented \subseteq s.dirty

\* With clear memory, and as long as no command was given up, a call that returns true did its work: the
\* buffer holds the block that was read, the disk what was written.
SuccessIsTrue ==
    (s.pc = "ready" /\ ~s.late /\ "io" \notin s.dirty /\ s.result # NoCommand) =>
        (s.result.ok => s.buf = s.disk[s.result.lba])
=============================================================================
