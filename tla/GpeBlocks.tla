------------------------------ MODULE GpeBlocks -----------------------------
(***************************************************************************)
(* Blocks of general purpose events and the interrupt contexts they hang   *)
(* on (src/src/uacpi/event.c): creating a block with any of its            *)
(* allocations and mappings failing, removing one while interrupts arrive, *)
(* and tearing everything down.                                            *)
(*                                                                         *)
(* A context is named by its interrupt line.  Freed contexts stay in the   *)
(* list, because nothing takes them out of it.                             *)
(***************************************************************************)
EXTENDS Integers, Sequences, FiniteSets

CONSTANTS
    Irqs, Sci,     \* interrupt lines; the one of the FADT
    Devices,       \* devices with a block of their own
    Gpe,           \* the device \_GPE, of the FADT blocks
    Registers,     \* the registers of a block
    Emptying       \* clients may remove the last block of a context

None == 0

VARIABLES
    chain,    \* g_gpe_interrupt_head and the contexts behind it
    blocks,   \* of every context: gpe_head and the blocks behind it
    mem,      \* what is allocated and mapped
    sci,      \* the context that handle_sci was installed with
    lines,    \* other lines with a handler
    runtime,  \* blocks with an enabled event
    job,      \* a block being removed, and what comes next
    up        \* events are initialized

vars == <<chain, blocks, mem, sci, lines, runtime, job, up>>

\* A block is a record: its device and its line.
Pieces(b) == {<<"block", b>>, <<"registers", b>>, <<"events", b>>}
Maps(b) == {<<"map", b, r>> : r \in Registers}

\* A list's elements, and the list with its i-th element unlinked
Members(list) == {list[i] : i \in DOMAIN list}
Without(list, i) == SubSeq(list, 1, i - 1) \o SubSeq(list, i + 1, Len(list))

Linked == UNION {Members(blocks[c]) : c \in Irqs}

Init ==
    /\ chain = <<>> /\ blocks = [c \in Irqs |-> <<>>]
    /\ mem = {} /\ sci = None /\ lines = {} /\ runtime = {}
    /\ job = <<>> /\ up = FALSE

Idle == job = <<>>

\* No freed context can be reached; otherwise the program is followed no
\* further.
Sound == \A i \in DOMAIN chain : <<"ctx", chain[i]>> \in mem

-----------------------------------------------------------------------------
\* find_or_create_gpe_interrupt_ctx and the rest of create_gpe_block, for a
\* block (or both FADT blocks) whose own parts are there.
Link(bs, irq) ==
    /\ mem' = mem \cup {<<"ctx", irq>>} \cup UNION {Pieces(b) \cup Maps(b) : b \in Members(bs)}
    /\ IF irq \in Members(chain) THEN UNCHANGED <<chain, lines>>
       ELSE /\ chain' = <<irq>> \o chain
            /\ lines' = IF irq = Sci THEN lines ELSE lines \cup {irq}
    /\ blocks' = [blocks EXCEPT ![irq] = bs \o @]

\* What uninstall_gpe_block gives back of a block that got this far: mapped
\* registers (their width tells), and the three allocations, NULL or not.
Released(b, got) == got \ (Pieces(b) \cup {m \in Maps(b) : <<"registers", b>> \in got})

BugLinkFails(b) ==  \* returns the error without giving anything back
    \E got \in {{}, {<<"block", b>>}, {<<"block", b>>, <<"registers", b>>}} :
        /\ mem' = mem \cup got
        /\ UNCHANGED <<chain, lines, blocks>>

\* create_gpe_block stops after any of its steps and cleans up.
LinkFails(b) ==
    /\ \E got \in {{}, {<<"block", b>>}, {<<"block", b>>, <<"registers", b>>}} \cup
                  {Pieces(b) \cup ms : ms \in SUBSET Maps(b)} :
           mem' = mem \cup Released(b, got)
    /\ UNCHANGED <<chain, lines, blocks>>

Create(b) == Link(<<b>>, b.irq) \/ LinkFails(b)

\* initialize_gpes: none, one or both of the FADT blocks are there and could be
\* created; then uacpi_initialize_events installs handle_sci with the head of
\* the list.
FadtBlock(n) == [dev |-> Gpe, irq |-> Sci, n |-> n]
Initialize ==
    /\ ~up /\ Idle
    /\ up' = TRUE
    /\ \/ LinkFails(FadtBlock(0))
       \/ \E bs \in {<<FadtBlock(0)>>, <<FadtBlock(1)>>, <<FadtBlock(1), FadtBlock(0)>>} :
              Link(bs, Sci)
    /\ sci' = IF chain' = <<>> THEN None ELSE Head(chain')
    /\ UNCHANGED <<runtime, job>>

InstallBlock(d, irq) ==
    /\ up /\ Idle /\ Sound
    /\ \A b \in Linked : b.dev # d  \* get_gpe(gpe_device, 0)
    /\ Create([dev |-> d, irq |-> irq, n |-> 0])
    /\ UNCHANGED <<sci, runtime, job, up>>

\* A client enables an event of a block.
Enable(b) ==
    /\ up /\ Idle /\ Sound
    /\ runtime' = runtime \cup {b}
    /\ UNCHANGED <<chain, blocks, mem, sci, lines, job, up>>

UninstallBlock(b) ==
    /\ up /\ Idle /\ Sound
    /\ b.dev # Gpe
    /\ Emptying \/ Len(blocks[b.irq]) > 1
    /\ job' = <<"unmap", b>>
    /\ UNCHANGED <<chain, blocks, mem, sci, lines, runtime, up>>

(* uninstall_gpe_block, step by step: masked and disabled, then unmapped, *)
(* unlinked, freed.                                                       *)

Unmap ==
    /\ ~Idle /\ job[1] = "unmap"
    /\ mem' = mem \ Maps(job[2])
    /\ job' = <<"unlink", job[2]>>
    /\ UNCHANGED <<chain, blocks, sci, lines, runtime, up>>

Unlink ==
    /\ ~Idle /\ job[1] = "unlink"
    /\ LET b == job[2]
           list == blocks[b.irq]
           rest == Without(list, CHOOSE i \in DOMAIN list : list[i] = b)
       IN  /\ blocks' = [blocks EXCEPT ![b.irq] = rest]
           /\ mem' = IF rest = <<>> THEN mem \ {<<"ctx", b.irq>>} ELSE mem
           /\ lines' = IF rest = <<>> THEN lines \ {b.irq} ELSE lines
    /\ job' = <<"free", job[2]>>
    /\ UNCHANGED <<chain, sci, runtime, up>>

Free ==
    /\ ~Idle /\ job[1] = "free"
    /\ mem' = mem \ Pieces(job[2])
    /\ runtime' = runtime \ {job[2]}
    /\ job' = <<>>
    /\ UNCHANGED <<chain, blocks, sci, lines, up>>

\* uacpi_deinitialize_events: the interrupt first, then every block of every
\* context; the last block of a context takes the context with it.
Deinitialize ==
    /\ up /\ Idle /\ Sound
    /\ mem' = mem \ UNION ({Pieces(b) \cup Maps(b) : b \in Linked}
                              \cup {{<<"ctx", c>>} : c \in {i \in Irqs : blocks[i] # <<>>}})
    /\ chain' = <<>> /\ blocks' = [c \in Irqs |-> <<>>]
    /\ sci' = None /\ lines' = {} /\ runtime' = {} /\ up' = FALSE
    /\ UNCHANGED job

Next ==
    \/ Initialize
    \/ \E d \in Devices, irq \in Irqs : InstallBlock(d, irq)
    \/ \E b \in Linked : Enable(b) \/ UninstallBlock(b)
    \/ Unmap \/ Unlink \/ Free
    \/ Deinitialize

Spec == Init /\ [][Next]_vars

-----------------------------------------------------------------------------
(* Properties *)

\* Between calls exactly what the linked blocks and their contexts consist of
\* is allocated and mapped: whatever failed halfway was given back.
NoLeak ==
    Idle => mem = UNION ({Pieces(b) \cup Maps(b) : b \in Linked}
                           \cup {{<<"ctx", c>>} : c \in {i \in Irqs : blocks[i] # <<>>}})

\* No interrupt walks over a block whose memory is gone: what is linked is
\* allocated, at every step of a removal.
LinkedIsAllocated == \A b \in Linked : Pieces(b) \subseteq mem

\* Both: whatever fails while a block is created is given back, and a block that
\* interrupts can reach is allocated.
BlocksSafe == NoLeak /\ LinkedIsAllocated

\* Does not hold (README, "What does not hold").
\* uninstall_gpe_block: "This GPE block was the last user of this interrupt
\* context, remove it": no freed context can be reached from the list.
ContextsRemoved == Sound

\* Does not hold (README, "What does not hold").
\* gpe_block_mask_safe: "Wait for the last possible IRQ to finish, now that
\* this event is disabled": an interrupt on a line that the block shares does
\* not read its registers after that.
NoReadOfUnmapped ==
    \A b \in Linked \cap runtime :
        b.irq = sci \/ b.irq \in lines => Maps(b) \subseteq mem

\* Does not hold (README, "What does not hold").
\* find_or_create_gpe_interrupt_ctx: "SCI interrupt is installed by other code
\* and is responsible for more things than just the GPE handling": an
\* interrupt of every linked block reaches the block.
BlocksAreServed ==
    up /\ Idle => \A b \in Linked : b.irq \in lines \/ b.irq = sci
=============================================================================
