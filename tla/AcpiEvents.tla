----------------------------- MODULE AcpiEvents -----------------------------
(***************************************************************************)
(* Registers and events of uACPI: the hardware registers on a host whose     *)
(* spinlocks keep interrupts out or not (IrqOff), the fixed events and the   *)
(* blocks of general purpose events.                                         *)
(***************************************************************************)
EXTENDS FiniteSets, Sequences, Slots

CONSTANTS
    Regs, Bits, MaxMaps,                            \* Registers
    Events,                                         \* FixedEvents
    Irqs, Sci, Devices, Gpe, Registers, Emptying    \* GpeBlocks

Reg == INSTANCE Registers WITH
    spec <- s, present <- x2, blk <- x3, state <- x4, maps <- x5, op <- x6, want <- x7, asked <- x8

Fixed == INSTANCE FixedEvents WITH
    status <- s, enable <- x2, stuck <- x3, facs <- x4, handler <- x5, has_global_lock <- x6,
    phase <- x7, todo <- x8

Blk == INSTANCE GpeBlocks WITH
    chain <- s, blocks <- x2, mem <- x3, sci <- x4, lines <- x5, runtime <- x6, job <- x7, up <- x8

\* Registers of the table in registers.c; any bits
ASSUME RegistersAssumption == Regs \subseteq DOMAIN Reg!g_registers /\ IrqOff \in BOOLEAN
ASSUME FixedAssumption == Fixed!GlobalLock \in Events
ASSUME BlocksAssumption == Sci \in Irqs

EventsInit ==
    \/ part = "registers" /\ Reg!Init /\ Eight
    \/ part = "fixed" /\ Fixed!Init /\ Eight
    \/ part = "blocks" /\ Blk!Init /\ Eight

EventsNext ==
    /\ UNCHANGED part
    /\ \/ part = "registers" /\ Reg!Next /\ UNCHANGED rest9
       \/ part = "fixed" /\ Fixed!Next /\ UNCHANGED rest9
       \/ part = "blocks" /\ Blk!Next /\ UNCHANGED rest9

EventsSpec == EventsInit /\ [][EventsNext]_<<part, xs>>

-----------------------------------------------------------------------------
(* Properties; the modules explain them *)

\* uacpi_write_register_field changes no other field, no write sets a write-only
\* bit (SLP_EN, GBL_RLS) that nobody asked for, and a block is mapped once.
RegistersSafe == part = "registers" => Reg!RegistersSafe
\* An enabled fixed event has a handler at every step of install and uninstall,
\* and the global lock counts as present only if its release event arrives.
FixedSafe == part = "fixed" => Fixed!FixedSafe
\* Whatever fails while a block of events is created is given back, and a
\* block that interrupts can reach is allocated.
BlocksSafe == part = "blocks" => Blk!BlocksSafe
=============================================================================
