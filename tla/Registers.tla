------------------------------ MODULE Registers -----------------------------
(***************************************************************************)
(* The fixed hardware registers of uACPI (src/src/uacpi/registers.c): one  *)
(* logical register kept in two blocks, mapped when it is first used, and  *)
(* read and written as a whole or by field, by the thread and by the       *)
(* interrupt.  A value is the set of its bits.                             *)
(***************************************************************************)
EXTENDS Integers, FiniteSets

CONSTANTS
    Regs,     \* the registers to look at
    Bits,     \* bits of a register
    IrqOff,   \* the spinlock keeps interrupts out
    MaxMaps   \* bound: mappings of one block

Blocks == {0, 1}

\* The bits of a register that matter here: plain ones, one that acts when it is
\* written (SLP_EN, GBL_RLS), and the ones that software must leave alone.
Trigger == {"trigger"}
Reserved == {"rsvd"}
g_registers ==
    LET Entry(a, w, p) == [access |-> a, write_only |-> w, preserve |-> p]
    IN  [PM1_STS |-> Entry("clear", {}, Reserved),
         PM1_EN  |-> Entry("preserve", {}, {}),
         PM1_CNT |-> Entry("preserve", Trigger, Reserved),
         PM_TMR  |-> Entry("preserve", {}, {}),
         PM2_CNT |-> Entry("preserve", {}, Reserved),
         SLP_CNT |-> Entry("preserve", Trigger, Reserved),
         SLP_STS |-> Entry("clear", {}, Reserved),
         RESET   |-> Entry("normal", {}, {}),
         SMI_CMD |-> Entry("normal", {}, {})]

VARIABLES
    spec,     \* the register: its access kind, write-only and preserved bits
    present,  \* the blocks the FADT has an address for
    blk,      \* what the hardware holds in each block
    state,    \* mapping->states
    maps,     \* number of live mappings of each block
    op,       \* the thread's call and how far it is
    want,     \* ghost: what a plain register would hold
    asked     \* ghost: write-only bits that callers set; and those that fired

vars == <<spec, present, blk, state, maps, op, want, asked>>

Idle == [kind |-> "idle"]

Init ==
    /\ spec \in {g_registers[r] : r \in Regs}
    /\ present \in {{0}, {0, 1}}
    /\ \E v \in SUBSET (Bits \ spec.write_only) : blk = [b \in Blocks |-> IF b = 0 THEN v ELSE {}]
    /\ state = [b \in Blocks |-> "none"]
    /\ maps = [b \in Blocks |-> 0]
    /\ op = Idle
    /\ want = blk[0]
    /\ asked = {}

\* map_one for a block that is in state s
map_one(b) == IF b \in present THEN "mapped" ELSE "not_needed"
Mapped == {b \in Blocks : state[b] = "mapped"}

\* do_read_register: either block, without write-only bits.  What reading
\* those bits yields is up to the hardware (junk).
do_read_register(junk) ==
    ((UNION {blk[b] : b \in present}) \cup (junk \cap spec.write_only)) \ spec.write_only

BugComposed(value, junk) ==  \* preserved bits are written as 0
    value \ spec.preserve

\* do_write_register: preserved bits are written as 0, or as read
Composed(value, junk) ==
    (value \ spec.preserve)
        \cup (IF spec.access = "preserve" THEN do_read_register(junk) \cap spec.preserve ELSE {})

\* The hardware: a write-to-clear register drops the bits written as 1, and
\* write-only bits act without being stored.
HwWrite(old, value) ==
    IF spec.access = "clear" THEN old \ value ELSE value \ spec.write_only
Written(values) ==
    [b \in Blocks |-> IF b \in present THEN HwWrite(blk[b], values[b]) ELSE blk[b]]

\* What uacpi_write_register_field writes for a value of a field.  The test
\* for write-to-clear compares the wrong member, so such a register is read
\* and written back as well.
FieldValue(field, value, junk) == (do_read_register(junk) \ field) \cup (value \cap field)

\* ghost: the same on a plain register
Plain(field, value) ==
    IF spec.access = "clear" THEN want \ value ELSE (want \ field) \cup (value \ spec.write_only)

-----------------------------------------------------------------------------
Fields == {{b} : b \in Bits \ spec.preserve} \cup {Bits \ spec.preserve}

\* A call from the thread: uacpi_write_register_field, or uacpi_write_register
\* (the field of all bits that are not preserved)
Begin(field, value) ==
    /\ op = Idle
    /\ \A b \in Blocks : maps[b] < MaxMaps
    /\ op' = [kind |-> "load", field |-> field, value |-> value]
    /\ UNCHANGED <<spec, present, blk, state, maps, want, asked>>

\* ensure_register_mapped: both states are loaded without the lock ...
Load ==
    /\ op.kind = "load"
    /\ op' = [op EXCEPT !.kind = IF \E b \in Blocks : state[b] = "none" THEN "map" ELSE "access"]
    /\ UNCHANGED <<spec, present, blk, state, maps, want, asked>>

MapBlocks(need) ==
    /\ state' = [b \in Blocks |-> IF b \in need THEN map_one(b) ELSE state[b]]
    /\ maps' = [b \in Blocks |-> IF b \in need \cap present THEN maps[b] + 1 ELSE maps[b]]

\* ... and map_one looks again with it, where it keeps interrupts out
MapWithLock ==
    /\ op.kind = "map" /\ IrqOff
    /\ MapBlocks({b \in Blocks : state[b] = "none"})
    /\ op' = [op EXCEPT !.kind = "access"]
    /\ UNCHANGED <<spec, present, blk, want, asked>>

\* One of the blocks cannot be mapped: the call ends with the error.
MapFails ==
    /\ op.kind = "map" /\ IrqOff
    /\ \E b \in {x \in present : state[x] = "none"} :
           MapBlocks({x \in Blocks : x < b /\ state[x] = "none"})
    /\ op' = Idle
    /\ UNCHANGED <<spec, present, blk, want, asked>>

\* Where it does not, an interrupt may come while the block is being mapped.
MapCheck ==
    /\ op.kind = "map" /\ ~IrqOff
    /\ op' = [kind |-> "mapping", field |-> op.field, value |-> op.value,
              need |-> {b \in Blocks : state[b] = "none"}]
    /\ UNCHANGED <<spec, present, blk, state, maps, want, asked>>
MapDone ==
    /\ op.kind = "mapping"
    /\ MapBlocks(op.need)
    /\ op' = [kind |-> "access", field |-> op.field, value |-> op.value]
    /\ UNCHANGED <<spec, present, blk, want, asked>>

\* do_write_one for each block
Finish(written, field, value) ==
    /\ blk' = Written([b \in Blocks |-> written])
    /\ want' = Plain(field, value)
    /\ asked' = asked \cup ((written \cap spec.write_only) \ value)

Access ==
    /\ op.kind = "access"
    /\ \E junk \in SUBSET Bits :
           LET w == Composed(FieldValue(op.field, op.value, junk), junk)
           IN  IF IrqOff
               THEN Finish(w, op.field, op.value) /\ op' = Idle
               ELSE /\ op' = [kind |-> "store", field |-> op.field, value |-> op.value, data |-> w]
                    /\ UNCHANGED <<blk, want, asked>>
    /\ UNCHANGED <<spec, present, state, maps>>
Store ==
    /\ op.kind = "store"
    /\ Finish(op.data, op.field, op.value)
    /\ op' = Idle
    /\ UNCHANGED <<spec, present, state, maps>>

\* uacpi_write_registers, on the way to sleep and with interrupts off: each block
\* gets its own value, preserved bits included
WriteRegisters(value0, value1) ==
    /\ op = Idle
    /\ spec.access # "clear"
    /\ MapBlocks({b \in Blocks : state[b] = "none"})
    /\ blk' = Written([b \in Blocks |-> IF b = 0 THEN value0 ELSE value1])
    /\ want' = (value0 \cup (IF 1 \in present THEN value1 ELSE {})) \ spec.write_only
    /\ UNCHANGED <<spec, present, op, asked>>

\* The interrupt handler writes a field, all at once.
Interrupt(field, value) ==
    /\ MapBlocks({b \in Blocks : state[b] = "none"})
    /\ \E junk \in SUBSET Bits :
           Finish(Composed(FieldValue(field, value, junk), junk), field, value)
    /\ UNCHANGED <<spec, present, op>>

\* The hardware sets a status bit.
Status(b) ==
    /\ spec.access = "clear"
    /\ blk' = [blk EXCEPT ![0] = @ \cup {b}]
    /\ want' = want \cup {b}
    /\ UNCHANGED <<spec, present, state, maps, op, asked>>

\* uacpi_deinitialize_registers
Deinitialize ==
    /\ op = Idle
    /\ maps' = [b \in Blocks |-> IF b \in Mapped THEN maps[b] - 1 ELSE maps[b]]
    /\ state' = [b \in Blocks |-> "none"]
    /\ UNCHANGED <<spec, present, blk, op, want, asked>>

Next ==
    \/ \E field \in Fields : \E value \in SUBSET field : Begin(field, value)
    \/ \E b \in Bits \ spec.preserve : \E value \in {{}, {b}} : Interrupt({b}, value)
    \/ \E value0 \in SUBSET Bits : \E value1 \in {value0, {}} : WriteRegisters(value0, value1)
    \/ Load \/ MapWithLock \/ MapFails \/ MapCheck \/ MapDone \/ Access \/ Store
    \/ \E b \in Bits \ spec.preserve : Status(b)
    \/ Deinitialize

Spec == Init /\ [][Next]_vars

-----------------------------------------------------------------------------
(* Properties *)

\* Thread and interrupt write fields of one register as if it were one cell:
\* no field but the written one changes, in a register that lives in two
\* blocks and is written as a whole.
FieldsKept ==
    op = Idle /\ spec.access # "clear" =>
        (UNION {blk[b] : b \in present}) \ spec.write_only = want

\* Writing a field sets no write-only bit that nobody asked for: entering a
\* sleep state or releasing the global lock is not repeated by the next write.
NoSpuriousTrigger == asked = {}

\* A block is mapped while its state says so, and once: two first users that
\* meet do not both map it, and a restart unmaps what was mapped.
MappedOnce ==
    op = Idle => \A b \in Blocks : maps[b] = IF state[b] = "mapped" THEN 1 ELSE 0

\* All of it; the last two where the spinlock keeps the interrupt out between the
\* steps of a call.
RegistersSafe == NoSpuriousTrigger /\ (IrqOff => FieldsKept /\ MappedOnce)

\* PM1_STS is declared REGISTER_ACCESS_KIND_WRITE_TO_CLEAR: clearing the status
\* bit of one event leaves the other events pending.
OthersStayPending ==
    op = Idle /\ spec.access = "clear" => want \subseteq UNION {blk[b] : b \in present}
=============================================================================
