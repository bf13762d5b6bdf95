----------------------------- MODULE Interrupts -----------------------------
(***************************************************************************)
(* How interrupts reach their handlers: the walk over the MADT (init_apic),  *)
(* the entries of the I/O APIC, the gates of dynamic vectors and irq_table   *)
(* (cpu/apic.c, cpu/irq.c).  irq_create is a sequence of stores with         *)
(* interrupts enabled, so any pin may fire between two of them.              *)
(***************************************************************************)
EXTENDS Integers, Sequences

CONSTANTS
    Madts,      \* the tables to walk: records with a type and a length, and the length in all
    MaxEntries, \* records after which the walk gives up, 256 in the code
    Slots,      \* MAX_DYNAMIC_IRQS is their number
    Pins,       \* pins of the I/O APIC
    Handlers    \* functions; each one is installed with itself as the argument

VARIABLE s

None == "none"
First == 48                     \* DYNAMIC_IRQ_BASE
Keyboard == 33
Legacy == 0 .. 3                \* 0 .. 15 in the code

Free == [used |-> FALSE, func |-> None, arg |-> None]

Init ==
    \E m \in Madts :
        s = [madt |-> m, at |-> 1, offset |-> 0, phase |-> "walk", base |-> 0, chips |-> 0,
             overrides |-> [i \in Legacy |-> i],
             pins |-> [p \in Pins |-> [vector |-> 0, masked |-> TRUE]],
             gates |-> {32, Keyboard}, table |-> [k \in Slots |-> Free], todo |-> <<>>,
             lines |-> [k \in Slots |-> -1], reused |-> {}, called |-> {}]

-----------------------------------------------------------------------------
(* init_apic.  Lengths are in bytes; a header has two. *)

Malformed(len) == len < 2 \/ s.offset + len > s.madt.length

Walk ==
    /\ s.phase = "walk" /\ s.offset < s.madt.length
    /\ LET e == s.madt.entries[s.at] IN
       IF Malformed(e.len) THEN s' = [s EXCEPT !.phase = "halted"]
       ELSE s' = [s EXCEPT
           !.phase = IF s.at > MaxEntries THEN "halted" ELSE @, !.at = @ + 1, !.offset = @ + e.len,
           !.base = IF e.type = "io" THEN e.base ELSE @,
           !.chips = IF e.type = "io" THEN @ + 1 ELSE @,
           !.overrides = IF e.type = "override" /\ e.irq \in Legacy THEN [@ EXCEPT ![e.irq] = e.gsi] ELSE @]

\* set_ioapic_entry counts pins from the chip's base, unmask_ioapic from 0.
Set(pins, vector, gsi) ==
    IF gsi - s.base \in Pins THEN [pins EXCEPT ![gsi - s.base] = [vector |-> vector, masked |-> FALSE]]
    ELSE pins
Unmask(pins, gsi) == IF gsi \in Pins THEN [pins EXCEPT ![gsi].masked = FALSE] ELSE pins

\* The end of the walk, then init_apic_timer and initKeyboard: both give vector
\* 0x21 to the pins with the numbers of the old lines, and unmask the overridden ones.
Boot ==
    /\ s.phase = "walk" /\ s.offset >= s.madt.length
    /\ s' = [s EXCEPT !.phase = "on",
                      !.pins = Unmask(Set(Unmask(Set(@, Keyboard, 0), s.overrides[0]), Keyboard, 1),
                                      s.overrides[1])]

-----------------------------------------------------------------------------
(* irq_create, called by uacpi_kernel_install_interrupt_handler once a line *)

FreeSlots == {k \in Slots : ~s.table[k].used}
Gsi(irq) == IF irq \in Legacy THEN s.overrides[irq] ELSE irq

BugStores(k, h, irq) ==  \* the line is opened before the slot is filled
    <<[op |-> "used", k |-> k], [op |-> "gate", k |-> k], [op |-> "pin", k |-> k, gsi |-> Gsi(irq)],
      [op |-> "func", k |-> k, v |-> h], [op |-> "arg", k |-> k, v |-> h],
      [op |-> "unmask", k |-> k, gsi |-> Gsi(irq)]>>
Stores(k, h, irq) ==
    <<[op |-> "used", k |-> k], [op |-> "func", k |-> k, v |-> h], [op |-> "arg", k |-> k, v |-> h],
      [op |-> "gate", k |-> k], [op |-> "pin", k |-> k, gsi |-> Gsi(irq)],
      [op |-> "unmask", k |-> k, gsi |-> Gsi(irq)]>>

irq_create(h, irq) ==
    /\ s.phase = "on" /\ s.todo = <<>> /\ FreeSlots # {}   \* otherwise it returns 0
    /\ \A k \in Slots : s.table[k].used => s.lines[k] # irq /\ s.table[k].func # h
    /\ LET k == CHOOSE k \in FreeSlots : \A j \in FreeSlots : k <= j IN
       s' = [s EXCEPT !.todo = Stores(k, h, irq), !.lines[k] = irq]

irq_destroy(k) ==
    /\ s.phase = "on" /\ s.todo = <<>> /\ s.table[k].used
    /\ s' = [s EXCEPT !.reused = @ \cup {k},
             !.todo = <<[op |-> "free", k |-> k], [op |-> "func", k |-> k, v |-> None],
                        [op |-> "arg", k |-> k, v |-> None]>>]

Store ==
    /\ s.todo # <<>>
    /\ LET i == Head(s.todo)  st == [s EXCEPT !.todo = Tail(@)] IN
       s' = CASE i.op = "used" -> [st EXCEPT !.table[i.k].used = TRUE]
              [] i.op = "free" -> [st EXCEPT !.table[i.k].used = FALSE]
              [] i.op = "func" -> [st EXCEPT !.table[i.k].func = i.v]
              [] i.op = "arg" -> [st EXCEPT !.table[i.k].arg = i.v]
              [] i.op = "gate" -> [st EXCEPT !.gates = @ \cup {First + i.k}]
              [] i.op = "pin" -> [st EXCEPT !.pins = Set(@, First + i.k, i.gsi)]
              [] i.op = "unmask" -> [st EXCEPT !.pins = Unmask(@, i.gsi)]

\* A device raises its pin: the trampoline of the vector calls what is in its slot.
Fire(p) ==
    /\ s.phase = "on" /\ ~s.pins[p].masked /\ s.pins[p].vector >= First
    /\ LET k == s.pins[p].vector - First  e == s.table[k] IN
       /\ e.used /\ e.func # None
       /\ s' = [s EXCEPT !.called = {[slot |-> k, func |-> e.func, arg |-> e.arg, pin |-> p]}]

Next ==
    \/ Walk \/ Boot
    \/ \E h \in Handlers, irq \in Pins : irq_create(h, irq)
    \/ \E k \in Slots : irq_destroy(k)
    \/ Store
    \/ \E p \in Pins : Fire(p)

Spec == Init /\ [][Next]_s

-----------------------------------------------------------------------------
(* Properties *)

\* A handler is called with the argument it was installed with, wherever the
\* interrupt cuts into irq_create; a slot that irq_destroy freed is excepted,
\* since its old pin stays open while the next handler moves in.
OwnArgument == \A c \in s.called : c.slot \in s.reused \/ c.arg = c.func

\* With an I/O APIC whose lines start at 0, and no slot freed, an installed handler
\* gets its own line: the pin has its vector, a gate and no mask.
LineIsOpen ==
    (s.phase = "on" /\ s.todo = <<>> /\ s.base = 0 /\ s.reused = {}) =>
        \A k \in Slots :
            s.table[k].used /\ Gsi(s.lines[k]) \in Pins
            /\ (\A j \in Slots \ {k} : Gsi(s.lines[j]) # Gsi(s.lines[k]))
            => s.pins[Gsi(s.lines[k])] = [vector |-> First + k, masked |-> FALSE] /\ First + k \in s.gates

\* The walk ends at the end of the table, not beyond it, or halts.
WalkStaysInside == s.offset <= s.madt.length

InterruptsSafe == OwnArgument /\ LineIsOpen /\ WalkStaysInside
=============================================================================
