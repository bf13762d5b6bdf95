-------------------------------- MODULE Timer -------------------------------
(***************************************************************************)
(* The timer of the local APIC (cpu/apic_timer.c) as sleep and uACPI use it  *)
(* (uacpi_kernel_stall and uacpi_kernel_sleep in cpu/kernel_api.c).  A busy  *)
(* wait borrows the one counter: it masks the periodic interrupt, counts     *)
(* once, and puts everything back.                                           *)
(***************************************************************************)
EXTENDS Naturals, Sequences

CONSTANTS
    Periods,   \* counts in 10 ms that calibration may find
    MaxSleep,  \* ticks asked of sleep
    MaxWait,   \* counts asked of a busy wait
    MaxTicks   \* bound on the tick counter

VARIABLE s

Init ==
    s = [lvt |-> "masked", initial |-> 0, count |-> 0, ticks |-> 0, period |-> 0,
         irq |-> FALSE, pc |-> "boot", start |-> 0, target |-> 0, saved |-> "masked",
         missed |-> FALSE, passed |-> 0]

\* init_apic_timer: the counter runs from 0xFFFFFFFF while the PIT counts 10 ms.
init_apic_timer ==
    /\ s.pc = "boot"
    /\ \E t \in Periods :
           s' = [s EXCEPT !.pc = "idle", !.period = t, !.lvt = "periodic", !.initial = t, !.count = t]

\* The hardware counts down.  In periodic mode it starts again and interrupts;
\* otherwise it stays at 0.  `passed' is the time a busy wait has run.
Clock ==
    /\ s.pc # "boot" /\ s.count > 0
    /\ s' = [s EXCEPT
          !.count = IF @ > 1 THEN @ - 1 ELSE IF s.lvt = "periodic" THEN s.initial ELSE 0,
          !.irq = @ \/ (s.count = 1 /\ s.lvt = "periodic"),
          !.missed = @ \/ (s.irq /\ s.count = 1 /\ s.lvt = "periodic"),
          !.passed = IF s.pc \in {"count", "spin", "restore", "restart"} /\ @ < MaxWait THEN @ + 1 ELSE @]

\* apic_timer_handler
apic_timer_handler ==
    /\ s.irq /\ s.ticks < MaxTicks
    /\ s' = [s EXCEPT !.irq = FALSE, !.ticks = @ + 1, !.pc = IF @ = "halted" THEN "test" ELSE @]

-----------------------------------------------------------------------------
(* sleep *)

Sleep(n) ==
    /\ s.pc = "idle" /\ s.ticks + n <= MaxTicks
    /\ s' = [s EXCEPT !.pc = "test", !.start = s.ticks, !.target = n]
Test ==
    /\ s.pc = "test"
    /\ s' = [s EXCEPT !.pc = IF s.ticks - s.start < s.target THEN "halt" ELSE "slept"]
Halt == s.pc = "halt" /\ s' = [s EXCEPT !.pc = "halted"]
Slept == s.pc = "slept" /\ s' = [s EXCEPT !.pc = "idle", !.start = 0, !.target = 0]

-----------------------------------------------------------------------------
(* lapic_busy_wait_ticks.  uacpi_kernel_stall asks for                       *)
(* period * usec / 10000 counts, uacpi_kernel_sleep for period / 10 once for *)
(* every millisecond; both may come to 0, which counts as 1.                 *)

BugSave == s.pc = "save" /\ s' = [s EXCEPT !.pc = "mask", !.saved = "masked"]
Save == s.pc = "save" /\ s' = [s EXCEPT !.pc = "mask", !.saved = s.lvt]
Wait(n) ==
    /\ s.pc = "idle"
    /\ s' = [s EXCEPT !.pc = "save", !.target = IF n = 0 THEN 1 ELSE n, !.passed = 0]
Mask == s.pc = "mask" /\ s' = [s EXCEPT !.pc = "load", !.lvt = "masked"]
Load == s.pc = "load" /\ s' = [s EXCEPT !.pc = "count", !.initial = s.target, !.count = s.target]
Spin == s.pc = "count" /\ s.count = 0 /\ s' = [s EXCEPT !.pc = "restore"]
Restore == s.pc = "restore" /\ s' = [s EXCEPT !.pc = "restart", !.lvt = s.saved]
Restart ==
    /\ s.pc = "restart"
    /\ s' = [s EXCEPT !.pc = "waited", !.initial = s.period, !.count = s.period]
Waited == s.pc = "waited" /\ s' = [s EXCEPT !.pc = "idle", !.target = 0, !.passed = 0]

Next ==
    \/ init_apic_timer \/ Clock \/ apic_timer_handler
    \/ \E n \in 0 .. MaxSleep : Sleep(n)
    \/ Test \/ Halt \/ Slept
    \/ \E n \in 0 .. MaxWait : Wait(n)
    \/ Save \/ Mask \/ Load \/ Spin \/ Restore \/ Restart \/ Waited

Spec == Init /\ [][Next]_s

-----------------------------------------------------------------------------
(* Properties *)

\* Whenever nobody waits, the timer ticks every 10 ms, as before the wait; the
\* wait took its time, and sleep returned after its ticks.
TimerRestored ==
    /\ s.pc \in {"idle", "test", "halt", "halted", "slept", "waited"} =>
           s.lvt = "periodic" /\ s.initial = s.period /\ s.count \in 1 .. s.period
    /\ s.pc = "waited" => s.passed >= s.target
    /\ s.pc = "slept" => s.ticks >= s.start + s.target

\* Does not hold (README, "What does not hold").
\* The tick counter is the kernel's clock (uacpi_kernel_get_nanoseconds_since_boot):
\* a wait of a whole period or more advances it.
WaitIsCounted == s.pc = "waited" /\ s.passed > s.period => s.ticks > s.start
=============================================================================
