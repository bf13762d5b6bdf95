------------------------------- MODULE Drivers ------------------------------
(***************************************************************************)
(* The kernel's drivers: interrupts, the timer, the NVMe disk and the PCI    *)
(* bus, each a part of its own.                                              *)
(***************************************************************************)
EXTENDS Integers, Sequences, Behaviour

CONSTANTS
    Madts, MaxEntries, IrqSlots, Pins, Handlers,                 \* Interrupts
    Periods, MaxSleep, MaxWait, MaxTicks,                        \* Timer
    N, Lbas, Data, MaxPages,                                     \* Nvme
    Buses, Devices, Functions, Classes, MaxDevices, MaxDrivers   \* Pci

Irq == INSTANCE Interrupts WITH Slots <- IrqSlots
Tick == INSTANCE Timer
Disk == INSTANCE Nvme
Bus == INSTANCE Pci

\* Calibration finds a count, and a busy wait is one of at least 1.
ASSUME TimerAssumption ==
    /\ Periods \subseteq Nat \ {0}
    /\ MaxSleep \in Nat /\ MaxTicks \in Nat
    /\ MaxWait \in Nat \ {0}

ASSUME NvmeAssumption == N \in Nat \ {0}

ASSUME PciAssumption ==
    /\ Buses \in Nat /\ MaxDrivers \in Nat
    /\ Devices \in Nat \ {0} /\ Functions \in Nat \ {0}

DriversInit ==
    \/ part = "interrupts" /\ Irq!Init
    \/ part = "timer" /\ Tick!Init
    \/ part = "nvme" /\ Disk!Init
    \/ part = "pci" /\ Bus!Init

DriversNext ==
    /\ UNCHANGED part
    /\ \/ part = "interrupts" /\ Irq!Next
       \/ part = "timer" /\ Tick!Next
       \/ part = "nvme" /\ Disk!Next
       \/ part = "pci" /\ Bus!Next

DriversSpec == DriversInit /\ [][DriversNext]_<<part, s>>

-----------------------------------------------------------------------------
(* Properties; the modules explain them *)

\* A handler installed by irq_create is called with its own argument, and its line
\* is open once irq_create has returned; the walk over the MADT stays inside it.
InterruptsSafe == part = "interrupts" => Irq!InterruptsSafe

\* lapic_busy_wait_ticks leaves the periodic timer as it was; waits and sleeps last.
TimerRestored == part = "timer" => Tick!TimerRestored

\* nvme_wait_io takes a completion only after the device has posted it, and a read or write
\* that reports success has done what it says.
SuccessIsTrue == part = "nvme" => Disk!TakesOnlyPosted /\ Disk!SuccessIsTrue

\* The scan starts each driver once for each function of its class.
StartedOnce == part = "pci" => Bus!StartedOnce
=============================================================================
