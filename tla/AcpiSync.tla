------------------------------ MODULE AcpiSync ------------------------------
(***************************************************************************)
(* The global lock, which keeps the threads of uACPI, the firmware and       *)
(* interrupts apart, on a host whose spinlocks keep interrupts out or not    *)
(* (IrqOff).                                                                 *)
(***************************************************************************)
EXTENDS FiniteSets, Sequences, Slots

CONSTANTS Aml, Api, MaxDepth, MaxSpins, MaxSeq, Waits    \* GlobalLock

Lock == INSTANCE GlobalLock WITH
    facs <- s, fw <- x2, irq <- x3, global_lock_pending <- x4, event <- x5, mutex <- x6, owner <- x7,
    depth <- x8, ns <- x9, seq <- x10, acquired <- x11, out_seq <- x12, pc <- x13, spins <- x14

\* The two kinds of threads are different, and none of them is nobody.
ASSUME LockAssumption == Lock!None \notin Lock!Clients /\ Aml \cap Api = {}

SyncInit == part = "lock" /\ Lock!Init
SyncNext == part = "lock" /\ Lock!Next /\ UNCHANGED part
SyncSpec == SyncInit /\ [][SyncNext]_<<part, xs>>

\* The global lock has one holder, also among the firmware's; a firmware that
\* waits for it is told of its release; nobody waits for a mutex of AML with the
\* namespace lock (uacpi_acquire_global_lock_from_firmware, release_aml_mutex).
LockSafe == part = "lock" => Lock!LockSafe
=============================================================================
