------------------------------- MODULE MCEvents -----------------------------
(***************************************************************************)
(* Events, hardware registers and locks of uACPI, for TLC: the parts of      *)
(* AcpiEvents, AcpiSync and AcpiMasks on the host that kernel_api.h asks for; the same  *)
(* code on this kernel, whose spinlocks do not keep interrupts out and which *)
(* neither waits nor runs work; sleep and wake; and the read-write lock,     *)
(* which has its variables by name and rests in its initial state while      *)
(* another part runs.                                                        *)
(***************************************************************************)
EXTENDS RwLock, AcpiEvents, AcpiSync, AcpiMasks

CONSTANTS
    Parts, Device,
    HandlerCalls    \* Gpe

mcvars == <<part, xs, vars>>

MCEventIds == 0 .. 3

\* A client of the API besides a thread that runs AML
LockHost == INSTANCE GlobalLock WITH Aml <- {"a"}, Api <- {"c"}, IrqOff <- FALSE, Waits <- FALSE,
    facs <- s, fw <- x2, irq <- x3,
    global_lock_pending <- x4, event <- x5, mutex <- x6, owner <- x7, depth <- x8, ns <- x9,
    seq <- x10, acquired <- x11, out_seq <- x12, pc <- x13, spins <- x14

RegHost == INSTANCE Registers WITH Regs <- {"PM1_EN", "PM1_CNT"},
    Bits <- {"sci_en", "trigger", "rsvd"}, IrqOff <- FALSE, spec <- s,
    present <- x2, blk <- x3, state <- x4, maps <- x5, op <- x6, want <- x7, asked <- x8

\* Clients that do not mask events
Handlers == INSTANCE Gpe WITH Events <- Gpes, Devices <- {}, Works <- TRUE, IoFails <- FALSE,
    Calls <- HandlerCalls,
    hw <- s, reg <- x2, ev <- x3, todo <- x4, work <- x5, done <- x6, owed <- x7, asked <- x8

GpeHost == INSTANCE Gpe WITH Events <- Gpes, Devices <- {}, MaxUsers <- 1,
    IrqOff <- FALSE, Works <- FALSE, IoFails <- FALSE, Calls <- MaskCalls,
    hw <- s, reg <- x2, ev <- x3, todo <- x4, work <- x5, done <- x6, owed <- x7, asked <- x8

\* Sleep and wake, of one event and of two
PowerCalls == {"enable", "suspend", "resume", "clear", "setup_wake", "wake", "all", "finalize"}
Power == INSTANCE Gpe WITH Events <- Gpes, Devices <- {Device}, MaxUsers <- 1, MaxWork <- 1,
    IrqOff <- TRUE, Works <- TRUE, IoFails <- TRUE, Calls <- PowerCalls,
    hw <- s, reg <- x2, ev <- x3, todo <- x4, work <- x5, done <- x6, owed <- x7, asked <- x8
Wake == INSTANCE Gpe WITH Events <- {0, 1}, Devices <- {}, MaxUsers <- 1, MaxWork <- 1,
    IrqOff <- TRUE, Works <- TRUE, IoFails <- FALSE, Calls <- {"setup_wake", "wake"},
    hw <- s, reg <- x2, ev <- x3, todo <- x4, work <- x5, done <- x6, owed <- x7, asked <- x8

-----------------------------------------------------------------------------
MCInit ==
    /\ part \in Parts
    /\ Init
    /\ \/ part = "rw lock" /\ s = 0 /\ x2 = 0 /\ x3 = 0 /\ x4 = 0 /\ x5 = 0 /\ x6 = 0 /\ x7 = 0
                           /\ x8 = 0 /\ Eight
       \/ EventsInit
       \/ SyncInit
       \/ MasksInit
       \/ part = "handlers" /\ Handlers!Init /\ Eight
       \/ part = "lock host" /\ LockHost!Init
       \/ part = "registers host" /\ RegHost!Init /\ Eight
       \/ part = "gpe host" /\ GpeHost!Init /\ Eight
       \/ part = "power" /\ Power!Init /\ Eight
       \/ part = "wake" /\ Wake!Init /\ Eight

MCNext ==
    \/ part = "rw lock" /\ Next /\ UNCHANGED <<part, xs>>
    \/ EventsNext /\ UNCHANGED vars
    \/ SyncNext /\ UNCHANGED vars
    \/ MasksNext /\ UNCHANGED vars
    \/ /\ UNCHANGED <<part, vars>>
       /\ \/ part = "handlers" /\ Handlers!Next /\ UNCHANGED rest9
          \/ part = "lock host" /\ LockHost!Next
          \/ part = "registers host" /\ RegHost!Next /\ UNCHANGED rest9
          \/ part = "gpe host" /\ GpeHost!Next /\ UNCHANGED rest9
          \/ part = "power" /\ Power!Next /\ UNCHANGED rest9
          \/ part = "wake" /\ Wake!Next /\ UNCHANGED rest9

MCSpec == MCInit /\ [][MCNext]_mcvars

-----------------------------------------------------------------------------
(* Properties; Exclusion is the read-write lock's own *)

\* An event that was dispatched is restored or still owed by somebody.
NoLostEvent == part = "handlers" => Handlers!NoLostEvent

\* On this kernel as well the global lock has one holder, registers keep their fields, no
\* event is lost and none runs with the trigger or the handler of another; and users and masks
\* agree through sleep and wake, when writes fail.
HostSafe ==
    /\ part = "lock host" => LockHost!LockSafe
    /\ part = "registers host" => RegHost!RegistersSafe
    /\ part = "gpe host" => GpeHost!NoLostEvent /\ GpeHost!HandlerMatches
    /\ part = "power" => Power!UsersMatchMask

\* Acknowledging one status bit leaves the others pending.
OthersStayPending == part = "registers" => Reg!OthersStayPending
=============================================================================
