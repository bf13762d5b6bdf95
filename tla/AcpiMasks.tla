----------------------------- MODULE AcpiMasks ------------------------------
(***************************************************************************)
(* The masks of general purpose events, on the host that kernel_api.h asks   *)
(* for, and with registers that can be written.                              *)
(***************************************************************************)
EXTENDS Slots

CONSTANTS Gpes, MaxUsers, MaxWork, MaskCalls    \* Gpe

Masks == INSTANCE Gpe WITH Events <- Gpes, Devices <- {}, IrqOff <- TRUE, Works <- TRUE,
    IoFails <- FALSE, Calls <- MaskCalls,
    hw <- s, reg <- x2, ev <- x3, todo <- x4, work <- x5, done <- x6, owed <- x7, asked <- x8

\* Calls about one event; those about all of them write the registers whatever is masked.
ASSUME MasksAssumption == MaskCalls \cap {"all", "finalize"} = {}

MasksInit == part = "masks" /\ Masks!Init /\ Eight
MasksNext == part = "masks" /\ Masks!Next /\ UNCHANGED <<part, rest9>>
MasksSpec == MasksInit /\ [][MasksNext]_<<part, xs>>

\* An event is enabled exactly while uacpi_enable_gpe has users of it, and a
\* masked one stays disabled, whatever interrupt and deferred work do meanwhile.
MasksAgree == part = "masks" => Masks!UsersMatchMask /\ Masks!MaskedStaysOff
=============================================================================
