------------------------------- MODULE Slots --------------------------------
(***************************************************************************)
(* The variables of a behaviour of one part among several, where a part has  *)
(* more than one: s, x2, x3, ... (0 where it has fewer).                     *)
(***************************************************************************)
EXTENDS Integers, Behaviour

CONSTANT IrqOff  \* the host's spinlocks keep interrupts out

VARIABLES x2, x3, x4, x5, x6, x7, x8, x9, x10, x11, x12, x13, x14

rest9 == <<x9, x10, x11, x12, x13, x14>>
xs == <<s, x2, x3, x4, x5, x6, x7, x8, x9, x10, x11, x12, x13, x14>>
Eight == x9 = 0 /\ x10 = 0 /\ x11 = 0 /\ x12 = 0 /\ x13 = 0 /\ x14 = 0
=============================================================================
