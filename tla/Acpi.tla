-------------------------------- MODULE Acpi --------------------------------
(***************************************************************************)
(* The life of uACPI, as a part of its own.                                  *)
(***************************************************************************)
EXTENDS Integers, Sequences, Behaviour

CONSTANTS Firmwares, States, Parent, MaxBoots    \* Lifecycle

Life == INSTANCE Lifecycle

\* Devices are numbered as the walk meets them: after the one above, and those below a device follow
\* it without a gap.  The packages of \_Sx hold numbers, and what is none.
ASSUME LifeAssumption ==
    /\ Parent \in Seq(Nat)
    /\ \A d \in Life!Devices : Parent[d] < d
    /\ \A d, e, f \in Life!Devices : d <= e /\ e <= f /\ Life!Below(f, d) => Life!Below(e, d)
    /\ States \subseteq Nat \ {0}
    /\ \A w \in Firmwares : /\ {w.legacy, w.smi, w.obeys, w.reduced, w.removes} \subseteq BOOLEAN
                            /\ \A state \in States : w.sx[state] \in Seq(Int)

LifeInit == part = "life" /\ Life!Init
LifeNext == part = "life" /\ Life!Next /\ UNCHANGED part
LifeSpec == LifeInit /\ [][LifeNext]_<<part, s>>

\* A failed initialisation is undone, devices start in order, and the machine sleeps as it was
\* prepared to.
LifeInOrder == part = "life" => Life!ResetUndoes /\ Life!DevicesInOrder /\ Life!SleepsAsPrepared
=============================================================================
