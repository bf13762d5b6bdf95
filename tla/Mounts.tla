------------------------------- MODULE Mounts -------------------------------
(***************************************************************************)
(* Mounting a disk, as a part of its own.                                    *)
(***************************************************************************)
EXTENDS Integers, Sequences, Behaviour

CONSTANTS Base, OldInode, OldFirst, DescSize, Direct, Disks, MaxMounts    \* Ext2

Mount == INSTANCE Ext2

\* Disks with any number of partitions, which hold any superblocks; the size of a sector, the
\* smallest block and the exponent of the block size are numbers.
ASSUME Ext2Assumption ==
    /\ Base \in Nat
    /\ \A d \in Disks :
          /\ d.lba \in Nat
          /\ Len(d.parts) \in Nat \ {0}
          /\ \A k \in 1 .. Len(d.parts) : d.parts[k].sb.log \in Nat /\ d.parts[k].sb.ro \in BOOLEAN

MountsInit == part = "ext2" /\ Mount!Init
MountsNext == part = "ext2" /\ Mount!Next /\ UNCHANGED part
MountsSpec == MountsInit /\ [][MountsNext]_<<part, s>>

\* init_disk gives back what failed mounts took, and never waits for itself.
MountKeepsBooks == part = "ext2" => Mount!MountKeepsBooks
=============================================================================
