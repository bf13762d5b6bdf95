-------------------------------- MODULE Ext2 --------------------------------
(***************************************************************************)
(* Finding disks' file systems and mounting them: drivers/x86/disk.c and     *)
(* fs/ext2/.  Any read may fail, and any allocation.  A superblock and the   *)
(* group descriptors are records of the fields the code looks at; a pointer  *)
(* block is named by the way that leads to it from the inode.                *)
(***************************************************************************)
EXTENDS Integers, Sequences

CONSTANTS
    Base,               \* size of the smallest block, 1024 in the code
    OldInode, OldFirst, \* EXT2_GOOD_OLD_INODE_SIZE and _FIRST_INO
    DescSize,           \* bytes of a group descriptor
    Direct,             \* direct blocks of an inode, 12 in the code
    Disks,              \* [lba, style, parts], a part is [linux, magic, sb, shift, dir]
    MaxMounts           \* length of kernel.ext2_partitions

VARIABLE s

Up(a, b) == (a + b - 1) \div b
PowerOfTwo(n) == \E k \in 0 .. 8 : n = 2^k
\* bytes_to_blocks
ToBlocks(start, size, lba) ==
    [lba |-> start \div lba, count |-> IF Up(size, lba) = 0 THEN 1 ELSE Up(size, lba), offset |-> start % lba]

-----------------------------------------------------------------------------
(* ext2_validate_sb and ext2_compute_layout *)

BlockSize(sb) == Base * 2^sb.log
Groups(sb) == Up(sb.blocks - sb.first, sb.bpg)
InodeSize(sb) == IF sb.rev = 0 THEN OldInode ELSE sb.isize
FirstIno(sb) == IF sb.rev = 0 THEN OldFirst ELSE sb.ino1

BugFitsSector(sb, lba) == BlockSize(sb) % lba = 0 \/ lba % BlockSize(sb) = 0
FitsSector(sb, lba) == BlockSize(sb) >= lba /\ BlockSize(sb) % lba = 0

InodesFit(sb) == sb.icount # 0 /\ sb.icount <= Groups(sb) * sb.ipg

ext2_validate_sb(sb, lba) ==
    LET bs == BlockSize(sb) IN
    /\ sb.log <= 2 /\ FitsSector(sb, lba)
    /\ sb.rev <= 1 /\ ~sb.incompat
    /\ sb.rev = 1 => /\ sb.isize \in OldInode .. bs /\ PowerOfTwo(sb.isize)
                     /\ sb.ino1 >= OldFirst
    /\ sb.blocks # 0 /\ sb.first < sb.blocks
    /\ sb.bpg \in 1 .. 8 * bs /\ sb.ipg \in 1 .. 8 * bs
    /\ InodesFit(sb) /\ sb.icount >= FirstIno(sb)
    /\ Up(sb.ipg * InodeSize(sb), bs) < sb.bpg
    /\ sb.first + 1 + Up(Groups(sb) * DescSize, bs) <= sb.blocks

\* The blocks of a group, and where its descriptor puts its bitmaps and inodes
FirstOf(sb, g) == sb.first + g * sb.bpg
LastOf(sb, g) == IF FirstOf(sb, g) + sb.bpg - 1 >= sb.blocks THEN sb.blocks - 1
                 ELSE FirstOf(sb, g) + sb.bpg - 1
TableBlocks(sb) == Up(sb.ipg * InodeSize(sb), BlockSize(sb))
Desc(sb, shift, g) == [bitmaps |-> FirstOf(sb, g) + shift[1], table |-> FirstOf(sb, g) + shift[2]]

DescsInRange(sb, shift) ==
    \A g \in 0 .. Groups(sb) - 1 :
        LET d == Desc(sb, shift, g) IN
        /\ d.bitmaps \in FirstOf(sb, g) .. LastOf(sb, g)
        /\ d.table >= FirstOf(sb, g) /\ d.table + TableBlocks(sb) - 1 <= LastOf(sb, g)

\* ext2_read_inode: the block an inode is in, 0 when it refuses
InodeBlock(sb, shift, ino) ==
    LET group == (ino - 1) \div sb.ipg
        byte == ((ino - 1) % sb.ipg) * InodeSize(sb)
        block == Desc(sb, shift, group).table + byte \div BlockSize(sb) IN
    IF ino = 0 \/ ino > sb.icount \/ group >= Groups(sb) \/ block >= sb.blocks THEN 0 ELSE block

-----------------------------------------------------------------------------
(* ext2_bmap.  A pointer is the way to its block, <<1>>, <<2>> or <<3>> from  *)
(* the inode; `holes' are pointers with value 0, `bad' blocks that are out   *)
(* of range or cannot be read.                                               *)

Fail == [ok |-> FALSE, block |-> <<>>]
Hole == [ok |-> TRUE, block |-> <<>>]
Follow(f, r, i) ==
    IF ~r.ok \/ r.block = <<>> THEN r
    ELSE IF r.block \in f.bad THEN Fail
    ELSE IF Append(r.block, i) \in f.holes THEN Hole
    ELSE [ok |-> TRUE, block |-> Append(r.block, i)]
Slot(f, p) == IF p \in f.holes THEN Hole ELSE [ok |-> TRUE, block |-> p]

BugTriple(f, fb, ppb) ==  \* the remainder of the first division is not taken
    Follow(f, Follow(f, Follow(f, Slot(f, <<3>>), fb \div (ppb * ppb)), fb \div ppb), fb % ppb)
Triple(f, fb, ppb) ==
    LET rem == fb % (ppb * ppb) IN
    Follow(f, Follow(f, Follow(f, Slot(f, <<3>>), fb \div (ppb * ppb)), rem \div ppb), rem % ppb)

ext2_bmap(f, block, ppb) ==
    LET single == block - Direct  double == single - ppb  triple == double - ppb * ppb IN
    IF block < Direct THEN Slot(f, <<0, block>>)
    ELSE IF single < ppb THEN Follow(f, Slot(f, <<1>>), single)
    ELSE IF double < ppb * ppb THEN Follow(f, Follow(f, Slot(f, <<2>>), double \div ppb), double % ppb)
    ELSE IF triple < ppb * ppb * ppb THEN Triple(f, triple, ppb)
    ELSE Fail

-----------------------------------------------------------------------------
(* init_disk.  Each probe has a page of its own, which it gives back; it goes *)
(* on in page 0 when there is none.                                          *)

None == [part |-> 0, read_only |-> FALSE]
Init ==
    \E d \in Disks :
        s = [disk |-> d, pc |-> "selftest", i |-> 0, pages |-> {}, heap |-> {}, fs |-> None,
             mounts |-> <<>>, root |-> 0, lock |-> 0, written |-> {}]

Part == s.disk.parts[s.i]
Selftest ==
    /\ s.pc = "selftest"
    /\ \E ok \in BOOLEAN : s' = [s EXCEPT !.pc = IF ok THEN "style" ELSE "idle"]

\* disk_gpt reads no header into its count of partitions and so finds none.
disk_gpt == [s EXCEPT !.pc = "idle"]
disk_mbr == [s EXCEPT !.pc = "part", !.i = 1]
determine_disk_type ==
    /\ s.pc = "style"
    /\ \E lba1, lba0 \in BOOLEAN :
          LET style == IF ~lba1 THEN "none"
                       ELSE IF s.disk.style = "gpt" THEN "gpt"
                       ELSE IF lba0 THEN s.disk.style ELSE "none" IN
          s' = CASE style = "gpt" -> disk_gpt
                 [] style = "mbr" -> disk_mbr
                 [] OTHER -> [s EXCEPT !.pc = "raw", !.i = 1]

Found ==
    [s EXCEPT !.pc = "init", !.heap = @ \cup {<<"fs", s.i>>}, !.fs = [part |-> s.i, read_only |-> FALSE]]

\* Only disk_try_linux, which looks at the whole disk, tests what kmalloc returned.
disk_do_mbr_linux ==
    /\ s.pc = "part"
    /\ \E read, memory \in BOOLEAN :
          s' = IF ~Part.linux \/ ~read \/ ~Part.magic THEN [s EXCEPT !.pc = "done"]
               ELSE IF memory THEN Found ELSE [s EXCEPT !.pc = "crashed"]
disk_try_linux ==
    /\ s.pc = "raw"
    /\ \E read, memory \in BOOLEAN :
          s' = IF read /\ s.disk.style = "raw" /\ Part.magic /\ memory THEN Found
               ELSE [s EXCEPT !.pc = "idle"]

\* ext2_init, ext2_fill_super and what follows when one of them fails
Failed(st) ==
    [st EXCEPT !.pc = "done", !.fs = None, !.pages = @ \ {<<"io", st.i>>},
               !.heap = @ \ {<<"fs", st.i>>, <<"groups", st.i>>}]

InitFs ==
    /\ s.pc = "init"
    /\ \E page \in BOOLEAN :
          s' = IF Len(s.mounts) >= MaxMounts \/ ~page THEN Failed(s)
               ELSE [s EXCEPT !.pc = "super", !.pages = @ \cup {<<"io", s.i>>}]

Super ==
    /\ s.pc = "super"
    /\ \E read \in BOOLEAN :
          s' = IF read /\ Part.magic /\ ext2_validate_sb(Part.sb, s.disk.lba)
               THEN [s EXCEPT !.pc = "descs", !.fs.read_only = Part.sb.ro]
               ELSE Failed(s)

Descs ==
    /\ s.pc = "descs"
    /\ \E memory, page, read \in BOOLEAN :
          s' = IF memory /\ page /\ read /\ DescsInRange(Part.sb, Part.shift)
               THEN [s EXCEPT !.pc = "root", !.heap = @ \cup {<<"groups", s.i>>}]
               ELSE Failed(s)

\* The file system's lock is taken for io_buf; ext2_read_blocks takes it again
\* where a block is smaller than a sector, and would wait for itself.
Locked(st, p) == IF BlockSize(st.disk.parts[p].sb) < st.disk.lba THEN 2 ELSE 0

Root ==  \* ext2_check_root, ext2_setup_super
    /\ s.pc = "root"
    /\ \E read \in BOOLEAN :
          LET st == [s EXCEPT !.lock = Locked(s, s.i)] IN
          s' = IF read /\ Part.dir /\ InodeBlock(Part.sb, Part.shift, 2) # 0
               THEN [st EXCEPT !.pc = "done", !.mounts = Append(@, s.fs), !.fs = None,
                               !.root = IF @ = 0 THEN s.i ELSE @]
               ELSE Failed(st)

Done ==
    /\ s.pc = "done"
    /\ s' = IF s.disk.style # "mbr" \/ s.i = Len(s.disk.parts) THEN [s EXCEPT !.pc = "idle"]
            ELSE [s EXCEPT !.pc = "part", !.i = @ + 1]

\* ext2_write_blocks and ext2_write_superblock, which nothing calls yet
WriteBlock(m, block) ==
    /\ s.pc = "idle" /\ m \in DOMAIN s.mounts
    /\ LET fs == s.mounts[m]  sb == s.disk.parts[fs.part].sb IN
       /\ ~fs.read_only /\ block < sb.blocks
       /\ s' = [s EXCEPT !.lock = Locked(s, fs.part), !.written = {<<fs.part, block>>}]
WriteSuper(m) ==
    /\ s.pc = "idle" /\ m \in DOMAIN s.mounts /\ ~s.mounts[m].read_only
    /\ s' = [s EXCEPT !.written = {<<s.mounts[m].part, ToBlocks(Base, Base, s.disk.lba).lba>>}]

Next ==
    \/ Selftest \/ determine_disk_type \/ disk_do_mbr_linux \/ disk_try_linux \/ InitFs \/ Super \/ Descs \/ Root \/ Done
    \/ \E m \in 1 .. MaxMounts : WriteSuper(m) \/ \E block \in {0, 1, 40} : WriteBlock(m, block)

Spec == Init /\ [][Next]_s

-----------------------------------------------------------------------------
(* Properties *)

\* The partitions with a mounted file system
Mounted == {s.mounts[m].part : m \in DOMAIN s.mounts}

\* When init_disk returns, what was taken for file systems that could not be
\* mounted has been given back, whichever step failed, and what a mounted one
\* needs is still there; its lock is never taken by its holder.
MountKeepsBooks ==
    /\ s.pc = "idle" =>
          /\ s.pages = {<<"io", i>> : i \in Mounted}
          /\ s.heap = {<<w, i>> : w \in {"fs", "groups"}, i \in Mounted}
          /\ (s.root = 0) = (Mounted = {}) /\ s.root \in Mounted \cup {0}
    /\ s.lock < 2

\* Every inode of a mounted file system lies in its own group's table.
InodesInTheirTable ==
    \A m \in DOMAIN s.mounts :
        LET p == s.disk.parts[s.mounts[m].part] IN
        \A ino \in 1 .. p.sb.icount :
            LET g == (ino - 1) \div p.sb.ipg  t == Desc(p.sb, p.shift, g).table IN
            InodeBlock(p.sb, p.shift, ino) \in (t .. t + TableBlocks(p.sb) - 1) \cap (1 .. p.sb.blocks - 1)

\* Where a block of a file is found: the way to the n-th block is n written in
\* base ppb, and the first hole or unreadable block on the way decides.
Ways(ppb) == UNION {[1 .. l -> 0 .. ppb - 1] : l \in 1 .. 3}
Position(w, ppb) ==
    LET value(k) == IF k > Len(w) THEN 0 ELSE w[k] * ppb^(Len(w) - k)
        smaller == IF Len(w) = 1 THEN 0 ELSE IF Len(w) = 2 THEN ppb ELSE ppb + ppb * ppb IN
    Direct + smaller + value(1) + value(2) + value(3)
Outcome(f, w) ==
    LET way == <<Len(w)>> \o w
        at(k) == SubSeq(way, 1, k)
        ends == {k \in 1 .. Len(way) : at(k) \in f.holes \/ (k < Len(way) /\ at(k) \in f.bad)} IN
    IF ends = {} THEN [ok |-> TRUE, block |-> way]
    ELSE IF at(CHOOSE k \in ends : \A j \in ends : k <= j) \in f.holes THEN Hole ELSE Fail
\* ext2_bmap finds the block that this definition finds, a hole or a failure, on both sides of
\* every border between the levels of indirection.
BmapAgrees(files, ppb) ==
    \A f \in files : \A w \in Ways(ppb) : ext2_bmap(f, Position(w, ppb), ppb) = Outcome(f, w)
=============================================================================
