-------------------------------- MODULE Vfs ---------------------------------
(***************************************************************************)
(* The file system in memory (src/src/fs/vfs.c): one directory, a table of *)
(* inodes and an array of data blocks.  A block is free when its first     *)
(* byte is 0, an inode when its mode is 0; there is no other record of     *)
(* what is free.  Only blocks[0] of an inode is ever used.                 *)
(*                                                                         *)
(* A string is a sequence of characters, shorter than BLOCK_SIZE; <<>> is  *)
(* the empty string, and also what a block of zeros holds.                 *)
(***************************************************************************)
EXTENDS Integers, Sequences, FiniteSets

CONSTANTS
    MAX_FILES, MAX_DATABLOCKS, INITIAL_CAPACITY,
    U32, SIZE_MAX1,   \* 2^32 and 2^64: where uint32_t and size_t wrap
    Names, Contents   \* the arguments of calls

ASSUME VfsAssumption ==
    /\ MAX_FILES \in Nat /\ MAX_DATABLOCKS \in Nat
    /\ INITIAL_CAPACITY \in Nat /\ MAX_FILES < INITIAL_CAPACITY
    /\ U32 \in Nat /\ U32 > MAX_FILES + MAX_DATABLOCKS
    /\ SIZE_MAX1 \in Nat \ {0}
    /\ \A d \in Contents : d = <<>> \/ Len(d) \in Nat \ {0}

VARIABLES
    inode,        \* inode_table
    data,         \* data_blocks
    files,        \* root->files; the field wrote is a ghost: what was stored
    capacity,     \* root->capacity
    total_files, total_size, free_blocks, inode_count,
    intact        \* no write has left its array so far

counters == <<total_files, total_size, free_blocks, inode_count>>
vars == <<inode, data, files, capacity, counters, intact>>

Inodes == 0 .. MAX_FILES - 1
Blocks == 0 .. MAX_DATABLOCKS - 1
NoBlock == -1
NULL == <<"NULL">>

NoInode == [mode |-> "free", size |-> 0, block |-> NoBlock]

Init ==
    /\ inode = [k \in Inodes |-> NoInode]
    /\ data = [b \in Blocks |-> <<>>]
    /\ files = <<>>
    /\ capacity = INITIAL_CAPACITY
    /\ total_files = 0 /\ total_size = 0
    /\ free_blocks = MAX_DATABLOCKS /\ inode_count = MAX_FILES
    /\ intact = TRUE

Least(S) == CHOOSE k \in S : \A l \in S : k <= l

FreeInodes == {k \in Inodes : inode[k].mode = "free"}
BugFreeBlocks == {b \in Blocks : TRUE}  \* no test of the block
FreeBlocks == {b \in Blocks : data[b] = <<>>}
BlockNum == IF FreeBlocks = {} THEN NoBlock ELSE Least(FreeBlocks)

Matches(name) == {k \in DOMAIN files : files[k].name = name}

read_file(name) ==
    IF Matches(name) = {} THEN NULL
    ELSE LET node == inode[files[Least(Matches(name))].ino]
         IN  IF node.mode = "dir" \/ node.block = NoBlock THEN NULL ELSE data[node.block]

-----------------------------------------------------------------------------
Grow == capacity' = IF Len(files) >= capacity THEN 2 * capacity ELSE capacity

\* The entry at the end of the directory, and the counters of entries.
AddEntry(name, k, wrote) ==
    /\ files' = Append(files, [name |-> name, ino |-> k, wrote |-> wrote])
    /\ total_files' = total_files + 1
    /\ inode_count' = (inode_count - 1) % U32

\* The directory grows even if there is no inode.
CreateNoInode ==
    /\ intact
    /\ FreeInodes = {}
    /\ Grow
    /\ UNCHANGED <<inode, data, files, counters, intact>>

StoreFile(name, d) ==
    /\ intact
    /\ FreeInodes # {} /\ BlockNum # NoBlock
    /\ Grow
    /\ inode' = [inode EXCEPT ![Least(FreeInodes)] =
                    [mode |-> "file", size |-> Len(d), block |-> BlockNum]]
    /\ data' = [data EXCEPT ![BlockNum] = d]
    /\ AddEntry(name, Least(FreeInodes), d)
    /\ total_size' = (total_size + Len(d)) % SIZE_MAX1
    /\ free_blocks' = (free_blocks - 1) % U32
    /\ UNCHANGED intact

\* No block is free: the copy goes to data_blocks[-1], over the inode table
\* and the pointers to the root and the superblock.  The model stops here.
StoreOutside ==
    /\ intact
    /\ FreeInodes # {} /\ BlockNum = NoBlock
    /\ intact' = FALSE
    /\ UNCHANGED <<inode, data, files, capacity, counters>>

create_file(name, d) == CreateNoInode \/ StoreFile(name, d) \/ StoreOutside

DeleteNoFile(name) ==
    /\ intact
    /\ Matches(name) = {}
    /\ UNCHANGED vars

BugShiftDown(s, k) ==  \* starts one entry too late
    [l \in 1 .. Len(s) - 1 |-> IF l <= k THEN s[l] ELSE s[l + 1]]

\* The loop that moves the entries behind the deleted one.
ShiftDown(s, k) == [l \in 1 .. Len(s) - 1 |-> IF l < k THEN s[l] ELSE s[l + 1]]

BugDeleteEntry(name) ==  \* the block is not cleared
    LET k == Least(Matches(name))
        ino == files[k].ino
        b == inode[ino].block
    IN  /\ intact
        /\ Matches(name) # {}
        /\ free_blocks' = IF b = NoBlock THEN free_blocks ELSE (free_blocks + 1) % U32
        /\ inode' = [inode EXCEPT ![ino] = NoInode]
        /\ inode_count' = (inode_count + 1) % U32
        /\ files' = ShiftDown(files, k)
        /\ total_files' = total_files - 1
        /\ total_size' = (total_size - inode'[ino].size) % SIZE_MAX1
        /\ UNCHANGED <<data, capacity, intact>>

\* The size subtracted from total_size is read after it was set to 0.
DeleteEntry(name) ==
    LET k == Least(Matches(name))
        ino == files[k].ino
        b == inode[ino].block
    IN  /\ intact
        /\ Matches(name) # {}
        /\ data' = [x \in Blocks |-> IF x = b THEN <<>> ELSE data[x]]
        /\ free_blocks' = IF b = NoBlock THEN free_blocks ELSE (free_blocks + 1) % U32
        /\ inode' = [inode EXCEPT ![ino] = NoInode]
        /\ inode_count' = (inode_count + 1) % U32
        /\ files' = ShiftDown(files, k)
        /\ total_files' = total_files - 1
        /\ total_size' = (total_size - inode'[ino].size) % SIZE_MAX1
        /\ UNCHANGED <<capacity, intact>>

delete_file(name) == DeleteNoFile(name) \/ DeleteEntry(name)

\* kmalloc may fail, and then nothing has changed yet.  A name that exists is
\* reported, and the directory is created all the same.
DirNoMemory ==
    /\ intact
    /\ UNCHANGED vars

MakeDirectory(name) ==
    /\ intact
    /\ FreeInodes # {}
    /\ inode' = [inode EXCEPT ![Least(FreeInodes)] =
                    [mode |-> "dir", size |-> 0, block |-> NoBlock]]
    /\ Grow
    /\ AddEntry(name, Least(FreeInodes), NULL)
    /\ UNCHANGED <<data, total_size, free_blocks, intact>>

\* No inode is free: inode_table[-1] is the superblock, and the inode is
\* written over it and what lies behind it.  The model stops here.
MakeDirectoryOutside ==
    /\ intact
    /\ FreeInodes = {}
    /\ intact' = FALSE
    /\ UNCHANGED <<inode, data, files, capacity, counters>>

create_directory(name) == DirNoMemory \/ MakeDirectory(name) \/ MakeDirectoryOutside

\* The calls about one name.
Call(name) ==
    \/ \E d \in Contents : create_file(name, d)
    \/ delete_file(name)
    \/ create_directory(name)

Next == \E name \in Names : Call(name)

Spec == Init /\ [][Next]_vars

-----------------------------------------------------------------------------
(* Properties *)

\* Inodes, blocks and entries have their types.
TypeOK ==
    /\ inode \in [Inodes -> [mode : {"free", "file", "dir"}, size : Nat,
                             block : Blocks \cup {NoBlock}]]
    /\ data \in [Blocks -> Contents \cup {<<>>}]
    /\ files \in Seq([name : Names, ino : Inodes, wrote : Contents \cup {NULL}])
    /\ capacity \in Nat /\ total_files \in Nat
    /\ total_size \in Nat /\ free_blocks \in Nat /\ inode_count \in Nat
    /\ intact \in BOOLEAN

\* read_file returns what create_file stored under the name (the first entry
\* of that name), and NULL for a directory: no other file shares the block.
ReadsBack ==
    \A name \in Names : Matches(name) # {} =>
        read_file(name) = files[Least(Matches(name))].wrote

\* The entries of the directory and the inodes in use correspond one to one,
\* and no block belongs to two inodes.
InodesApart ==
    /\ \A k, l \in DOMAIN files : files[k].ino = files[l].ino => k = l
    /\ {files[k].ino : k \in DOMAIN files} = Inodes \ FreeInodes
    /\ \A k, l \in Inodes :
            inode[k].block = inode[l].block => k = l \/ inode[k].block = NoBlock

\* total_files, inode_count and free_blocks count what they say, and the
\* directory never grows: create_file does not test what krealloc returns.
CountersAgree ==
    /\ total_files = Len(files)
    /\ inode_count = Cardinality(FreeInodes)
    /\ free_blocks = Cardinality(FreeBlocks)
    /\ capacity = INITIAL_CAPACITY

\* A call about one name never changes what read_file returns for another.
OtherFilesKept ==
    [][\A name \in Names : read_file(name)' # read_file(name) => Call(name)]_vars

SizeOfFiles == LET sum[k \in 0 .. MAX_FILES] ==
                       IF k = 0 THEN 0 ELSE sum[k - 1] + inode[k - 1].size
               IN  sum[MAX_FILES]

\* Does not hold (README, "What does not hold").
\* "Total size of all files in the VFS".
TotalSizeAgrees == total_size = SizeOfFiles % SIZE_MAX1

\* Does not hold (README, "What does not hold").
\* "0 on success, -1 on failure": a call that finds no room fails, it does
\* not write outside the arrays.
FailsWhenFull == intact
=============================================================================
