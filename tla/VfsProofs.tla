----------------------------- MODULE VfsProofs ------------------------------
(***************************************************************************)
(* If no file is empty, the first byte of a block tells whether it is      *)
(* free, and the file system keeps its files apart, for every number of    *)
(* inodes and blocks.  The search for ext2 file systems on disks gives     *)
(* back what it took and keeps what it needs, for any disks.               *)
(***************************************************************************)
EXTENDS Vfs, Mounts, FiniteSetTheorems, TLAPS

\* Every non-empty set of natural numbers has a least element: the loops that
\* search from index 0 find what there is to find.
LEMMA LeastByOrder ==
    ASSUME NEW R, \A x, y \in Nat : x < y => <<x, y>> \in R, IsWellFoundedOn(R, Nat),
           NEW S \in SUBSET Nat, S # {}
    PROVE  \E m \in S : \A k \in S : m <= k
<1>1. S \subseteq Nat
  OBVIOUS
<1>2. \E m \in S : \A k \in S : ~(<<k, m>> \in R)
  <2>1. IsWellFoundedOn(R, Nat) /\ S # {}
    OBVIOUS
  <2> HIDE DEF IsWellFoundedOn
  <2> QED
    BY ONLY <1>1, <2>1, WFMin, Zenon
<1>3. PICK m \in S : \A k \in S : ~(<<k, m>> \in R)
  BY <1>2
<1>4. ASSUME NEW k \in S PROVE m <= k
  <2>1. ~(<<k, m>> \in R)
    BY <1>3
  <2>2. ~(k < m)
    BY <1>1, <2>1
  <2> QED
    BY <1>1, <2>2
<1> QED
  BY <1>4

LEMMA LeastExists ==
    ASSUME NEW S \in SUBSET Nat, S # {}
    PROVE  \E m \in S : \A k \in S : m <= k
<1>1. \A x, y \in Nat : x < y => <<x, y>> \in OpToRel(<, Nat)
  BY DEF OpToRel
<1> QED
  BY <1>1, NatLessThanWellFounded, LeastByOrder, Zenon

LEMMA LeastOK ==
    ASSUME NEW S \in SUBSET Nat, S # {}
    PROVE  Least(S) \in S /\ \A k \in S : Least(S) <= k
  BY LeastExists, Zenon DEF Least
Entry == [name : Names, ino : Inodes, wrote : Contents \cup {NULL}]

\* Only files have a block, and no two the same.
BlocksOK ==
    /\ \A n \in Inodes : inode[n].mode # "file" => inode[n].block = NoBlock
    /\ \A n \in Inodes : inode[n].mode = "file" => inode[n].block \in Blocks
    /\ \A n, m \in Inodes :
            inode[n].block = inode[m].block => n = m \/ inode[n].block = NoBlock

\* Entries and inodes in use correspond.
EntriesOK ==
    /\ \A k, l \in DOMAIN files : files[k].ino = files[l].ino => k = l
    /\ \A k \in DOMAIN files : inode[files[k].ino].mode # "free"
    /\ \A n \in Inodes : inode[n].mode # "free" => \E k \in DOMAIN files : files[k].ino = n

\* The block of a file holds what was stored, and that is not empty: so the
\* test of its first byte never takes it for free.
StoredOK ==
    \A k \in DOMAIN files :
        /\ inode[files[k].ino].mode = "file" =>
                data[inode[files[k].ino].block] = files[k].wrote /\ files[k].wrote # <<>>
        /\ inode[files[k].ino].mode = "dir" => files[k].wrote = NULL

VInv ==
    /\ TypeOK
    /\ total_files = Len(files)
    /\ BlocksOK
    /\ EntriesOK
    /\ StoredOK

LEMMA EntryType ==
    ASSUME TypeOK
    PROVE  /\ files \in Seq(Entry) /\ Len(files) \in Nat /\ DOMAIN files = 1 .. Len(files)
           /\ \A k \in DOMAIN files : files[k] \in Entry /\ files[k].ino \in Inodes
<1>1. files \in Seq(Entry)
  BY DEF TypeOK, Entry
<1>2. /\ Len(files) \in Nat /\ DOMAIN files = 1 .. Len(files)
      /\ \A k \in DOMAIN files : files[k] \in Entry
  BY <1>1
<1>3. \A e \in Entry : e.ino \in Inodes
  BY DEF Entry
<1> QED
  BY <1>1, <1>2, <1>3

LEMMA ModType ==
    ASSUME NEW a \in Int, NEW d \in Nat \ {0}
    PROVE  a % d \in Nat
  OBVIOUS

LEMMA FreeInodeOK ==
    ASSUME FreeInodes # {}
    PROVE  Least(FreeInodes) \in Inodes /\ inode[Least(FreeInodes)].mode = "free"
<1>1. FreeInodes \in SUBSET Nat
  BY DEF FreeInodes, Inodes
<1>2. Least(FreeInodes) \in FreeInodes
  BY <1>1, LeastOK
<1> QED
  BY <1>2 DEF FreeInodes

LEMMA FreeBlockOK ==
    ASSUME BlockNum # NoBlock
    PROVE  BlockNum \in Blocks /\ data[BlockNum] = <<>>
<1>1. FreeBlocks # {} /\ BlockNum = Least(FreeBlocks)
  BY DEF BlockNum
<1>2. FreeBlocks \in SUBSET Nat
  BY DEF FreeBlocks, Blocks
<1>3. Least(FreeBlocks) \in FreeBlocks
  BY <1>1, <1>2, LeastOK
<1> QED
  BY <1>1, <1>3 DEF FreeBlocks

\* The entry that read_file and delete_file find.
LEMMA MatchOK ==
    ASSUME TypeOK, NEW name, Matches(name) # {}
    PROVE  Least(Matches(name)) \in DOMAIN files /\ files[Least(Matches(name))].name = name
<1>1. DOMAIN files \subseteq Nat
  BY DEF TypeOK
<1>2. Matches(name) \in SUBSET Nat
  BY <1>1 DEF Matches
<1>3. Least(Matches(name)) \in Matches(name)
  BY <1>2, LeastOK
<1> QED
  BY <1>3 DEF Matches

\* No inode in use has a block that looks free.
LEMMA UsedIsNotFree ==
    ASSUME VInv, NEW b \in Blocks, data[b] = <<>>, NEW n \in Inodes
    PROVE  inode[n].block # b
<1>1. SUFFICES ASSUME inode[n].block = b PROVE FALSE
  OBVIOUS
<1>2. b # NoBlock
  BY DEF Blocks, NoBlock
<1>3. inode[n].mode = "file"
  BY <1>1, <1>2 DEF VInv, BlocksOK
<1>4. PICK k \in DOMAIN files : files[k].ino = n
  BY <1>3 DEF VInv, EntriesOK
<1> QED
  BY <1>1, <1>3, <1>4 DEF VInv, StoredOK

\* An inode that was free gets an entry at the end; other inodes, and blocks
\* other than its own, do not change.
LEMMA AddKeeps ==
    ASSUME VInv, NEW n \in Inodes, inode[n].mode = "free",
           NEW mode \in {"file", "dir"}, NEW size \in Nat, NEW block \in Blocks \cup {NoBlock},
           NEW name \in Names, NEW wrote \in Contents \cup {NULL},
           inode' = [inode EXCEPT ![n] = [mode |-> mode, size |-> size, block |-> block]],
           AddEntry(name, n, wrote),
           data' \in [Blocks -> Contents \cup {<<>>}],
           \A b \in Blocks : b # block => data'[b] = data[b],
           \/ /\ mode = "file" /\ block \in Blocks /\ data[block] = <<>>
              /\ data'[block] = wrote /\ wrote # <<>>
           \/ mode = "dir" /\ block = NoBlock /\ wrote = NULL,
           capacity' \in Nat, total_size' \in Nat, free_blocks' \in Nat, intact' \in BOOLEAN
    PROVE  VInv'
<1> DEFINE e == [name |-> name, ino |-> n, wrote |-> wrote]
<1>1. files \in Seq(Entry) /\ e \in Entry /\ files' = Append(files, e)
  BY DEF VInv, TypeOK, Entry, AddEntry
<1>2. /\ files' \in Seq(Entry) /\ Len(files') = Len(files) + 1 /\ Len(files) \in Nat
      /\ DOMAIN files = 1 .. Len(files) /\ DOMAIN files' = 1 .. Len(files) + 1
  BY <1>1
<1>3. \A k \in DOMAIN files : files'[k] = files[k] /\ files[k] \in Entry
  BY <1>1, <1>2
<1>4. files'[Len(files) + 1] = e /\ e.ino = n /\ e.wrote = wrote
  BY <1>1, <1>2
<1>5. \A k \in DOMAIN files' : k \in DOMAIN files \/ k = Len(files) + 1
  BY <1>2
<1>6. /\ inode'[n].mode = mode /\ inode'[n].block = block /\ inode' \in [Inodes -> [mode : {"free", "file", "dir"}, size : Nat, block : Blocks \cup {NoBlock}]]
      /\ \A m \in Inodes : m # n => inode'[m] = inode[m]
  BY DEF VInv, TypeOK
<1>7. \A k \in DOMAIN files : files[k].ino \in Inodes /\ files[k].ino # n
  BY <1>3 DEF VInv, EntriesOK, Entry
<1>8. TypeOK'
  <2>1. inode_count' \in Nat
    BY ModType, VfsAssumption DEF AddEntry, VInv, TypeOK
  <2>2. total_files' \in Nat
    BY DEF AddEntry, VInv, TypeOK
  <2> QED
    BY <1>2, <1>6, <2>1, <2>2, SMTT(30) DEF TypeOK, Entry
<1>9. (total_files = Len(files))'
  BY <1>2 DEF AddEntry, VInv
<1>10. \A m \in Inodes : m # n => inode[m].block # block \/ block = NoBlock
  BY UsedIsNotFree
<1>11. BlocksOK'
  BY <1>6, <1>10, SMTT(30) DEF VInv, BlocksOK
<1>12. EntriesOK'
  <2>1. \A k, l \in DOMAIN files' : files'[k].ino = files'[l].ino => k = l
    BY <1>3, <1>4, <1>5, <1>7, SMTT(30) DEF VInv, EntriesOK
  <2>2. \A k \in DOMAIN files' : inode'[files'[k].ino].mode # "free"
    BY <1>3, <1>4, <1>5, <1>6, <1>7, SMTT(30) DEF VInv, EntriesOK
  <2>3. ASSUME NEW m \in Inodes, inode'[m].mode # "free"
        PROVE  \E k \in DOMAIN files' : files'[k].ino = m
    <3>1. CASE m = n
      BY <1>2, <1>4, <3>1, SMTT(30)
    <3>2. CASE m # n
      <4>1. PICK k \in DOMAIN files : files[k].ino = m
        BY <1>6, <2>3, <3>2, SMTT(30) DEF VInv, EntriesOK
      <4> QED
        BY <1>2, <1>3, <4>1, SMTT(30)
    <3> QED
      BY <3>1, <3>2
  <2> QED
    BY <2>1, <2>2, <2>3, SMTT(30) DEF EntriesOK
<1>13. StoredOK'
  <2> SUFFICES ASSUME NEW k \in DOMAIN files'
               PROVE  /\ inode'[files'[k].ino].mode = "file" =>
                            data'[inode'[files'[k].ino].block] = files'[k].wrote /\ files'[k].wrote # <<>>
                      /\ inode'[files'[k].ino].mode = "dir" => files'[k].wrote = NULL
    BY SMTT(30) DEF StoredOK
  <2>1. CASE k \in DOMAIN files
    <3>1. files'[k] = files[k] /\ files[k].ino \in Inodes /\ inode'[files[k].ino] = inode[files[k].ino]
      BY <1>3, <1>6, <1>7, <2>1, SMTT(30)
    <3>2. inode[files[k].ino].mode = "file" =>
            inode[files[k].ino].block \in Blocks /\ inode[files[k].ino].block # block
      BY <1>7, <1>10, <2>1, <3>1, SMTT(30) DEF VInv, BlocksOK, Blocks, NoBlock
    <3> QED
      BY <2>1, <3>1, <3>2, SMTT(30) DEF VInv, StoredOK
  <2>2. CASE k = Len(files) + 1
    BY <1>4, <1>6, <2>2
  <2> QED
    BY <1>5, <2>1, <2>2, SMTT(30)
<1> QED
  BY <1>8, <1>9, <1>11, <1>12, <1>13 DEF VInv

\* An entry leaves the directory, its inode becomes free and its block empty.
LEMMA DeleteKeeps ==
    ASSUME VInv, NEW name, DeleteEntry(name)
    PROVE  VInv'
<1> DEFINE k == Least(Matches(name))
           ino == files[k].ino
           b == inode[ino].block
           Old(l) == IF l < k THEN l ELSE l + 1
<1>1. /\ data' = [x \in Blocks |-> IF x = b THEN <<>> ELSE data[x]]
      /\ free_blocks' = IF b = NoBlock THEN free_blocks ELSE (free_blocks + 1) % U32
      /\ inode' = [inode EXCEPT ![ino] = NoInode]
      /\ inode_count' = (inode_count + 1) % U32
      /\ files' = ShiftDown(files, k)
      /\ total_files' = total_files - 1
      /\ total_size' = (total_size - inode'[ino].size) % SIZE_MAX1
      /\ UNCHANGED <<capacity, intact>>
  BY SMTT(30) DEF DeleteEntry
<1>2. k \in DOMAIN files
  BY MatchOK DEF DeleteEntry, VInv
<1> HIDE DEF k
<1>3. /\ files \in Seq(Entry) /\ Len(files) \in Nat /\ DOMAIN files = 1 .. Len(files)
      /\ \A l \in DOMAIN files : files[l] \in Entry
  BY EntryType DEF VInv
<1>4. k \in Nat /\ k >= 1 /\ k <= Len(files)
  BY <1>2, <1>3
<1>5. ino \in Inodes
  BY <1>2, <1>3 DEF Entry
<1>6. \A l \in 1 .. Len(files) - 1 : Old(l) \in DOMAIN files /\ Old(l) # k /\ Old(l) \in Nat
  BY <1>3, <1>4
<1>7. /\ files' = [l \in 1 .. Len(files) - 1 |-> files[Old(l)]]
  BY <1>1 DEF ShiftDown
<1>8. /\ files' \in Seq(Entry) /\ Len(files') = Len(files) - 1
      /\ DOMAIN files' = 1 .. Len(files) - 1
  BY <1>3, <1>4, <1>6, <1>7
<1>9. \A l \in DOMAIN files' : files'[l] = files[Old(l)] /\ files[Old(l)] \in Entry
  BY <1>3, <1>6, <1>7, <1>8
<1>10. \A l, m \in DOMAIN files' : Old(l) = Old(m) => l = m
  BY <1>4, <1>8
<1>11. \A m \in DOMAIN files : m # k => \E l \in DOMAIN files' : Old(l) = m
  <2> SUFFICES ASSUME NEW m \in DOMAIN files, m # k
               PROVE  \E l \in 1 .. Len(files) - 1 : Old(l) = m
    BY <1>8, SMTT(30)
  <2>1. CASE m < k
    BY <1>3, <1>4, <2>1
  <2>2. CASE m > k
    <3>1. m - 1 \in 1 .. Len(files) - 1 /\ Old(m - 1) = m
      BY <1>3, <1>4, <2>2, SMTT(30)
    <3> QED
      BY <3>1
  <2> QED
    BY <1>3, <1>4, <2>1, <2>2
<1> HIDE DEF Old
<1>12. /\ inode' \in [Inodes -> [mode : {"free", "file", "dir"}, size : Nat, block : Blocks \cup {NoBlock}]]
       /\ inode'[ino] = NoInode
       /\ \A m \in Inodes : m # ino => inode'[m] = inode[m]
  BY <1>1, <1>5, SMTT(30) DEF VInv, TypeOK, NoInode
<1>13. \A l \in DOMAIN files' :
            /\ files[Old(l)].ino \in Inodes /\ files[Old(l)].ino # ino
            /\ inode'[files[Old(l)].ino] = inode[files[Old(l)].ino]
  BY <1>2, <1>6, <1>8, <1>9, <1>12, SMTT(30) DEF VInv, EntriesOK, Entry
<1>14. TypeOK'
  <2>1. inode'[ino].size = 0
    BY <1>12, SMTT(30) DEF NoInode
  <2>2. inode_count' \in Nat /\ free_blocks' \in Nat /\ total_size' \in Nat
    <3>1. /\ inode_count + 1 \in Int /\ free_blocks \in Nat /\ free_blocks + 1 \in Int
          /\ total_size - 0 \in Int /\ U32 \in Nat \ {0} /\ SIZE_MAX1 \in Nat \ {0}
      BY VfsAssumption DEF VInv, TypeOK
    <3>2. /\ (inode_count + 1) % U32 \in Nat /\ (free_blocks + 1) % U32 \in Nat
          /\ (total_size - 0) % SIZE_MAX1 \in Nat
      BY <3>1, ModType, SMTT(30)
    <3> QED
      BY <1>1, <2>1, <3>1, <3>2, SMTT(30)
  <2>3. total_files' \in Nat
    BY <1>1, <1>4, SMTT(30) DEF VInv
  <2>4. data' \in [Blocks -> Contents \cup {<<>>}]
    BY <1>1, SMTT(30) DEF VInv, TypeOK
  <2> QED
    BY <1>1, <1>8, <1>12, <2>2, <2>3, <2>4, Zenon DEF VInv, TypeOK, Entry
<1>15. (total_files = Len(files))'
  BY <1>1, <1>8, SMTT(30) DEF VInv
<1>16. BlocksOK'
  BY <1>5, <1>12, SMTT(30) DEF VInv, BlocksOK, NoInode
<1>17. EntriesOK'
  <2>1. \A l, m \in DOMAIN files' : files'[l].ino = files'[m].ino => l = m
    BY <1>6, <1>8, <1>9, <1>10, SMTT(30) DEF VInv, EntriesOK
  <2>2. \A l \in DOMAIN files' : inode'[files'[l].ino].mode # "free"
    BY <1>6, <1>8, <1>9, <1>13, SMTT(90) DEF VInv, EntriesOK
  <2>3. ASSUME NEW m \in Inodes, inode'[m].mode # "free"
        PROVE  \E l \in DOMAIN files' : files'[l].ino = m
    <3>1. m # ino
      BY <1>12, <2>3, SMTT(30) DEF NoInode
    <3>2. PICK x \in DOMAIN files : files[x].ino = m
      BY <1>12, <2>3, <3>1 DEF VInv, EntriesOK
    <3>3. PICK l \in DOMAIN files' : Old(l) = x
      BY <1>11, <3>1, <3>2, SMTT(30)
    <3> QED
      BY <1>9, <3>2, <3>3, SMTT(30)
  <2> QED
    BY <2>1, <2>2, <2>3, SMTT(30) DEF EntriesOK
<1>18. StoredOK'
  <2> SUFFICES ASSUME NEW l \in DOMAIN files'
               PROVE  /\ inode'[files'[l].ino].mode = "file" =>
                            data'[inode'[files'[l].ino].block] = files'[l].wrote /\ files'[l].wrote # <<>>
                      /\ inode'[files'[l].ino].mode = "dir" => files'[l].wrote = NULL
    BY DEF StoredOK
  <2> DEFINE x == Old(l)
             node == inode[files[x].ino]
  <2>1. /\ x \in DOMAIN files /\ files'[l] = files[x] /\ files[x].ino \in Inodes
        /\ files[x].ino # ino /\ inode'[files'[l].ino] = node
    BY <1>6, <1>8, <1>9, <1>13, SMTT(30)
  <2>2. node.mode = "file" => node.block \in Blocks /\ node.block # b
    BY <1>5, <2>1, SMTT(30) DEF VInv, BlocksOK, Blocks, NoBlock
  <2>3. node.mode = "file" => data'[node.block] = data[node.block]
    BY <1>1, <2>2, Zenon
  <2> QED
    BY <2>1, <2>3, Zenon DEF VInv, StoredOK
<1> QED
  BY <1>14, <1>15, <1>16, <1>17, <1>18, SMTT(30) DEF VInv

LEMMA GrowType ==
    ASSUME TypeOK, Grow
    PROVE  capacity' \in Nat
  BY DEF TypeOK, Grow

LEMMA StoreFileKeeps ==
    ASSUME <<>> \notin Contents, VInv, NEW name \in Names, NEW d \in Contents, StoreFile(name, d)
    PROVE  VInv'
<1> DEFINE n == Least(FreeInodes)
<1>1. n \in Inodes /\ inode[n].mode = "free"
  BY FreeInodeOK DEF StoreFile
<1>2. BlockNum \in Blocks /\ data[BlockNum] = <<>>
  BY FreeBlockOK DEF StoreFile
<1>3. d # <<>> /\ Len(d) \in Nat
  BY VfsAssumption
<1>4. capacity' \in Nat
  BY GrowType, SMTT(30) DEF StoreFile, VInv
<1>5. total_size' \in Nat /\ free_blocks' \in Nat
  BY <1>3, ModType, VfsAssumption, SMTT(30) DEF StoreFile, VInv, TypeOK
<1>6. /\ data' = [data EXCEPT ![BlockNum] = d]
      /\ inode' = [inode EXCEPT ![n] = [mode |-> "file", size |-> Len(d), block |-> BlockNum]]
      /\ AddEntry(name, n, d) /\ intact' = intact
  BY SMTT(30) DEF StoreFile
<1> HIDE DEF n
<1>7. /\ data' \in [Blocks -> Contents \cup {<<>>}] /\ data'[BlockNum] = d
      /\ \A x \in Blocks : x # BlockNum => data'[x] = data[x]
  BY <1>2, <1>6, SMTT(30) DEF VInv, TypeOK
<1>8. intact' \in BOOLEAN
  BY <1>6 DEF VInv, TypeOK
<1> QED
  BY <1>1, <1>2, <1>3, <1>4, <1>5, <1>6, <1>7, <1>8, AddKeeps, Zenon

LEMMA MakeDirectoryKeeps ==
    ASSUME VInv, NEW name \in Names, MakeDirectory(name)
    PROVE  VInv'
<1> DEFINE n == Least(FreeInodes)
<1>1. n \in Inodes /\ inode[n].mode = "free"
  BY FreeInodeOK DEF MakeDirectory
<1>2. capacity' \in Nat
  BY GrowType DEF MakeDirectory, VInv
<1>3. /\ inode' = [inode EXCEPT ![n] = [mode |-> "dir", size |-> 0, block |-> NoBlock]]
      /\ AddEntry(name, n, NULL) /\ UNCHANGED <<data, total_size, free_blocks, intact>>
  BY DEF MakeDirectory
<1> HIDE DEF n
<1>4. /\ data' \in [Blocks -> Contents \cup {<<>>}] /\ \A x \in Blocks : data'[x] = data[x]
      /\ total_size' \in Nat /\ free_blocks' \in Nat /\ intact' \in BOOLEAN
  BY <1>3, SMTT(30) DEF VInv, TypeOK
<1> QED
  BY <1>1, <1>2, <1>3, <1>4, AddKeeps, Zenon

LEMMA SameKeeps ==
    ASSUME VInv, UNCHANGED <<inode, data, files, counters>>, capacity' \in Nat, intact' \in BOOLEAN
    PROVE  VInv'
  BY DEF VInv, TypeOK, counters, BlocksOK, EntriesOK, StoredOK

LEMMA VInvImplies ==
    ASSUME VInv
    PROVE  InodesApart /\ ReadsBack
<1>1. InodesApart
  <2>1. \A k \in DOMAIN files : files[k].ino \in Inodes
    BY EntryType DEF VInv
  <2>2. {files[k].ino : k \in DOMAIN files} = Inodes \ FreeInodes
    BY <2>1, SMTT(30) DEF VInv, EntriesOK, FreeInodes
  <2> QED
    BY <2>2 DEF VInv, EntriesOK, BlocksOK, InodesApart
<1>2. ReadsBack
  <2> SUFFICES ASSUME NEW name \in Names, Matches(name) # {}
               PROVE  read_file(name) = files[Least(Matches(name))].wrote
    BY DEF ReadsBack
  <2> DEFINE k == Least(Matches(name))
             node == inode[files[k].ino]
  <2>1. k \in DOMAIN files
    BY MatchOK, SMTT(30) DEF VInv
  <2>2. read_file(name) = IF node.mode = "dir" \/ node.block = NoBlock THEN NULL ELSE data[node.block]
    BY DEF read_file
  <2> HIDE DEF k
  <2>3. files[k].ino \in Inodes
    BY <2>1, EntryType DEF VInv
  <2>4. node.mode \in {"file", "dir"}
    BY <2>1, <2>3 DEF VInv, TypeOK, EntriesOK
  <2>5. node.mode = "file" => node.block # NoBlock
    BY <2>3 DEF VInv, BlocksOK, Blocks, NoBlock
  <2> QED
    BY <2>1, <2>2, <2>4, <2>5 DEF VInv, StoredOK, k
<1> QED
  BY <1>1, <1>2, SMTT(30)

LEMMA InitKeeps == Init => VInv
<1> SUFFICES ASSUME Init PROVE VInv
  OBVIOUS
<1>1. TypeOK
  BY VfsAssumption DEF Init, TypeOK, NoInode
<1> QED
  BY <1>1 DEF Init, VInv, BlocksOK, EntriesOK, StoredOK, NoInode

LEMMA StepKeeps ==
    ASSUME <<>> \notin Contents, VInv, [Next]_vars
    PROVE  VInv'
<1>1. CASE UNCHANGED vars
  BY <1>1, SameKeeps, SMTT(30) DEF vars, VInv, TypeOK
<1>2. ASSUME NEW name \in Names, NEW d \in Contents, create_file(name, d) PROVE VInv'
  <2>1. CASE CreateNoInode
    BY <2>1, GrowType, SameKeeps DEF CreateNoInode, VInv, TypeOK
  <2>2. CASE StoreFile(name, d)
    BY <2>2, StoreFileKeeps
  <2>3. CASE StoreOutside
    BY <2>3, SameKeeps, Zenon DEF StoreOutside, VInv, TypeOK
  <2> QED
    BY <1>2, <2>1, <2>2, <2>3, SMTT(30) DEF create_file
<1>3. ASSUME NEW name \in Names, delete_file(name) PROVE VInv'
  <2>1. CASE DeleteNoFile(name)
    BY <1>1, <2>1 DEF DeleteNoFile
  <2> QED
    BY <1>3, <2>1, DeleteKeeps DEF delete_file
<1>4. ASSUME NEW name \in Names, create_directory(name) PROVE VInv'
  <2>1. CASE DirNoMemory
    BY <1>1, <2>1 DEF DirNoMemory
  <2>2. CASE MakeDirectory(name)
    BY <2>2, MakeDirectoryKeeps
  <2>3. CASE MakeDirectoryOutside
    BY <2>3, SameKeeps, Zenon DEF MakeDirectoryOutside, VInv, TypeOK
  <2> QED
    BY <1>4, <2>1, <2>2, <2>3 DEF create_directory
<1> QED
  BY <1>1, <1>2, <1>3, <1>4, SMTT(30) DEF Next, Call

\* With no empty file, for every number of inodes and blocks: files read back
\* as create_file stored them, and share neither inode nor block.
THEOREM VfsSafety ==
    ASSUME <<>> \notin Contents
    PROVE  Spec => [](TypeOK /\ InodesApart /\ ReadsBack)
<1>1. VInv /\ [Next]_vars => VInv'
  BY StepKeeps
<1>2. VInv => TypeOK /\ InodesApart /\ ReadsBack
  BY VInvImplies DEF VInv
<1> QED
  BY <1>1, <1>2, InitKeeps, PTL DEF Spec

-----------------------------------------------------------------------------
(* The counters *)

\* Entries and free inodes are MAX_FILES together: the directory, which starts with
\* room for more, never grows.
CInv ==
    /\ inode_count = Cardinality(FreeInodes)
    /\ free_blocks = Cardinality(FreeBlocks)
    /\ capacity = INITIAL_CAPACITY
    /\ total_files + inode_count = MAX_FILES

LEMMA ModSmall ==
    ASSUME NEW a \in Nat, NEW d \in Nat, a < d
    PROVE  a % d = a
  OBVIOUS

\* There are at most as many free inodes and blocks as there are inodes and blocks.
FreeBound ==
    /\ IsFiniteSet(FreeInodes) /\ Cardinality(FreeInodes) \in Nat /\ Cardinality(FreeInodes) <= MAX_FILES
    /\ IsFiniteSet(FreeBlocks) /\ Cardinality(FreeBlocks) \in Nat /\ Cardinality(FreeBlocks) <= MAX_DATABLOCKS

LEMMA FreeFinite == FreeBound
<1>1. /\ 0 \in Int /\ MAX_FILES - 1 \in Int /\ MAX_DATABLOCKS - 1 \in Int
  BY VfsAssumption
<1>2. /\ IsFiniteSet(Inodes) /\ Cardinality(Inodes) = IF 0 > MAX_FILES - 1 THEN 0 ELSE MAX_FILES - 1 - 0 + 1
      /\ IsFiniteSet(Blocks)
      /\ Cardinality(Blocks) = IF 0 > MAX_DATABLOCKS - 1 THEN 0 ELSE MAX_DATABLOCKS - 1 - 0 + 1
  BY <1>1, FS_Interval, SMTT(30) DEF Inodes, Blocks
<1>3. Cardinality(Inodes) <= MAX_FILES /\ Cardinality(Blocks) <= MAX_DATABLOCKS
  BY <1>2, VfsAssumption
<1>4. FreeInodes \in SUBSET Inodes /\ FreeBlocks \in SUBSET Blocks
  BY DEF FreeInodes, FreeBlocks
<1>5. /\ IsFiniteSet(FreeInodes) /\ Cardinality(FreeInodes) <= Cardinality(Inodes)
      /\ IsFiniteSet(FreeBlocks) /\ Cardinality(FreeBlocks) <= Cardinality(Blocks)
  BY <1>2, <1>4, FS_Subset
<1>6. /\ Cardinality(FreeInodes) \in Nat /\ Cardinality(FreeBlocks) \in Nat
      /\ Cardinality(Inodes) \in Nat /\ Cardinality(Blocks) \in Nat
  BY <1>2, <1>5, FS_CardinalityType
<1> QED
  BY <1>3, <1>5, <1>6, VfsAssumption DEF FreeBound

LEMMA CInit == Init => CInv
<1> SUFFICES ASSUME Init PROVE CInv
  OBVIOUS
<1>1. FreeInodes = Inodes /\ FreeBlocks = Blocks
  BY DEF Init, FreeInodes, FreeBlocks, NoInode
<1>2. /\ 0 \in Int /\ MAX_FILES - 1 \in Int /\ MAX_DATABLOCKS - 1 \in Int
  BY VfsAssumption
<1>3. /\ Cardinality(Inodes) = IF 0 > MAX_FILES - 1 THEN 0 ELSE MAX_FILES - 1 - 0 + 1
      /\ Cardinality(Blocks) = IF 0 > MAX_DATABLOCKS - 1 THEN 0 ELSE MAX_DATABLOCKS - 1 - 0 + 1
  BY <1>2, FS_Interval, SMTT(30) DEF Inodes, Blocks
<1>4. Cardinality(Inodes) = MAX_FILES /\ Cardinality(Blocks) = MAX_DATABLOCKS
  BY <1>3, VfsAssumption
<1> QED
  BY <1>1, <1>4, VfsAssumption, SMTT(30) DEF Init, CInv

\* One inode leaves the free ones with a new entry.
LEMMA AddCounts ==
    ASSUME VInv, CInv, NEW n \in Inodes, inode[n].mode = "free", NEW node, node.mode # "free",
           inode' = [inode EXCEPT ![n] = node], NEW name, NEW wrote, AddEntry(name, n, wrote), Grow
    PROVE  /\ inode_count' = Cardinality(FreeInodes')
           /\ capacity' = INITIAL_CAPACITY
           /\ total_files' + inode_count' = MAX_FILES
<1>1. FreeInodes' = FreeInodes \ {n} /\ n \in FreeInodes
  BY DEF VInv, TypeOK, FreeInodes
<1>2. Cardinality(FreeInodes \ {n}) = Cardinality(FreeInodes) - 1
  BY <1>1, FreeFinite, FS_RemoveElement, Zenon DEF FreeBound
<1>3. Cardinality(FreeInodes \ {n}) \in Nat
  BY <1>1, FreeFinite, FS_RemoveElement, FS_CardinalityType, Zenon DEF FreeBound
<1>4. inode_count - 1 \in Nat /\ inode_count - 1 < U32 /\ U32 \in Nat
  BY <1>2, <1>3, FreeFinite, VfsAssumption, SMTT(30) DEF CInv, FreeBound
<1>5. inode_count' = inode_count - 1
  BY <1>4, ModSmall, SMTT(30) DEF AddEntry
<1>6. Len(files) < capacity
  BY FreeFinite, VfsAssumption, SMTT(30) DEF CInv, VInv, TypeOK, FreeBound
<1>7. capacity' = INITIAL_CAPACITY
  BY <1>6, EntryType, VfsAssumption, SMTT(30) DEF Grow, CInv, VInv
<1>8. total_files' + inode_count' = MAX_FILES
  BY <1>5, FreeFinite, VfsAssumption, SMTT(30) DEF AddEntry, CInv, VInv, TypeOK, FreeBound
<1> QED
  BY <1>1, <1>2, <1>5, <1>7, <1>8, SMTT(30) DEF CInv

LEMMA StoreFileCounts ==
    ASSUME <<>> \notin Contents, VInv, CInv, NEW name \in Names, NEW d \in Contents, StoreFile(name, d)
    PROVE  CInv'
<1> DEFINE n == Least(FreeInodes)
           node == [mode |-> "file", size |-> Len(d), block |-> BlockNum]
<1>1. n \in Inodes /\ inode[n].mode = "free" /\ BlockNum \in Blocks /\ data[BlockNum] = <<>>
  BY FreeInodeOK, FreeBlockOK, SMTT(30) DEF StoreFile
<1>2. inode' = [inode EXCEPT ![n] = node] /\ AddEntry(name, n, d) /\ Grow /\ node.mode # "free"
  BY DEF StoreFile
<1>3. data' = [data EXCEPT ![BlockNum] = d] /\ free_blocks' = (free_blocks - 1) % U32 /\ d # <<>>
  BY DEF StoreFile
<1> HIDE DEF n, node
<1>4. /\ inode_count' = Cardinality(FreeInodes') /\ capacity' = INITIAL_CAPACITY
      /\ total_files' + inode_count' = MAX_FILES
  BY <1>1, <1>2, AddCounts, Zenon
<1>5. FreeBlocks' = FreeBlocks \ {BlockNum} /\ BlockNum \in FreeBlocks
  BY <1>1, <1>3 DEF VInv, TypeOK, FreeBlocks
<1>6. /\ Cardinality(FreeBlocks \ {BlockNum}) = Cardinality(FreeBlocks) - 1
      /\ Cardinality(FreeBlocks \ {BlockNum}) \in Nat
  BY <1>5, FreeFinite, FS_RemoveElement, FS_CardinalityType, SMTT(30) DEF FreeBound
<1>7. free_blocks - 1 \in Nat /\ free_blocks - 1 < U32 /\ U32 \in Nat
  BY <1>6, FreeFinite, VfsAssumption, SMTT(30) DEF CInv, FreeBound
<1>8. free_blocks' = free_blocks - 1
  BY <1>3, <1>7, ModSmall, SMTT(30)
<1> QED
  BY <1>4, <1>5, <1>6, <1>8, SMTT(30) DEF CInv

LEMMA MakeDirectoryCounts ==
    ASSUME VInv, CInv, NEW name \in Names, MakeDirectory(name)
    PROVE  CInv'
<1> DEFINE n == Least(FreeInodes)
           node == [mode |-> "dir", size |-> 0, block |-> NoBlock]
<1>1. n \in Inodes /\ inode[n].mode = "free"
  BY FreeInodeOK DEF MakeDirectory
<1>2. inode' = [inode EXCEPT ![n] = node] /\ AddEntry(name, n, NULL) /\ Grow /\ node.mode # "free"
  BY DEF MakeDirectory
<1>3. FreeBlocks' = FreeBlocks /\ free_blocks' = free_blocks
  BY DEF MakeDirectory, FreeBlocks
<1> HIDE DEF n, node
<1>4. /\ inode_count' = Cardinality(FreeInodes') /\ capacity' = INITIAL_CAPACITY
      /\ total_files' + inode_count' = MAX_FILES
  BY <1>1, <1>2, AddCounts, Zenon
<1> QED
  BY <1>3, <1>4 DEF CInv

LEMMA DeleteCounts ==
    ASSUME VInv, CInv, NEW name, DeleteEntry(name)
    PROVE  CInv'
<1> DEFINE k == Least(Matches(name))
           ino == files[k].ino
           b == inode[ino].block
<1>1. /\ data' = [x \in Blocks |-> IF x = b THEN <<>> ELSE data[x]]
      /\ free_blocks' = IF b = NoBlock THEN free_blocks ELSE (free_blocks + 1) % U32
      /\ inode' = [inode EXCEPT ![ino] = NoInode]
      /\ inode_count' = (inode_count + 1) % U32
      /\ total_files' = total_files - 1
      /\ capacity' = capacity
  BY Zenon DEF DeleteEntry
<1>2. k \in DOMAIN files
  BY MatchOK, Zenon DEF DeleteEntry, VInv
<1> HIDE DEF k
<1>3. ino \in Inodes /\ inode[ino].mode # "free" /\ Len(files) \in Nat /\ Len(files) >= 1
  BY <1>2, EntryType, SMTT(30) DEF VInv, EntriesOK
<1>4. FreeInodes' = FreeInodes \cup {ino} /\ ino \notin FreeInodes
  BY <1>1, <1>3, Zenon DEF VInv, TypeOK, FreeInodes, NoInode
<1>5. Cardinality(FreeInodes \cup {ino}) = Cardinality(FreeInodes) + 1
  BY <1>4, FreeFinite, FS_AddElement, Zenon DEF FreeBound
<1>6. inode_count + 1 \in Nat /\ inode_count + 1 < U32 /\ U32 \in Nat
  BY <1>3, FreeFinite, VfsAssumption, SMTT(30) DEF CInv, VInv, FreeBound
<1>7. inode_count' = inode_count + 1
  BY <1>1, <1>6, ModSmall, SMTT(30)
<1>8. free_blocks' = Cardinality(FreeBlocks')
  <2>1. CASE b = NoBlock
    <3>1. b \notin Blocks
      BY <2>1, SMTT(30) DEF NoBlock, Blocks
    <3>2. FreeBlocks' = FreeBlocks
      BY <1>1, <3>1, Zenon DEF VInv, TypeOK, FreeBlocks
    <3> QED
      BY <1>1, <2>1, <3>2 DEF CInv
  <2>2. CASE b # NoBlock
    <3>1. inode[ino].mode = "file" /\ b \in Blocks
      BY <1>3, <2>2, SMTT(30) DEF VInv, BlocksOK
    <3>2. data[b] # <<>>
      BY <1>2, <3>1, SMTT(30) DEF VInv, StoredOK
    <3>3. FreeBlocks' = FreeBlocks \cup {b} /\ b \notin FreeBlocks
      BY <1>1, <3>1, <3>2, ZenonT(60) DEF VInv, TypeOK, FreeBlocks
    <3>4. Cardinality(FreeBlocks \cup {b}) = Cardinality(FreeBlocks) + 1
      BY <3>3, FreeFinite, FS_AddElement, Zenon DEF FreeBound
    <3>5. FreeBound'
      BY FreeFinite, PTL
    <3>6. free_blocks + 1 \in Nat /\ free_blocks + 1 < U32 /\ U32 \in Nat
      BY FreeFinite, VfsAssumption, <3>3, <3>4, <3>5, SMTT(30) DEF CInv, FreeBound
    <3>7. free_blocks' = free_blocks + 1
      BY <1>1, <2>2, <3>6, ModSmall, SMTT(30)
    <3> QED
      BY <3>3, <3>4, <3>7, SMTT(30) DEF CInv
  <2> QED
    BY <2>1, <2>2, SMTT(30)
<1>9. inode_count' = Cardinality(FreeInodes')
  BY <1>4, <1>5, <1>7, SMTT(30) DEF CInv
<1>10. total_files' + inode_count' = MAX_FILES
  <2>1. inode_count \in Nat /\ total_files \in Nat
    BY FreeFinite, SMTT(30) DEF CInv, VInv, TypeOK, FreeBound
  <2> QED
    BY <1>1, <1>7, <2>1, VfsAssumption, SMTT(30) DEF CInv
<1>11. capacity' = INITIAL_CAPACITY
  BY <1>1 DEF CInv
<1> QED
  BY <1>8, <1>9, <1>10, <1>11, SMTT(30) DEF CInv

LEMMA SameCounts ==
    ASSUME VInv, CInv, UNCHANGED <<inode, data, files, counters>>, capacity' = capacity \/ Grow
    PROVE  CInv'
<1>1. FreeInodes' = FreeInodes /\ FreeBlocks' = FreeBlocks
  BY DEF FreeInodes, FreeBlocks
<1>2. Len(files) < capacity
  BY FreeFinite, VfsAssumption, SMTT(30) DEF CInv, VInv, TypeOK, FreeBound
<1>3. capacity' = INITIAL_CAPACITY
  BY <1>2, EntryType, VfsAssumption DEF Grow, CInv, VInv
<1> QED
  BY <1>1, <1>3, SMTT(30) DEF CInv, counters

LEMMA StepCounts ==
    ASSUME <<>> \notin Contents, VInv, CInv, [Next]_vars
    PROVE  CInv'
<1>1. CASE UNCHANGED vars
  BY <1>1, SameCounts DEF vars
<1>2. ASSUME NEW name \in Names, NEW d \in Contents, create_file(name, d) PROVE CInv'
  <2>1. CASE CreateNoInode
    BY <2>1, SameCounts DEF CreateNoInode
  <2>2. CASE StoreFile(name, d)
    BY <2>2, StoreFileCounts
  <2>3. CASE StoreOutside
    BY <2>3, SameCounts DEF StoreOutside
  <2> QED
    BY <1>2, <2>1, <2>2, <2>3 DEF create_file
<1>3. ASSUME NEW name \in Names, delete_file(name) PROVE CInv'
  <2>1. CASE DeleteNoFile(name)
    BY <1>1, <2>1 DEF DeleteNoFile
  <2> QED
    BY <1>3, <2>1, DeleteCounts DEF delete_file
<1>4. ASSUME NEW name \in Names, create_directory(name) PROVE CInv'
  <2>1. CASE DirNoMemory
    BY <1>1, <2>1 DEF DirNoMemory
  <2>2. CASE MakeDirectory(name)
    BY <2>2, MakeDirectoryCounts
  <2>3. CASE MakeDirectoryOutside
    BY <2>3, SameCounts DEF MakeDirectoryOutside
  <2> QED
    BY <1>4, <2>1, <2>2, <2>3 DEF create_directory
<1> QED
  BY <1>1, <1>2, <1>3, <1>4 DEF Next, Call

\* total_files, inode_count and free_blocks never drift from what they count, in spite of
\* their wrap-around, and create_file never needs to grow the directory.
THEOREM CountersStayTrue ==
    ASSUME <<>> \notin Contents
    PROVE  Spec => []CountersAgree
<1>1. VInv /\ [Next]_vars => VInv'
  BY StepKeeps
<1>2. VInv /\ CInv /\ [Next]_vars => CInv'
  BY StepCounts
<1>3. VInv /\ CInv => CountersAgree
  BY DEF VInv, CInv, CountersAgree
<1> QED
  BY <1>1, <1>2, <1>3, InitKeeps, CInit, PTL DEF Spec

-----------------------------------------------------------------------------
(* Other names *)

LEMMA LeastIs ==
    ASSUME NEW S \in SUBSET Nat, NEW m \in S, \A k \in S : m <= k
    PROVE  Least(S) = m
<1>1. Least(S) \in S /\ Least(S) <= m /\ m <= Least(S)
  BY LeastOK, Zenon
<1>2. Least(S) \in Nat /\ m \in Nat
  BY <1>1, Zenon
<1> QED
  BY <1>1, <1>2

LEMMA ReadsAre == VInv => ReadsBack
  BY VInvImplies, SMTT(30)

\* If the entries of a name are the same ones at other places, in the same order, then
\* read_file returns the same: it returns what the first entry stored.
LEMMA SameReads ==
    ASSUME VInv, VInv', NEW name \in Names, NEW old \in [DOMAIN files' -> Nat],
           \A l \in DOMAIN files' : l \in Matches(name)' =>
               old[l] \in Matches(name) /\ files'[l] = files[old[l]],
           \A k \in Matches(name) : \E l \in Matches(name)' : old[l] = k,
           \A l, m \in DOMAIN files' : old[l] <= old[m] => l <= m
    PROVE  read_file(name)' = read_file(name)
<1>1. Matches(name)' = {k \in DOMAIN files' : files'[k].name = name} /\ Matches(name)' \subseteq DOMAIN files'
  BY SMTT(30) DEF Matches
<1>2. DOMAIN files \subseteq Nat /\ DOMAIN files' \subseteq Nat
  BY SMTT(30) DEF VInv, TypeOK
<1>3. CASE Matches(name) = {}
  <2>1. Matches(name)' = {}
    BY <1>1, <1>3, Zenon
  <2> QED
    BY <1>3, <2>1, Zenon DEF read_file
<1>4. CASE Matches(name) # {}
  <2> DEFINE k == Least(Matches(name))
  <2>1. k \in Matches(name) /\ \A x \in Matches(name) : k <= x
    BY <1>2, <1>4, LeastOK, Zenon DEF Matches
  <2>2. PICK l \in Matches(name)' : old[l] = k
    BY <2>1, Zenon
  <2>3. \A m \in Matches(name)' : l <= m
    BY <1>1, <2>1, <2>2, SMTT(30)
  <2>4. Matches(name)' \in SUBSET Nat
    BY <1>1, <1>2, SMTT(30)
  <2>5. Least(Matches(name)') = l
    BY <2>2, <2>3, <2>4, LeastIs, SMTT(30)
  <2>6. read_file(name) = files[k].wrote
    BY <1>4, VInvImplies DEF ReadsBack
  <2>7. ReadsBack'
    BY ReadsAre, PTL
  <2>8. read_file(name)' = files'[l].wrote
    BY <2>2, <2>5, <2>7, SMTT(30) DEF ReadsBack
  <2> QED
    BY <1>1, <2>2, <2>6, <2>8, ZenonT(60)
<1> QED
  BY <1>3, <1>4, Zenon

LEMMA AddReads ==
    ASSUME VInv, VInv', NEW name \in Names, NEW other \in Names, other # name,
           NEW n, NEW wrote, AddEntry(other, n, wrote)
    PROVE  read_file(name)' = read_file(name)
<1> DEFINE e == [name |-> other, ino |-> n, wrote |-> wrote]
           old == [l \in DOMAIN files' |-> l]
<1>1. /\ files \in Seq(Entry) /\ Len(files) \in Nat /\ DOMAIN files = 1 .. Len(files)
      /\ files' = Append(files, e)
  BY EntryType, SMTT(30) DEF VInv, AddEntry
<1>2. /\ DOMAIN files' = 1 .. Len(files) + 1 /\ files'[Len(files) + 1] = e
      /\ \A k \in DOMAIN files : files'[k] = files[k]
  BY <1>1, SMTT(30)
<1>3. \A k \in DOMAIN files' : k \in Nat /\ (k \in DOMAIN files \/ k = Len(files) + 1)
  BY <1>1, <1>2, SMTT(30)
<1>4. Matches(name)' = Matches(name)
  BY <1>1, <1>2, <1>3, SMTT(30) DEF Matches
<1>5. \A k \in Matches(name) : k \in DOMAIN files /\ k \in DOMAIN files'
  BY <1>1, <1>2 DEF Matches
<1>6. old \in [DOMAIN files' -> Nat] /\ \A k \in DOMAIN files' : old[k] = k
  BY <1>3, SMTT(30)
<1> HIDE DEF old
<1> QED
  BY <1>2, <1>3, <1>4, <1>5, <1>6, SameReads, SMTT(30)

LEMMA DeleteReads ==
    ASSUME VInv, VInv', NEW name \in Names, NEW other \in Names, other # name, DeleteEntry(other)
    PROVE  read_file(name)' = read_file(name)
<1> DEFINE k == Least(Matches(other))
           old == [l \in 1 .. Len(files) - 1 |-> IF l < k THEN l ELSE l + 1]
<1>1. files' = ShiftDown(files, k) /\ k \in DOMAIN files /\ files[k].name = other
  BY MatchOK DEF DeleteEntry, VInv
<1> HIDE DEF k
<1>2. Len(files) \in Nat /\ DOMAIN files = 1 .. Len(files)
  BY EntryType DEF VInv
<1>3. k \in Nat /\ k >= 1 /\ k <= Len(files)
  BY <1>1, <1>2
<1>4. DOMAIN files' = 1 .. Len(files) - 1 /\ \A l \in DOMAIN files' : files'[l] = files[old[l]]
  BY <1>1, <1>2, <1>3, SMTT(30) DEF ShiftDown
<1>5. /\ old \in [DOMAIN files' -> Nat]
      /\ \A l \in DOMAIN files' : old[l] \in DOMAIN files /\ old[l] # k
  BY <1>2, <1>3, <1>4, SMTT(30)
<1>6. \A l, m \in DOMAIN files' : old[l] <= old[m] => l <= m
  BY <1>2, <1>3, <1>4, SMTT(30)
<1>7. \A x \in DOMAIN files : x # k => \E l \in DOMAIN files' : old[l] = x
  <2> SUFFICES ASSUME NEW x \in DOMAIN files, x # k PROVE \E l \in 1 .. Len(files) - 1 : old[l] = x
    BY <1>4
  <2>1. CASE x < k
    <3>1. x \in 1 .. Len(files) - 1 /\ old[x] = x
      BY <1>2, <1>3, <2>1, SMTT(30)
    <3> QED
      BY <3>1
  <2>2. CASE x > k
    <3>1. x - 1 \in 1 .. Len(files) - 1 /\ old[x - 1] = x
      BY <1>2, <1>3, <2>2, SMTT(30)
    <3> QED
      BY <3>1
  <2> QED
    BY <1>2, <1>3, <2>1, <2>2, SMTT(30)
<1> HIDE DEF old
<1>8. \A l \in DOMAIN files' : l \in Matches(name)' => old[l] \in Matches(name) /\ files'[l] = files[old[l]]
  BY <1>4, <1>5, SMTT(30) DEF Matches
<1>9. ASSUME NEW x \in Matches(name) PROVE \E l \in Matches(name)' : old[l] = x
  <2>1. x \in DOMAIN files /\ x # k /\ files[x].name = name
    BY <1>1 DEF Matches
  <2>2. PICK l \in DOMAIN files' : old[l] = x
    BY <1>7, <2>1, SMTT(30)
  <2>3. l \in Matches(name)'
    BY <1>4, <2>1, <2>2 DEF Matches
  <2> QED
    BY <2>2, <2>3
<1> QED
  BY <1>5, <1>6, <1>8, <1>9, SameReads, ZenonT(60)

\* A call about one name never changes what read_file returns for another, although all
\* names share the directory, the inodes and the blocks (create_file, delete_file,
\* create_directory).
THEOREM OtherNamesKept ==
    ASSUME <<>> \notin Contents
    PROVE  Spec => OtherFilesKept
<1>1. VInv /\ [Next]_vars => VInv'
  BY StepKeeps
<1>2. ASSUME VInv, VInv', [Next]_vars, NEW name \in Names, read_file(name)' # read_file(name)
      PROVE  Call(name)
  <2>1. ASSUME UNCHANGED <<inode, data, files>> PROVE FALSE
    BY <1>2, <2>1, Zenon DEF read_file, Matches
  <2>2. PICK other \in Names : Call(other)
    BY <1>2, <2>1 DEF Next, vars
  <2>3. ASSUME other # name PROVE FALSE
    <3>1. ASSUME NEW d \in Contents, create_file(other, d) PROVE FALSE
      BY <1>2, <2>1, <2>3, <3>1, AddReads, SMTT(30) DEF create_file, CreateNoInode, StoreFile, StoreOutside
    <3>2. ASSUME delete_file(other) PROVE FALSE
      BY <1>2, <2>1, <2>3, <3>2, DeleteReads, SMTT(30) DEF delete_file, DeleteNoFile, vars
    <3>3. ASSUME create_directory(other) PROVE FALSE
      BY <1>2, <2>1, <2>3, <3>3, AddReads
         DEF create_directory, DirNoMemory, MakeDirectory, MakeDirectoryOutside, vars
    <3> QED
      BY <2>2, <3>1, <3>2, <3>3, SMTT(30) DEF Call
  <2> QED
    BY <2>2, <2>3, SMTT(30)
<1>3. VInv /\ VInv' /\ [Next]_vars =>
          [\A name \in Names : read_file(name)' # read_file(name) => Call(name)]_vars
  BY <1>2, SMTT(30)
<1> QED
  BY <1>1, <1>3, InitKeeps, PTL DEF Spec, OtherFilesKept
-----------------------------------------------------------------------------
(* Mounting ext2 *)

FsRecord == [part : Nat, read_only : BOOLEAN]
Mounted == {s.mounts[m].part : m \in 1 .. Len(s.mounts)}
IoPages(ps) == {<<"io", p>> : p \in ps}
FsHeap(ps) == {<<w, p>> : w \in {"fs", "groups"}, p \in ps}

\* A block of this partition is no smaller than a sector: no call takes the lock twice.
Fits(p) == ~(Mount!BlockSize(s.disk.parts[p].sb) < s.disk.lba)

Probing == {"init", "super", "descs", "root"}
AtPart == {"part", "raw", "done"} \cup Probing

ExtType ==
    /\ s = [disk |-> s.disk, pc |-> s.pc, i |-> s.i, pages |-> s.pages,
            heap |-> s.heap, fs |-> s.fs, mounts |-> s.mounts, root |-> s.root,
            lock |-> s.lock, written |-> s.written]
    /\ s.disk \in Disks
    /\ s.pc \in {"selftest", "style", "idle", "crashed"} \cup AtPart
    /\ s.i \in Nat
    /\ s.fs \in FsRecord
    /\ s.mounts \in Seq(FsRecord)

\* Partitions are looked at in order, each once.
Progress ==
    /\ s.pc \in AtPart => s.i \in 1 .. Len(s.disk.parts)
    /\ s.pc \in Probing => s.fs.part = s.i
    /\ s.pc \in {"selftest", "style"} => Mounted = {}
    /\ s.pc \in AtPart => \A p \in Mounted : p <= s.i
    /\ s.pc \in AtPart \ {"done"} => s.i \notin Mounted
    /\ 0 \notin Mounted

\* What is allocated: what the mounted ones need, and what the present step has taken so far
Books ==
    /\ s.pages = IoPages(Mounted) \cup (IF s.pc \in {"super", "descs", "root"} THEN {<<"io", s.i>>} ELSE {})
    /\ s.heap = FsHeap(Mounted) \cup (IF s.pc \in Probing THEN {<<"fs", s.i>>} ELSE {})
                                   \cup (IF s.pc = "root" THEN {<<"groups", s.i>>} ELSE {})
RootOK == IF Mounted = {} THEN s.root = 0 ELSE s.root \in Mounted
LockOK ==
    /\ s.lock = 0
    /\ \A p \in Mounted : Fits(p)
    /\ s.pc \in {"descs", "root"} => Fits(s.i)

ExtInv == ExtType /\ Progress /\ Books /\ RootOK /\ LockOK

LEMMA ExtInit == Mount!Init => ExtInv
<1> SUFFICES ASSUME Mount!Init PROVE ExtInv
  OBVIOUS
<1>1. PICK d \in Disks :
          s = [disk |-> d, pc |-> "selftest", i |-> 0, pages |-> {}, heap |-> {}, fs |-> Mount!None,
                   mounts |-> <<>>, root |-> 0, lock |-> 0, written |-> {}]
  BY ZenonT(60) DEF Mount!Init
<1>2. Mount!None \in FsRecord /\ <<>> \in Seq(FsRecord) /\ Mounted = {}
  BY <1>1, SMTT(30) DEF Mount!None, FsRecord, Mounted
<1>3. ExtType
  BY <1>1, <1>2, SMTT(30) DEF ExtType
<1>4. s.pc = "selftest" /\ s.pages = {} /\ s.heap = {} /\ s.root = 0 /\ s.lock = 0
  BY ONLY <1>1, Zenon
<1>5. Progress
  BY ONLY <1>2, <1>4 DEF Progress, AtPart, Probing
<1>6. Books
  BY ONLY <1>2, <1>4 DEF Books, IoPages, FsHeap, Probing
<1>7. RootOK /\ LockOK
  BY ONLY <1>2, <1>4 DEF RootOK, LockOK
<1> QED BY ONLY <1>3, <1>5, <1>6, <1>7, Zenon DEF ExtInv

LEMMA MountedType == ExtType => \A p \in Mounted : p \in Nat
<1> SUFFICES ASSUME ExtType, NEW m \in 1 .. Len(s.mounts) PROVE s.mounts[m].part \in Nat
  BY SMTT(30) DEF Mounted
<1>1. s.mounts[m] \in FsRecord
  BY DEF ExtType
<1> QED BY <1>1 DEF FsRecord

\* Steps that only move on, in pc and i
LEMMA ExtMoves ==
    ASSUME ExtInv, NEW pc, NEW i \in Nat, s' = [s EXCEPT !.pc = pc, !.i = i],
           \/ pc \in {"style", "idle"} /\ i = s.i /\ s.pc = "selftest"
           \/ pc \in {"part", "raw"} /\ i = 1 /\ s.pc = "style"
           \/ pc = "idle" /\ i = s.i /\ s.pc \in {"style", "raw", "done"}
           \/ pc \in {"done", "crashed"} /\ i = s.i /\ s.pc = "part"
           \/ pc = "part" /\ i = s.i + 1 /\ s.pc = "done" /\ i <= Len(s.disk.parts),
           Len(s.disk.parts) \in Nat \ {0}
    PROVE  ExtInv'
<1>1. s' = [disk |-> s.disk, pc |-> pc, i |-> i, pages |-> s.pages,
                heap |-> s.heap, fs |-> s.fs, mounts |-> s.mounts, root |-> s.root,
                lock |-> s.lock, written |-> s.written]
  BY Zenon DEF ExtInv, ExtType
<1>2. Mounted' = Mounted /\ \A p : Fits(p)' <=> Fits(p)
  BY <1>1 DEF Mounted, Fits
<1>3. ExtType'
  BY <1>1, Zenon DEF ExtInv, ExtType, AtPart
<1>4. Progress'
  <2>1. s'.pc = pc /\ s'.i = i /\ s'.disk = s.disk /\ s'.fs = s.fs
    BY <1>1
  <2>2. \A p \in Mounted : p \in Nat
    BY MountedType DEF ExtInv
  <2>3. pc \in AtPart => i \in 1 .. Len(s.disk.parts)
    BY DEF ExtInv, ExtType, Progress, AtPart, Probing
  <2>4. /\ pc \in AtPart => \A p \in Mounted : p <= i
        /\ pc \in AtPart \ {"done"} => i \notin Mounted
    BY <2>2 DEF ExtInv, ExtType, Progress, AtPart, Probing
  <2>5. pc \notin Probing /\ (pc \in {"selftest", "style"} => Mounted = {})
    BY DEF ExtInv, Progress, Probing
  <2> QED BY <1>2, <2>1, <2>3, <2>4, <2>5, SMTT(30) DEF ExtInv, Progress
<1>5. Books'
  BY <1>1, <1>2 DEF ExtInv, Books, Probing
<1>6. RootOK' /\ LockOK'
  BY <1>1, <1>2, SMTT(30) DEF ExtInv, RootOK, LockOK
<1> QED BY <1>3, <1>4, <1>5, <1>6, SMTT(30) DEF ExtInv

\* A probe fails: what it took is given back.
LEMMA ExtFails ==
    ASSUME ExtInv, s.pc \in Probing, s' = Mount!Failed(s)
    PROVE  ExtInv'
<1>1. s' = [disk |-> s.disk, pc |-> "done", i |-> s.i, pages |-> s.pages \ {<<"io", s.i>>},
                heap |-> s.heap \ {<<"fs", s.i>>, <<"groups", s.i>>}, fs |-> Mount!None,
                mounts |-> s.mounts, root |-> s.root, lock |-> s.lock, written |-> s.written]
  BY Zenon DEF ExtInv, ExtType, Mount!Failed
<1>2. Mounted' = Mounted /\ \A p : Fits(p)' <=> Fits(p)
  <2>1. s'.mounts = s.mounts /\ s'.disk = s.disk
    BY ONLY <1>1, ZenonT(60)
  <2> QED BY ONLY <2>1, Zenon DEF Mounted, Fits
<1>3. ExtType'
  BY <1>1, SMTT(30) DEF ExtInv, ExtType, AtPart, Mount!None, FsRecord
<1>4. s.i \notin Mounted /\ Progress'
  BY <1>1, <1>2, SMTT(30) DEF ExtInv, Progress, AtPart, Probing
<1>5. Books'
  <2>1. <<"io", s.i>> \notin IoPages(Mounted)
    BY <1>4, SMTT(30) DEF IoPages
  <2>2. <<"fs", s.i>> \notin FsHeap(Mounted) /\ <<"groups", s.i>> \notin FsHeap(Mounted)
    BY <1>4, SMTT(30) DEF FsHeap
  <2>3. s'.pages = IoPages(Mounted)
    <3>1. IoPages(Mounted) \subseteq s.pages /\ s.pages \subseteq IoPages(Mounted) \cup {<<"io", s.i>>}
      BY SMTT(30) DEF ExtInv, Books
    <3>2. s'.pages = s.pages \ {<<"io", s.i>>}
      BY <1>1
    <3> QED BY <2>1, <3>1, <3>2, ZenonT(60)
  <2>4. s'.heap = FsHeap(Mounted)
    <3>1. /\ FsHeap(Mounted) \subseteq s.heap
          /\ s.heap \subseteq FsHeap(Mounted) \cup {<<"fs", s.i>>, <<"groups", s.i>>}
      BY SMTT(30) DEF ExtInv, Books
    <3>2. s'.heap = s.heap \ {<<"fs", s.i>>, <<"groups", s.i>>}
      BY <1>1, SMTT(30)
    <3> QED BY <2>2, <3>1, <3>2, ZenonT(60)
  <2>5. s'.pc \notin {"super", "descs", "root"} /\ s'.pc \notin Probing /\ s'.pc # "root"
    BY ONLY <1>1 DEF Probing
  <2>6. IoPages(Mounted') \cup {} = IoPages(Mounted) /\ FsHeap(Mounted') \cup {} \cup {} = FsHeap(Mounted)
    BY ONLY <1>2, ZenonT(60)
  <2> QED BY ONLY <2>3, <2>4, <2>5, <2>6, ZenonT(60) DEF Books
<1>6. RootOK' /\ LockOK'
  <2>1. s'.root = s.root /\ s'.lock = s.lock /\ s'.pc \notin {"descs", "root"}
    BY ONLY <1>1
  <2>2. RootOK /\ LockOK
    BY Zenon DEF ExtInv
  <2>3. RootOK'
    BY ONLY <1>2, <2>1, <2>2, Zenon DEF RootOK
  <2>4. LockOK'
    BY ONLY <1>2, <2>1, <2>2, Zenon DEF LockOK
  <2> QED BY ONLY <2>3, <2>4
<1> QED BY ONLY <1>3, <1>4, <1>5, <1>6, Zenon DEF ExtInv

\* A probe goes on: it has taken one thing more.
LEMMA ExtGoesOn ==
    ASSUME ExtInv, NEW pc, NEW pages, NEW heap, NEW fs \in FsRecord,
           s' = [s EXCEPT !.pc = pc, !.pages = @ \cup pages, !.heap = @ \cup heap, !.fs = fs],
           \/ /\ s.pc \in {"part", "raw"} /\ pc = "init" /\ fs.part = s.i
              /\ pages = {} /\ heap = {<<"fs", s.i>>}
           \/ s.pc = "init" /\ pc = "super" /\ pages = {<<"io", s.i>>} /\ heap = {} /\ fs.part = s.fs.part
           \/ s.pc = "super" /\ pc = "descs" /\ pages = {} /\ heap = {} /\ fs.part = s.fs.part /\ Fits(s.i)
           \/ s.pc = "descs" /\ pc = "root" /\ pages = {} /\ heap = {<<"groups", s.i>>} /\ fs.part = s.fs.part
    PROVE  ExtInv'
<1>1. s' = [disk |-> s.disk, pc |-> pc, i |-> s.i, pages |-> s.pages \cup pages,
                heap |-> s.heap \cup heap, fs |-> fs, mounts |-> s.mounts, root |-> s.root,
                lock |-> s.lock, written |-> s.written]
  BY Zenon DEF ExtInv, ExtType
<1>2. Mounted' = Mounted /\ \A p : Fits(p)' <=> Fits(p)
  BY <1>1 DEF Mounted, Fits
<1>3. ExtType'
  BY <1>1, ZenonT(60) DEF ExtInv, ExtType, AtPart, Probing
<1>4. Progress'
  BY <1>1, <1>2 DEF ExtInv, Progress, AtPart, Probing
<1>5. Books'
  <2>1. s'.pc = pc /\ s'.i = s.i /\ s'.pages = s.pages \cup pages /\ s'.heap = s.heap \cup heap
    BY <1>1
  <2> QED BY <1>2, <2>1 DEF ExtInv, Books, Probing
<1>6. RootOK' /\ LockOK'
  BY <1>1, <1>2 DEF ExtInv, RootOK, LockOK
<1> QED BY <1>3, <1>4, <1>5, <1>6, SMTT(30) DEF ExtInv

\* ext2_setup_super: the file system is mounted.
LEMMA ExtMounts ==
    ASSUME ExtInv, s.pc = "root", NEW root, root = IF s.root = 0 THEN s.i ELSE s.root,
           s' = [s EXCEPT !.pc = "done", !.mounts = Append(@, s.fs), !.fs = Mount!None, !.root = root]
    PROVE  ExtInv'
<1>1. s' = [disk |-> s.disk, pc |-> "done", i |-> s.i, pages |-> s.pages,
                heap |-> s.heap, fs |-> Mount!None, mounts |-> Append(s.mounts, s.fs), root |-> root,
                lock |-> s.lock, written |-> s.written]
  BY Zenon DEF ExtInv, ExtType
<1>2. PICK q : q = Append(s.mounts, s.fs)
  BY Zenon
<1>3. /\ q \in Seq(FsRecord) /\ Len(q) = Len(s.mounts) + 1 /\ q[Len(s.mounts) + 1] = s.fs
      /\ \A m \in 1 .. Len(s.mounts) : q[m] = s.mounts[m]
      /\ Len(s.mounts) \in Nat /\ s'.mounts = q
  BY <1>1, <1>2 DEF ExtInv, ExtType
<1>4. s.fs.part = s.i /\ s.i \in 1 .. Len(s.disk.parts) /\ s.i # 0
  BY DEF ExtInv, Progress, Probing, AtPart
<1>5. Mounted' = Mounted \cup {s.i}
  <2>1. Mounted' = {q[m].part : m \in 1 .. Len(s.mounts) + 1}
    BY <1>3, SMTT(30) DEF Mounted
  <2>2. ASSUME NEW m \in 1 .. Len(s.mounts) + 1 PROVE q[m].part \in Mounted \cup {s.i}
    BY <1>3, <1>4, SMTT(30) DEF Mounted
  <2>3. PICK new : new = Mounted'
    OBVIOUS
  <2>4. ASSUME NEW m \in 1 .. Len(s.mounts) PROVE s.mounts[m].part \in new
    BY <1>3, <2>1, <2>3, SMTT(30)
  <2>5. Mounted \subseteq new
    BY <2>4 DEF Mounted
  <2>6. s.i \in new
    BY <1>3, <1>4, <2>1, <2>3, SMTT(30)
  <2>7. new \subseteq Mounted \cup {s.i}
    BY <2>1, <2>2, <2>3
  <2> QED BY <2>3, <2>5, <2>6, <2>7, SMTT(30)
<1>6. ExtType'
  <2>1. Mount!None \in FsRecord
    BY DEF Mount!None, FsRecord
  <2>2. s' = [disk |-> s.disk, pc |-> "done", i |-> s.i, pages |-> s.pages,
                  heap |-> s.heap, fs |-> Mount!None, mounts |-> q, root |-> root,
                  lock |-> s.lock, written |-> s.written]
    BY <1>1, <1>2, Zenon
  <2> QED BY <1>3, <2>1, <2>2, Zenon DEF ExtInv, ExtType, AtPart
<1>7. \A p : Fits(p)' <=> Fits(p)
  BY <1>1 DEF Fits
<1>8. Progress'
  BY <1>1, <1>4, <1>5 DEF ExtInv, ExtType, Progress, AtPart, Probing
<1>9. Books'
  <2>1. IoPages(Mounted \cup {s.i}) = IoPages(Mounted) \cup {<<"io", s.i>>}
    BY DEF IoPages
  <2>2. FsHeap(Mounted \cup {s.i}) = FsHeap(Mounted) \cup {<<"fs", s.i>>} \cup {<<"groups", s.i>>}
    BY DEF FsHeap
  <2>3. s'.pages = s.pages /\ s'.heap = s.heap /\ s'.pc = "done"
    BY <1>1
  <2> QED BY <1>5, <2>1, <2>2, <2>3, SMTT(30) DEF ExtInv, Books, Probing
<1>10. RootOK' /\ LockOK'
  BY <1>1, <1>4, <1>5, <1>7 DEF ExtInv, RootOK, LockOK, Progress
<1> QED BY <1>6, <1>8, <1>9, <1>10, SMTT(30) DEF ExtInv

\* A write to a mounted file system
LEMMA ExtWrites ==
    ASSUME ExtInv, NEW written, s' = [s EXCEPT !.lock = 0, !.written = written]
    PROVE  ExtInv'
<1>1. s' = [disk |-> s.disk, pc |-> s.pc, i |-> s.i, pages |-> s.pages,
                heap |-> s.heap, fs |-> s.fs, mounts |-> s.mounts, root |-> s.root,
                lock |-> 0, written |-> written]
  BY Zenon DEF ExtInv, ExtType
<1>2. Mounted' = Mounted /\ \A p : Fits(p)' <=> Fits(p)
  BY <1>1 DEF Mounted, Fits
<1>3. ExtType'
  BY <1>1, Zenon DEF ExtInv, ExtType
<1>4. Progress' /\ Books'
  BY <1>1, <1>2 DEF ExtInv, Progress, Books
<1>5. RootOK' /\ LockOK'
  BY <1>1, <1>2, SMTT(30) DEF ExtInv, RootOK, LockOK
<1> QED BY <1>3, <1>4, <1>5 DEF ExtInv

\* What ext2_validate_sb has accepted has blocks of at least a sector.
LEMMA ValidFits ==
    ASSUME ExtInv, s.i \in 1 .. Len(s.disk.parts),
           Mount!ext2_validate_sb(Mount!Part.sb, s.disk.lba)
    PROVE  Fits(s.i)
<1> DEFINE sb == s.disk.parts[s.i].sb
           lba == s.disk.lba
<1>1. sb.log \in 0 .. 2 /\ lba \in Nat /\ Base \in Nat
  <2>1. s.disk \in Disks
    BY DEF ExtInv, ExtType
  <2>2. sb.log <= 2
    BY Zenon DEF Mount!ext2_validate_sb, Mount!Part
  <2>3. sb.log \in Nat /\ lba \in Nat /\ Base \in Nat
    BY <2>1, Ext2Assumption, SMTT(30)
  <2> QED BY <2>2, <2>3, SMTT(90)
<1>2. Mount!BlockSize(sb) >= lba
  BY ZenonT(60) DEF Mount!ext2_validate_sb, Mount!FitsSector, Mount!Part
<1>3. Mount!BlockSize(sb) \in Nat
  <2>1. 2^0 = 1 /\ 2^1 = 2 /\ 2^2 = 4
    OBVIOUS
  <2>2. 2^sb.log \in Nat
    <3>1. PICK n \in 0 .. 2 : n = sb.log
      BY <1>1
    <3>2. n = 0 \/ n = 1 \/ n = 2
      OBVIOUS
    <3>3. 1 \in Nat /\ 2 \in Nat /\ 4 \in Nat
      OBVIOUS
    <3> QED BY <2>1, <3>1, <3>2, <3>3, ZenonT(60)
  <2> HIDE DEF sb
  <2> QED BY <1>1, <2>2 DEF Mount!BlockSize
<1> QED BY <1>1, <1>2, <1>3, SMTT(30) DEF Fits

LEMMA ExtStep == ASSUME ExtInv, [Mount!Next]_s PROVE ExtInv'
<1>0. /\ Len(s.disk.parts) \in Nat \ {0} /\ s.i \in Nat
      /\ s.pc \in AtPart => s.i \in 1 .. Len(s.disk.parts)
  BY Ext2Assumption DEF ExtInv, ExtType, Progress
<1> HIDE DEF ExtInv
<1>a. s = [s EXCEPT !.i = s.i] /\ s = [s EXCEPT !.lock = 0] /\ s.lock = 0
      /\ s.fs \in FsRecord
  BY SMTT(30) DEF ExtInv, ExtType, LockOK
<1>c. /\ s.pages \cup {} = s.pages /\ s.heap \cup {} = s.heap
      /\ s = [disk |-> s.disk, pc |-> s.pc, i |-> s.i, pages |-> s.pages,
                  heap |-> s.heap, fs |-> s.fs, mounts |-> s.mounts, root |-> s.root,
                  lock |-> s.lock, written |-> s.written]
  BY SMTT(30) DEF ExtInv, ExtType
<1>b. ASSUME s.pc \in {"part", "raw"}, s' = Mount!Found PROVE ExtInv'
  <2>1. PICK fs : fs = [part |-> s.i, read_only |-> FALSE]
    BY ZenonT(60)
  <2>2. fs \in FsRecord /\ fs.part = s.i
    BY <1>0, <2>1 DEF FsRecord
  <2>3. s' = [s EXCEPT !.pc = "init", !.pages = @ \cup {}, !.heap = @ \cup {<<"fs", s.i>>}, !.fs = fs]
    BY <1>b, <1>c, <2>1, Zenon DEF Mount!Found
  <2>4. PICK pc, pages, heap : pc = "init" /\ pages = {} /\ heap = {<<"fs", s.i>>}
    BY Zenon
  <2>5. s' = [s EXCEPT !.pc = pc, !.pages = @ \cup pages, !.heap = @ \cup heap, !.fs = fs]
    BY <2>3, <2>4, SMTT(30)
  <2>6. s.pc \in {"part", "raw"} /\ pc = "init" /\ fs.part = s.i /\ pages = {} /\ heap = {<<"fs", s.i>>}
    BY <1>b, <2>2, <2>4
  <2> QED BY ONLY ExtInv, <2>2, <2>5, <2>6, ExtGoesOn, Zenon
<1>1. CASE Mount!Selftest
  <2>1. PICK pc \in {"style", "idle"} : s' = [s EXCEPT !.pc = pc] /\ s.pc = "selftest"
    BY <1>1 DEF Mount!Selftest
  <2>2. s' = [s EXCEPT !.pc = pc, !.i = s.i]
    BY <1>a, <2>1, Zenon
  <2> QED BY <1>0, <2>1, <2>2, ExtMoves, Zenon
<1>2. CASE Mount!determine_disk_type
  <2>1. s.pc = "style"
    BY <1>2 DEF Mount!determine_disk_type
  <2>2. \/ s' = [s EXCEPT !.pc = "idle"]
        \/ \E pc \in {"part", "raw"} : s' = [s EXCEPT !.pc = pc, !.i = 1]
    BY <1>2 DEF Mount!determine_disk_type, Mount!disk_gpt, Mount!disk_mbr
  <2>3. CASE s' = [s EXCEPT !.pc = "idle"]
    <3>1. s' = [s EXCEPT !.pc = "idle", !.i = s.i]
      BY <1>a, <2>3, Zenon
    <3> QED BY <1>0, <2>1, <3>1, ExtMoves, Zenon
  <2>4. ASSUME NEW pc \in {"part", "raw"}, s' = [s EXCEPT !.pc = pc, !.i = 1] PROVE ExtInv'
    BY <1>0, <2>1, <2>4, ExtMoves, Zenon
  <2> QED BY <2>2, <2>3, <2>4
<1>3. CASE Mount!disk_do_mbr_linux
  <2>1. s.pc = "part" /\ (s' = Mount!Found \/ \E pc \in {"done", "crashed"} : s' = [s EXCEPT !.pc = pc])
    BY <1>3, SMTT(30) DEF Mount!disk_do_mbr_linux
  <2>2. ASSUME NEW pc \in {"done", "crashed"}, s' = [s EXCEPT !.pc = pc] PROVE ExtInv'
    <3>1. s' = [s EXCEPT !.pc = pc, !.i = s.i]
      BY <1>a, <2>2, Zenon
    <3> QED BY <1>0, <2>1, <3>1, ExtMoves, Zenon
  <2> QED BY <1>b, <2>1, <2>2
<1>4. CASE Mount!disk_try_linux
  <2>1. s.pc = "raw" /\ (s' = Mount!Found \/ s' = [s EXCEPT !.pc = "idle"])
    BY <1>4 DEF Mount!disk_try_linux
  <2>2. CASE s' = [s EXCEPT !.pc = "idle"]
    <3>1. s' = [s EXCEPT !.pc = "idle", !.i = s.i]
      BY <1>a, <2>2, Zenon
    <3> QED BY <1>0, <2>1, <3>1, ExtMoves, Zenon
  <2> QED BY <1>b, <2>1, <2>2
<1>5. CASE Mount!InitFs
  <2>1. /\ s.pc = "init"
        /\ \/ s' = Mount!Failed(s)
           \/ s' = [s EXCEPT !.pc = "super", !.pages = @ \cup {<<"io", s.i>>}]
    BY <1>5, SMTT(30) DEF Mount!InitFs
  <2>2. CASE s' = [s EXCEPT !.pc = "super", !.pages = @ \cup {<<"io", s.i>>}]
    <3>1. s' = [s EXCEPT !.pc = "super", !.pages = @ \cup {<<"io", s.i>>}, !.heap = @ \cup {}, !.fs = s.fs]
      BY <1>c, <2>2, Zenon
    <3> QED BY <1>a, <2>1, <3>1, ExtGoesOn, Zenon
  <2> QED BY <2>1, <2>2, ExtFails DEF Probing
<1>6. CASE Mount!Super
  <2>1. /\ s.pc = "super"
        /\ \/ s' = Mount!Failed(s)
           \/ /\ Mount!ext2_validate_sb(Mount!Part.sb, s.disk.lba)
              /\ s' = [s EXCEPT !.pc = "descs", !.fs.read_only = Mount!Part.sb.ro]
    BY <1>6 DEF Mount!Super
  <2>2. ASSUME Mount!ext2_validate_sb(Mount!Part.sb, s.disk.lba),
               s' = [s EXCEPT !.pc = "descs", !.fs.read_only = Mount!Part.sb.ro]
        PROVE  ExtInv'
    <3>1. s.i \in 1 .. Len(s.disk.parts)
      BY <1>0, <2>1, SMTT(30) DEF AtPart, Probing
    <3>2. Mount!Part.sb.ro \in BOOLEAN
      BY <3>1, Ext2Assumption DEF ExtInv, ExtType, Mount!Part
    <3>3. PICK fs : fs = [s.fs EXCEPT !.read_only = Mount!Part.sb.ro]
      BY Zenon
    <3>4. fs \in FsRecord /\ fs.part = s.fs.part
      BY <1>a, <3>2, <3>3 DEF FsRecord
    <3>5. s' = [s EXCEPT !.pc = "descs", !.fs = fs]
      BY <2>2, <3>3
    <3>6. s' = [s EXCEPT !.pc = "descs", !.pages = @ \cup {}, !.heap = @ \cup {}, !.fs = fs]
      BY <1>c, <3>5, Zenon
    <3>7. Fits(s.i)
      BY <2>2, <3>1, ValidFits
    <3> QED BY <2>1, <3>4, <3>6, <3>7, ExtGoesOn, Zenon
  <2> QED BY <2>1, <2>2, ExtFails DEF Probing
<1>7. CASE Mount!Descs
  <2>1. /\ s.pc = "descs"
        /\ \/ s' = Mount!Failed(s)
           \/ s' = [s EXCEPT !.pc = "root", !.heap = @ \cup {<<"groups", s.i>>}]
    BY <1>7, SMTT(30) DEF Mount!Descs
  <2>2. CASE s' = [s EXCEPT !.pc = "root", !.heap = @ \cup {<<"groups", s.i>>}]
    <3>1. s' = [s EXCEPT !.pc = "root", !.pages = @ \cup {}, !.heap = @ \cup {<<"groups", s.i>>}, !.fs = s.fs]
      BY <1>c, <2>2, Zenon
    <3> QED BY <1>a, <2>1, <3>1, ExtGoesOn, Zenon
  <2> QED BY <2>1, <2>2, ExtFails DEF Probing
<1>8. CASE Mount!Root
  <2>1. s.pc = "root" /\ Mount!Locked(s, s.i) = 0
    BY <1>8 DEF Mount!Root, Mount!Locked, ExtInv, LockOK, Fits
  <2>2. s = [s EXCEPT !.lock = Mount!Locked(s, s.i)]
    BY <1>a, <2>1
  <2>3. PICK root : root = IF s.root = 0 THEN s.i ELSE s.root
    OBVIOUS
  <2>4. \/ s' = Mount!Failed(s)
        \/ s' = [s EXCEPT !.pc = "done", !.mounts = Append(@, s.fs), !.fs = Mount!None, !.root = root]
    BY <1>8, <2>2, <2>3, Zenon DEF Mount!Root
  <2> QED BY <2>1, <2>3, <2>4, ExtFails, ExtMounts, Zenon DEF Probing
<1>9. CASE Mount!Done
  <2>1. /\ s.pc = "done"
        /\ \/ s' = [s EXCEPT !.pc = "idle"]
           \/ s' = [s EXCEPT !.pc = "part", !.i = @ + 1] /\ s.i # Len(s.disk.parts)
    BY <1>9 DEF Mount!Done
  <2>2. CASE s' = [s EXCEPT !.pc = "idle"]
    <3>1. s' = [s EXCEPT !.pc = "idle", !.i = s.i]
      BY <1>a, <2>2, Zenon
    <3> QED BY <1>0, <2>1, <3>1, ExtMoves, Zenon
  <2>3. CASE s' = [s EXCEPT !.pc = "part", !.i = @ + 1] /\ s.i # Len(s.disk.parts)
    <3>1. s' = [s EXCEPT !.pc = "part", !.i = s.i + 1]
      BY <2>3
    <3>2. s.i + 1 \in Nat /\ s.i + 1 <= Len(s.disk.parts)
      BY <1>0, <2>1, <2>3, SMTT(30) DEF AtPart
    <3> QED BY <1>0, <2>1, <3>1, <3>2, ExtMoves, Zenon
  <2> QED BY <2>1, <2>2, <2>3
<1>10. ASSUME NEW m, NEW block, Mount!WriteBlock(m, block) PROVE ExtInv'
  <2>1. m \in 1 .. Len(s.mounts)
    BY <1>10 DEF Mount!WriteBlock, ExtInv, ExtType
  <2>2. s.mounts[m].part \in Mounted
    BY <2>1, SMTT(30) DEF Mounted
  <2>3. Mount!Locked(s, s.mounts[m].part) = 0
    BY <2>2, SMTT(30) DEF Mount!Locked, ExtInv, LockOK, Fits
  <2>4. s' = [s EXCEPT !.lock = 0, !.written = {<<s.mounts[m].part, block>>}]
    BY <1>10, <2>3, SMTT(30) DEF Mount!WriteBlock
  <2> QED BY <2>4, ExtWrites, Zenon
<1>11. ASSUME NEW m, Mount!WriteSuper(m) PROVE ExtInv'
  <2>1. PICK w : s' = [s EXCEPT !.written = w]
    BY <1>11, Zenon DEF Mount!WriteSuper
  <2>2. s' = [s EXCEPT !.lock = 0, !.written = w]
    BY <1>a, <2>1, Zenon
  <2> QED BY <2>2, ExtWrites, Zenon
<1>12. CASE UNCHANGED s
  <2>1. s' = [s EXCEPT !.lock = 0, !.written = s.written]
    BY <1>12, <1>a, <1>c, Zenon
  <2> QED BY <2>1, ExtWrites, Zenon
<1> QED
  BY <1>1, <1>2, <1>3, <1>4, <1>5, <1>6, <1>7, <1>8, <1>9, <1>10, <1>11, <1>12, SMTT(30) DEF Mount!Next

\* However reads and allocations fail while init_disk looks for file systems, it gives back what it
\* took for those it cannot s, keeps what the mounted ones need, and no call waits for a lock
\* that it holds itself; for any disks and superblocks.
THEOREM MountsKeepBooks == MountsSpec => []MountKeepsBooks
<1>1. ExtInv /\ [MountsNext]_<<part, s>> => ExtInv'
  BY ExtStep, SMTT(30) DEF MountsNext
<1>2. ASSUME ExtInv PROVE Mount!MountKeepsBooks
  <2>1. Mounted = Mount!Mounted
    BY <1>2 DEF ExtInv, ExtType, Mounted, Mount!Mounted
  <2>2. s.lock < 2
    BY <1>2, SMTT(30) DEF ExtInv, LockOK
  <2>3. s.pc = "idle" => s.pages = IoPages(Mounted) /\ s.heap = FsHeap(Mounted)
    BY <1>2, SMTT(30) DEF ExtInv, Books, Probing
  <2>4. (s.root = 0) = (Mounted = {}) /\ s.root \in Mounted \cup {0}
    BY <1>2 DEF ExtInv, RootOK, Progress
  <2> QED BY <2>1, <2>2, <2>3, <2>4, SMTT(30) DEF Mount!MountKeepsBooks, IoPages, FsHeap
<1>3. ExtInv => MountKeepsBooks
  BY <1>2 DEF MountKeepsBooks
<1>4. MountsInit => ExtInv
  BY ExtInit DEF MountsInit
<1> QED BY <1>1, <1>3, <1>4, PTL DEF MountsSpec
=============================================================================
