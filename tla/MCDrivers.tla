------------------------------ MODULE MCDrivers -----------------------------
(***************************************************************************)
(* The kernel's drivers and mounting, for TLC, with page tables, the         *)
(* terminal and the keyboard.  The keyboard has its variables by name, and   *)
(* rests in its initial state while another part runs.                       *)
(***************************************************************************)
EXTENDS Keyboard, Drivers, Mounts, TLC

CONSTANTS
    Parts,
    Width, Depth, PageBytes, Frames, Ram, Hhdm,                  \* Paging
    KernelVirt, KernelPhys, RoPages, RwPages, MaxPhys

mcvars == <<part, s, vars>>

\* MADTs: one chip with and without an override; two chips, and an override
\* the kernel ignores; records that are empty, too long, too many
Chip(base) == [type |-> "io", len |-> 4, base |-> base]
Override(irq, gsi) == [type |-> "override", len |-> 3, irq |-> irq, gsi |-> gsi]
Other(len) == [type |-> "other", len |-> len]
Madt(entries, length) == [entries |-> entries, length |-> length]
MCMadts == {Madt(<<Chip(0), Override(0, 2)>>, 7), Madt(<<Chip(0), Override(9, 1)>>, 7),
          Madt(<<Other(2), Chip(0), Chip(2)>>, 10), Madt(<<Other(2), Other(0)>>, 4),
          Madt(<<Other(2), Override(1, 3)>>, 4), Madt([k \in 1 .. 5 |-> Other(2)], 10)}
MCPins == 0 .. 2

\* Four levels of two entries, and one table less than all mappings need
MCFrames == 1 .. 7
MCRam == <<<<0, 1>>, <<1, 1>>>>
Page == INSTANCE Paging

\* Superblocks that differ from a good one in two fields; disks of several partitions
Good == [log |-> 0, rev |-> 1, incompat |-> FALSE, ro |-> FALSE, isize |-> 2, ino1 |-> 2,
         blocks |-> 13, first |-> 1, bpg |-> 6, ipg |-> 4, icount |-> 8]
Values == [log |-> {1, 3}, rev |-> {0, 2}, incompat |-> {TRUE}, ro |-> {TRUE}, isize |-> {1, 3, 4, 8},
           ino1 |-> {1, 9}, blocks |-> {0, 10, 14}, first |-> {0, 13}, bpg |-> {0, 2, 4, 40},
           ipg |-> {0, 3, 11, 40}, icount |-> {0, 1, 7, 12}]
Altered(sbs) == UNION {UNION {{[sb EXCEPT ![f] = v] : v \in Values[f]} : f \in DOMAIN Values} : sb \in sbs}
Partition(sb, shift, dir) == [linux |-> TRUE, magic |-> TRUE, sb |-> sb, shift |-> shift, dir |-> dir]
MCDisks ==
    {[lba |-> lba, style |-> "raw", parts |-> <<Partition(sb, <<1, 2>>, TRUE)>>] :
        lba \in {2, 4, 8}, sb \in Altered(Altered({Good}))}
    \cup {[lba |-> 2, style |-> style,
           parts |-> <<Partition(Good, <<1, 2>>, dir), [Partition(Good, shift, TRUE) EXCEPT !.linux = FALSE],
                       [Partition(Good, shift, TRUE) EXCEPT !.magic = FALSE], Partition(Good, shift, TRUE)>>] :
              style \in {"gpt", "mbr"}, dir \in BOOLEAN,
              shift \in {<<1, 2>>, <<0, 3>>, <<-1, 2>>, <<2, -1>>, <<1, 5>>}}

\* Files with one hole and one block that cannot be read
Nodes == {<<l>> : l \in 1 .. 3} \cup {<<l, d>> : l \in 1 .. 3, d \in 0 .. 1} \cup {<<3, d, e>> : d, e \in 0 .. 1}
Files == {[holes |-> {h}, bad |-> {b}] : h, b \in Nodes}

\* What is written: text and controls, characters outside ASCII, commands with and without values,
\* text attributes, and sequences that are cut off, wrong or too long
Csi(values, c) == <<"ESC", "[">> \o values \o <<c>>
Texts == {<<"A", "B", "LF", "x", "A", "LF", "B", "x">>, <<"A", "x", "A", "B", "A">>, <<"LF">>, <<"TAB", "A">>, <<"BS", "CR">>, <<"SO", "x", "SI">>, <<"NUL", "C1">>,
          <<"U2", "known", "U3", "known", "wide">>, <<"U4", "known", "known", "mark">>, <<"U2", "x", "narrow">>}
Commands == {Csi(<<v>>, c) : v \in {"2"}, c \in {"A", "E", "C", "D", "d", "M", "L", "J", "@", "P", "X", "K", "q"}}
    \cup {Csi(<<>>, c) : c \in {"F", "B", "H", "J", "K", "s", "u", "r", "G"}}
    \cup {Csi(<<"0">>, c) : c \in {"d", "P"}} \cup {Csi(<<"1">>, c) : c \in {"J", "K"}}
    \cup {Csi(<<"1", ";", "2">>, "r"), Csi(<<"2", ";", "4">>, "H"), Csi(<<"4">>, "h"), Csi(<<"4">>, "l"),
          Csi(<<"?", "2", "5">>, "h"), Csi(<<"?", "2", "5">>, "l"), Csi(<<"9">>, "P")}
    \cup {<<"ESC", c>> : c \in {"7", "8", "c", "D", "E", "M", "Z"}} \cup {<<"ESC", "(", "0">>, <<"ESC", ")", "B">>}
Attributes == {Csi(values, "m") : values \in {<<>>, <<"1">>, <<"2", "2">>, <<"5">>, <<"2", "5">>, <<"7">>, <<"2", "7">>, <<"3", "1">>,
    <<"4", "1">>, <<"9", "1">>, <<"1", "0", "1">>, <<"3", "9">>, <<"4", "9">>, <<"3", "8", ";", "5", ";", "9">>, <<"0", ";", "7">>,
    <<"4", "8", ";", "2", ";", "1", ";", "1", ";", "1">>, <<"3", "8", ";", "5">>, <<"3", "8", ";", "4">>, <<"4", "8">>}}
Malformed == {<<"ESC", "[", "3">>, <<"1", "m", "x">>, <<"CAN", "x">>, <<"ESC", "[", "?">>, <<"ESC", "]", "0">>, <<"ESC", "]", "ESC", "x">>,
    <<"ESC", "[", "[", "A">>, Csi(<<"1", ";", ";", "2", ";", "3", ";", "4", ";", "5", ";", "6", "7">>, "H")}
Term == INSTANCE Terminal WITH Rows <- 3, Cols <- 4, MaxValues <- 5, MaxWrites <- 3,
    Writes <- Texts \cup Commands \cup Attributes \cup Malformed

\* What a sector holds is only copied and compared
Swap == Permutations(Data)

MCInit ==
    /\ part \in Parts /\ Init
    /\ \/ part = "typist" /\ s = 0
       \/ part = "paging" /\ Page!Init
       \/ part = "terminal" /\ Term!Init
       \/ DriversInit
       \/ MountsInit

MCNext ==
    \/ part = "typist" /\ Next /\ UNCHANGED <<part, s>>
    \/ part = "paging" /\ Page!Next /\ UNCHANGED <<part, vars>>
    \/ part = "terminal" /\ Term!Next /\ UNCHANGED <<part, vars>>
    \/ DriversNext /\ UNCHANGED vars
    \/ MountsNext /\ UNCHANGED vars

MCSpec == MCInit /\ [][MCNext]_mcvars

-----------------------------------------------------------------------------
(* Properties of page tables, of the files to look at, and of the terminal *)

\* map_page and getPhysicalAddress agree, and uacpi_kernel_map maps every byte asked for.
TranslationAgrees == part = "paging" => Page!TranslationAgrees

\* A mounted file system's inodes are in their tables, and ext2_bmap finds the blocks
\* of a file.
BlocksAreFound ==
    part = "ext2" =>
        /\ Mount!InodesInTheirTable
        /\ s.pc = "selftest" /\ s.disk.style = "gpt" => Mount!BmapAgrees(Files, 2)

\* flanterm_write leaves on the screen what was written, with the colours its attributes say,
\* and no sequence takes the cursor, the margins or the parsed values out of bounds.
ScreenIsTrue == part = "terminal" => Term!ScreenShowsText /\ Term!StateInBounds /\ Term!ColoursFollowAttributes
=============================================================================
