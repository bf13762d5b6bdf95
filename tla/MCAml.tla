-------------------------------- MODULE MCAml -------------------------------
(***************************************************************************)
(* The AML side of uACPI, for TLC.  A behaviour is one of a part of it:       *)
(* `part' names it and s is its state.                                        *)
(***************************************************************************)
EXTENDS Acpi, TLC

CONSTANTS Parts, FrameLimit, FrameSlots

\* A FADT, a DSDT, a FACS and two SSDTs, one of them damaged; a table of a bad length;
\* a host's own SSDT at 7 and 8
Mem(good, short) ==
    [a \in 1 .. 8 |-> [sig |-> CASE a = 1 -> "FACP" [] a = 2 -> "DSDT" [] a = 3 -> "FACS" [] OTHER -> "SSDT",
                       good |-> a \notin {5, 8} /\ good, short |-> a = 6 /\ short]]
Firmware(rsdt, dsdt, facs, good, short) ==
    [rsdt |-> rsdt, dsdt |-> dsdt, facs |-> facs, mem |-> Mem(good, short)]
Tab == INSTANCE Tables WITH
    Firmwares <- {Firmware(<<1, 5, 0, 4>>, 2, 3, TRUE, TRUE), Firmware(<<4, 1, 6>>, 2, 0, TRUE, TRUE),
                  Firmware(<<1, 5>>, 2, 3, FALSE, FALSE), Firmware(<<4>>, 0, 0, TRUE, FALSE)},
    Policies <- {<<1, 2, 3, 7, 0, 6, 7, 8>>, <<1, 8, 8, 4, 5, 6, 8, 8>>},
    HostTables <- {7, 8}, Inline <- 2, Buffer <- 2, MaxRef <- 2, MaxTables <- 5, MaxHeld <- 3, MaxDepth <- 2

\* A device below the root and one below it; regions of two spaces at each, one of them
\* made by a method
Reg == INSTANCE Opregion WITH Devices <- 1 .. 3, Root <- 1, Parent <- <<1, 1, 2>>,
    Regions <- 1 .. 3, At <- <<2, 3, 3>>, Space <- <<"ec", "ec", "mem">>, Temporary <- {1}, HasReg <- {1, 2},
    NeedReg <- {"ec"}, Defaults <- {"mem"}, MaxHandlers <- 3

\* Two names of two characters, the shorter one padded; up to four nodes besides the root
NameA == <<"A", "_">>
NameB == <<"B", "B">>
Str(root, ups, segs) == [root |-> root, ups |-> ups, segs |-> segs]
Tree == INSTANCE Names WITH Width <- 2, MaxNodes <- 4, MaxFrames <- 2, Predefined <- <<NameA>>,
    Created <- {Str(FALSE, 0, <<NameB>>), Str(FALSE, 0, <<NameA, NameB>>),
                Str(FALSE, 1, <<NameB>>)},
    Used <- {Str(r, u, x) : r \in {FALSE}, u \in 0 .. 2, x \in {<<>>, <<NameA>>, <<NameB>>, <<NameA, NameB>>}}
            \cup {Str(TRUE, 0, <<>>), Str(TRUE, 0, <<NameB>>), Str(TRUE, 0, <<NameA, NameB>>)}

\* Firmware that has to be switched or not, obeys or not; S5 in one number, S3 in two, missing or
\* mistyped; three devices, one below another
Board(legacy, smi, obeys, reduced, removes, s3, s5) ==
    [legacy |-> legacy, smi |-> smi, obeys |-> obeys, reduced |-> reduced, removes |-> removes,
     sx |-> 0 :> <<0, 0>> @@ 3 :> s3 @@ 5 :> s5]
MCFirmwares ==
    {Board(TRUE, TRUE, TRUE, FALSE, TRUE, <<1, 2>>, <<1285>>),
     Board(TRUE, TRUE, FALSE, FALSE, FALSE, <<-1>>, <<>>),
     Board(FALSE, FALSE, FALSE, TRUE, TRUE, <<5, -1>>, <<7, 6, 0>>),
     Board(FALSE, TRUE, TRUE, FALSE, TRUE, <<258>>, <<-1>>),
     Board(FALSE, TRUE, TRUE, FALSE, FALSE, <<3, 3>>, <<9, 1>>)}
MCStates == {3, 5}
MCParent == <<0, 1, 0>>

\* A loop, with a block in it that is left in every way, in a table or in a method; what it calls
\* returns, fails, does not end, or calls itself
Num(n) == [k |-> "num", v |-> n]
Var == [k |-> "local"]
Missing == [k |-> "name", v |-> 0]
CallWith(args) == [k |-> "call", v |-> 2, args |-> args]
Say(e) == [k |-> "print", e |-> e]
When(e, b, else, f) == [k |-> "if", e |-> e, b |-> b, else |-> else, f |-> f]
Loop(e, b) == [k |-> "while", e |-> e, b |-> b]
Within(v, b) == [k |-> "scope", v |-> v, b |-> b]
Yield(e) == [k |-> "return", e |-> e]
Do(e) == [k |-> "eval", e |-> e]
Plain(k) == [k |-> k]
Leaves == {<<Say(Num(1)), Plain("break"), Say(Num(2))>>, <<Plain("continue")>>, <<Yield(Num(1))>>,
           <<Do(CallWith(<<Num(2)>>)), Say(Var)>>, <<Within(12, <<Say(Num(3)), Plain("break")>>)>>,
           <<Within(0, <<Say(Num(3))>>), Say(Num(1))>>}
Conditions == {Num(0), Num(1), Var, Missing, Plain("bad"), CallWith(<<Num(0)>>), CallWith(<<Missing>>)}
Choices == {When(c, b, e, <<Say(Num(5)), Plain("continue")>>) : c \in Conditions, b \in Leaves, e \in BOOLEAN}
Callees == {<<>>, <<Yield([k |-> "arg"])>>, <<Say(Num(6)), Do(Missing)>>,
            <<Loop(Num(1), <<Say(Num(7))>>), Say(Num(8))>>,
            <<Do(CallWith(<<Num(1)>>)), Yield(Num(1))>>}
Failing == {<<Say(Num(6)), Do(Missing)>>}
Outer(c) == <<[k |-> "set", e |-> Num(2)],
              Loop(Var, <<Plain("dec"), c, Loop(Var, <<Say(Num(4)), When(Var, <<Plain("break")>>, FALSE, <<>>)>>)>>),
              Say(Var)>>
\* A method that calls itself from a loop and leaves the loop
Deep == <<When([k |-> "arg"], <<[k |-> "set", e |-> [k |-> "arg"]], Plain("dec"),
                                Loop(Num(1), <<Do(CallWith(<<Var>>)), Plain("break")>>), Say(Var)>>, FALSE, <<>>)>>
Units(main, callee, table) == [bodies |-> <<main, callee>>, nargs |-> <<0, 1>>, table |-> table]
Exec == INSTANCE Bytecode WITH MaxDepth <- FrameLimit, InlineFrames <- FrameSlots, Timeout <- 2, Width <- 16,
    Programs <- IF "code" \in Parts
                THEN {Units(Outer(c), m, FALSE) : c \in Choices, m \in Callees}
                     \cup {Units(Outer(c), m, TRUE) : c \in Choices, m \in Failing}
                     \cup {Units(<<Do(CallWith(<<Num(2)>>)), Say(Num(1))>>, Deep, FALSE)}
                ELSE {Units(<<Do(CallWith(<<Num(5)>>))>>, Deep, FALSE)}

\* Two threads, a table, two serialized methods and a mutex with a level between theirs
Sync == INSTANCE Serialized WITH Threads <- {"t", "u"}, Entries <- [t |-> {"table"}, u |-> {"low", "high"}], Tables <- {"table"}, Methods <- {"low", "high"},
    Mutexes <- {"mid"}, Level <- [low |-> 0, mid |-> 1, high |-> 2],
    MaxFrames <- 3, MaxRecursion <- 2

\* Fields at every offset and of every length in a region of three bytes, and beyond it; bytes of four
\* bits; and pairs of threads with fields that share units, banks or an index register
Source(n, p) == [b \in 0 .. (n - 1) |-> {i \in 0 .. 3 : p[((b * 4 + i) % Len(p)) + 1] = 1}]
Job(kind, op, bit, len, width, rule, lock, size) ==
    [kind |-> kind, op |-> op, bit |-> bit, len |-> len, width |-> width, rule |-> rule, lock |-> lock,
     size |-> size, src |-> Source(size, <<1, 1, 0, 1, 0>>), bank |-> 1]
Idle == [kind |-> "none"]
Alone == {[t |-> j, u |-> Idle] : j \in
    {Job("plain", "write", bit, len, width, rule, FALSE, size) :
        bit \in 0 .. 12, len \in 1 .. 9, width \in {1, 2}, rule \in {"preserve", "ones", "zeros"}, size \in {1, 4}}
    \cup {Job("plain", "read", bit, len, width, "preserve", FALSE, size) :
        bit \in 0 .. 12, len \in 1 .. 9, width \in {1, 2}, size \in {4}}
    \cup {j \in {Job("buffer", op, bit, len, 1, "preserve", FALSE, IF op = "read" THEN 0 ELSE size) :
                   op \in {"read", "write"}, bit \in 0 .. 11, len \in 1 .. 9, size \in {1, 3}} : j.bit + j.len <= 12}
    \cup {[Job("gas", op, 0, 1, 1, "preserve", FALSE, 4) EXCEPT !.kind = "gas"] @@
            ("gas" :> [addr |-> addr, off |-> off, width |-> width, size |-> size]) :
            op \in {"read", "write"}, addr \in 0 .. 4, off \in {0, 1, 4, 5, 8}, width \in {1, 4, 6, 8, 12, 16}, size \in 0 .. 4}}
Pairs == {p \in {[t |-> j, u |-> k] : j, k \in
    {[Job(kind, op, at[1], at[2], 1, "preserve", lock, 4) EXCEPT !.bank = bank] :
        kind \in {"plain", "bank", "index"}, op \in {"read", "write"}, at \in {<<0, 4>>, <<2, 7>>}, lock \in BOOLEAN,
        bank \in {0, 1}}} : p.t.kind = p.u.kind /\ p.t.bank = 1 /\ (p.u.kind # "bank" => p.u.bank = 1)}
Unit == INSTANCE Fields WITH W <- 4, Word <- 4, Scenes <- Alone \cup Pairs,
    Sizes <- [plain |-> 3, bank |-> 3, index |-> 3, buffer |-> 3, gas |-> 10],
    Patterns <- {<<1>>, <<1, 0, 0, 1, 0, 1, 1>>}

MCInit ==
    /\ part \in Parts
    /\ CASE part = "tables" -> Tab!Init
         [] part = "regions" -> Reg!Init
         [] part = "names" -> Tree!Init
         [] part = "life" -> LifeInit
         [] part = "mutexes" -> Sync!Init
         [] part = "fields" -> Unit!Init
         [] part \in {"code", "deep"} -> Exec!Init

MCNext ==
    /\ UNCHANGED part
    /\ \/ part = "tables" /\ Tab!Next
       \/ part = "regions" /\ Reg!Next
       \/ part = "names" /\ Tree!Next
       \/ part = "mutexes" /\ Sync!Next
       \/ part = "fields" /\ Unit!Next
       \/ part \in {"code", "deep"} /\ Exec!Next
       \/ LifeNext

MCSpec == MCInit /\ [][MCNext]_<<part, s>>

\* A table is mapped while it is referred to, and loaded once.
TablesKept == part = "tables" => Tab!MappedWhileUsed /\ Tab!MutexReleased /\ Tab!ExecutedOnce

\* An operation region is served by the nearest handler, which knows it.
RegionsServed == part = "regions" => Reg!HandlersKnowRegions /\ Reg!ServedByNearest

\* Names lead to their nodes, in text and in AML, the tree stays a tree, and a walk over
\* it that is not interrupted shows every node once.
NamesResolve == part = "names" => Tree!PathsLeadBack /\ Tree!TreeIsKept /\ Tree!WalkShowsAll

\* Code does what its structure says, however blocks and calls are left.
CodeIsFollowed == part = "code" => Exec!CodeMeansWhatItSays /\ Exec!CursorInBlock

\* Mutexes are given back on every way out of a method, exclude, and do not lock up.
MutexesGivenBack == part = "mutexes" => Sync!OwnedIsListed /\ Sync!SerializedAlone /\ Sync!NoCircularWait

\* Fields and registers are read and written exactly, also between the accesses of another thread.
FieldsExact == part = "fields" => Unit!WritesExact /\ Unit!ReadsExact /\ Unit!RegistersExact /\ Unit!SelectionHeld

\* Calls that move the frames leave no stale pointer behind that is used.
PointersRefreshed == part = "deep" => Exec!PointersRefreshed
=============================================================================
