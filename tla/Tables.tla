-------------------------------- MODULE Tables ------------------------------
(***************************************************************************)
(* The ACPI tables of uACPI (uacpi/tables.c), and the loading of AML tables   *)
(* (uacpi_namespace_load, Load and LoadTable in uacpi/interpreter.c).         *)
(*                                                                           *)
(* A firmware `fw' is a memory: fw.mem[a] is the table at address a, with     *)
(* its signature, whether its checksum is right and whether its length is too *)
(* short for a header; fw.rsdt lists addresses, fw.dsdt and fw.facs are the   *)
(* FADT's pointers (0 when absent).  maps[a] counts the mappings of a.  The    *)
(* ghost `held' counts the references that users of a table have taken and    *)
(* not given back; `wild' tells that a caller was answered OK without the     *)
(* table it asked for, whose use is not followed.                             *)
(***************************************************************************)
EXTENDS Naturals, FiniteSets, SequencesExt

CONSTANTS
    Firmwares, Policies, \* memories; what an installation handler puts in the place of
                         \* each table: itself, another, or none (0)
    HostTables,          \* addresses of tables that the host installs itself
    Inline, Buffer,      \* lengths of the static array and of the early buffer
    MaxRef,              \* 0xFFFF in the code
    MaxTables, MaxHeld, MaxDepth \* bounds: tables, references, tables executing

VARIABLE s

Init ==
    \E fw \in Firmwares, policy \in Policies, fatal, proactive \in BOOLEAN :
        s = [fw |-> fw, policy |-> policy, fatal |-> fatal, proactive |-> proactive,
             level |-> "early", early |-> FALSE, tabs |-> <<>>, maps |-> [a \in DOMAIN fw.mem |-> 0],
             held |-> <<>>, handler |-> FALSE, ret |-> "OK", out |-> 0, cur |-> 0, exec |-> <<>>,
             runs |-> <<>>, stuck |-> FALSE, wild |-> FALSE]

Fail(st, why) == [st EXCEPT !.ret = why, !.out = 0]
IsPhysical(t) == t.origin \in {"firmware", "host"}
ChecksumOk(st, a) == st.fw.mem[a].good \/ ~st.fatal

-----------------------------------------------------------------------------
(* References *)

\* The first reference maps a physical table and checks it.
BugRefTable(st, i) ==
    IF st.tabs[i].refs = 0 /\ st.tabs[i].invalid THEN Fail(st, "INVALID_ARGUMENT")
    ELSE [st EXCEPT !.tabs[i].refs = (@ + 1) % (MaxRef + 1), !.ret = "OK", !.out = i, !.held[i] = @ + 1,
             !.maps[st.tabs[i].addr] = @ + IF st.tabs[i].refs = 0 /\ IsPhysical(st.tabs[i]) THEN 1 ELSE 0]
RefTable(st, i) ==
    LET t == st.tabs[i]
        first == t.refs = 0 /\ IsPhysical(t)
    IN  IF t.refs = 0 /\ t.invalid THEN Fail(st, "INVALID_ARGUMENT")
        ELSE IF first /\ ~t.verified /\ ~ChecksumOk(st, t.addr)
        THEN Fail([st EXCEPT !.tabs[i].invalid = TRUE], "BAD_CHECKSUM")
        ELSE [st EXCEPT !.tabs[i].refs = IF @ = MaxRef THEN @ ELSE @ + 1,
                 !.tabs[i].verified = @ \/ first, !.maps[t.addr] = @ + IF first THEN 1 ELSE 0,
                 !.ret = "OK", !.out = i, !.held[i] = @ + 1]

\* The last one unmaps it; a saturated count stays.
UnrefTable(st, i) ==
    LET t == st.tabs[i] IN
    IF t.refs = 0 THEN Fail(st, "INVALID_ARGUMENT")
    ELSE [st EXCEPT !.tabs[i].refs = IF @ = MaxRef THEN @ ELSE @ - 1, !.ret = "OK", !.held[i] = @ - 1,
             !.maps[t.addr] = @ - IF t.refs = 1 /\ IsPhysical(t) THEN 1 ELSE 0]

\* table_ctl: an invalid table is refused, and the mutex is not released.
Control(st, i, request) ==
    CASE st.tabs[i].invalid -> [Fail(st, "INVALID_ARGUMENT") EXCEPT !.stuck = st.level = "on"]
      [] ~st.tabs[i].invalid /\ request = "load" /\ st.tabs[i].loaded -> Fail(st, "ALREADY_EXISTS")
      [] ~st.tabs[i].invalid /\ request = "put" -> UnrefTable(st, i)
      [] OTHER -> RefTable(st, i)

\* The first valid table of `matching' from `base' on; a bad checksum is passed over.
Search(st, base, matching) ==
    FoldLeft(LAMBDA x, i : IF x.ret = "NOT_FOUND" /\ i >= base /\ ~x.tabs[i].invalid /\ i \in matching
                           THEN LET y == RefTable(x, i)
                                IN  IF y.ret = "BAD_CHECKSUM" THEN [y EXCEPT !.ret = "NOT_FOUND"] ELSE y
                           ELSE x,
             Fail(st, "NOT_FOUND"), [i \in 1 .. Len(st.tabs) |-> i])

-----------------------------------------------------------------------------
(* Installation *)

Store(st, a, virt, origin, out) ==
    LET mem == st.fw.mem[a]
        check == mem.sig # "FACS" /\ (st.proactive \/ mem.sig = "FACP" \/ out)
    IN  IF check /\ ~ChecksumOk(st, a) THEN Fail(st, "BAD_CHECKSUM")
        ELSE IF st.early /\ Len(st.tabs) = Inline + Buffer THEN Fail(st, "OUT_OF_MEMORY")
        ELSE [st EXCEPT !.tabs = Append(@, [sig |-> mem.sig, addr |-> a, origin |-> origin, loaded |-> FALSE,
                                            invalid |-> FALSE, refs |-> IF out THEN 1 ELSE 0,
                                            verified |-> check \/ mem.sig = "FACS"]),
                 !.held = Append(@, IF out THEN 1 ELSE 0), !.runs = Append(@, 0),
                 !.ret = "OK", !.out = IF out THEN Len(st.tabs) + 1 ELSE 0]

RECURSIVE InstallPhysical(_, _, _, _, _)

\* The FADT brings the DSDT, which is installed before it.
InstallDsdt(st) ==
    IF st.fw.dsdt = 0 THEN st ELSE InstallPhysical(st, st.fw.dsdt, "firmware", FALSE, "DSDT")
VerifyAndInstall(st, a, virt, origin, out) ==
    IF st.fw.mem[a].sig = "FACP" /\ ChecksumOk(st, a)
    THEN LET st1 == InstallDsdt(st)
         IN  IF st1.ret # "OK" THEN st1 ELSE Store(st1, a, virt, origin, out)
    ELSE Store(st, a, virt, origin, out)

\* Installs a table by its physical address.  Whatever happens behind the mapping is
\* reported as success.
InstallPhysical(st, a, origin, out, expect) ==
    LET mem == st.fw.mem[a]
        mapped == st.handler \/ out
        up == IF mapped THEN [st EXCEPT !.maps[a] = @ + 1] ELSE st
        asked == origin = "firmware" /\ st.handler
        answer == IF asked THEN st.policy[a] ELSE a
        done == CASE answer = a -> VerifyAndInstall(up, a, mapped, origin, out)
                  [] answer = 0 -> Fail(up, "DENIED")
                  [] OTHER -> \* the override, mapped for as long as it is referenced
                       LET over == VerifyAndInstall([up EXCEPT !.maps[answer] = @ + 1], answer, TRUE, "host", out)
                       IN  [over EXCEPT !.maps[answer] = @ - (IF over.ret = "OK" /\ out THEN 0 ELSE 1),
                                        !.ret = "OVERRIDDEN"]
    IN  IF mem.short THEN Fail(st, "INVALID_TABLE_LENGTH")
        ELSE IF expect # mem.sig /\ expect # "any" /\ st.fatal THEN Fail(st, "INVALID_SIGNATURE")
        ELSE IF done.ret = "OK" /\ out THEN done
        ELSE [done EXCEPT !.maps[a] = @ - IF mapped THEN 1 ELSE 0, !.ret = "OK",
                 !.wild = @ \/ (out /\ done.out = 0)]

\* A table in the kernel's memory: AML's Load brings one of the firmware's
InstallVirtual(st, a, origin, out) ==
    IF st.fw.mem[a].short THEN Fail(st, "INVALID_TABLE_LENGTH")
    ELSE IF origin = "load" /\ st.handler /\ st.policy[a] = 0 THEN Fail(st, "DENIED")
    ELSE IF origin = "load" /\ st.handler /\ st.policy[a] # a
    THEN LET over == InstallPhysical(st, st.policy[a], "host", out, "any")
         IN  IF over.ret = "OK" THEN [over EXCEPT !.ret = "OVERRIDDEN"] ELSE over
    ELSE VerifyAndInstall(st, a, TRUE, origin, out)

-----------------------------------------------------------------------------
(* The subsystem's life *)

\* All entries of the RSDT or XSDT, until one has an impossible length
FromRxsdt(st) ==
    FoldLeft(LAMBDA x, a : IF x.ret = "OK" /\ a # 0 THEN InstallPhysical(x, a, "firmware", FALSE, "any") ELSE x,
             [st EXCEPT !.ret = "OK"], st.fw.rsdt)

Deinitialize(st) ==
    [st EXCEPT !.maps = [a \in DOMAIN @ |-> @[a] - Cardinality({i \in DOMAIN st.tabs :
                            /\ IsPhysical(st.tabs[i]) /\ st.tabs[i].refs # 0 /\ st.tabs[i].addr = a})],
        !.tabs = <<>>, !.held = <<>>, !.runs = <<>>, !.early = FALSE, !.handler = FALSE]

Idle == s.exec = <<>> /\ ~s.stuck /\ ~s.wild
Quiet(st) == [st EXCEPT !.ret = "OK", !.out = 0]

uacpi_set_table_installation_handler ==
    /\ Idle /\ s.level = "early" /\ ~s.early
    /\ \E handler \in BOOLEAN :
           s' = IF s.handler /\ handler THEN s ELSE [s EXCEPT !.handler = handler]

uacpi_setup_early_table_access ==
    /\ Idle /\ s.level = "early" /\ ~s.early
    /\ LET st == FromRxsdt([s EXCEPT !.early = TRUE])
       IN  s' = Quiet(IF st.ret # "OK" THEN Deinitialize(st) ELSE st)

\* The FACS is mapped for good; then namespace_load looks for AML from index 1 on.
uacpi_initialize_tables ==
    /\ Idle /\ s.level = "early"
    /\ LET st == IF s.early THEN [s EXCEPT !.early = FALSE, !.ret = "OK"] ELSE FromRxsdt(s)
           up == IF st.fw.facs = 0 THEN st ELSE InstallPhysical(st, st.fw.facs, "firmware", TRUE, "FACS")
       IN  s' = IF st.ret # "OK" THEN [Quiet(Deinitialize(st)) EXCEPT !.level = "off"]
                ELSE IF up.ret # "OK" THEN [Quiet(Deinitialize(up)) EXCEPT !.level = "off"]
                ELSE [Quiet(up) EXCEPT !.level = "on"]

uacpi_deinitialize_tables ==
    /\ Idle /\ s.level = "on" /\ s.cur = 0
    /\ s' = [Quiet(Deinitialize(s)) EXCEPT !.level = "off"]

-----------------------------------------------------------------------------
(* Loading *)

\* uacpi_table_load_with_cause, up to the execution; namespace_load holds a reference of
\* its own meanwhile.
BeginLoad(st, i, how) ==
    LET got == Control(st, i, "load")
    IN  IF got.ret # "OK" THEN got
        ELSE [got EXCEPT !.tabs[i].loaded = TRUE, !.exec = Append(@, <<i, how>>), !.runs[i] = @ + 1]

MatchAml == {i \in DOMAIN s.tabs : ~s.tabs[i].loaded /\ s.tabs[i].sig = "SSDT"}
Signed(sig) == {i \in DOMAIN s.tabs : s.tabs[i].sig = sig}

\* The DSDT first, then every SSDT or PSDT that nothing has loaded.
uacpi_namespace_load ==
    /\ Idle /\ s.level = "on" /\ s.cur <= Len(s.tabs)
    /\ LET found == IF s.cur = 0 THEN Search(s, 1, Signed("DSDT")) ELSE Search(s, s.cur, MatchAml)
           i == found.out
           go == BeginLoad(found, i, "init")
       IN  s' = IF found.ret # "OK"
                THEN IF s.cur = 0 THEN [Quiet(Deinitialize(found)) EXCEPT !.level = "off"]
                     ELSE [Quiet(found) EXCEPT !.cur = MaxTables + 1]
                ELSE IF go.ret # "OK"
                THEN [Quiet(UnrefTable(go, i)) EXCEPT !.cur = IF s.cur = 0 THEN 1 ELSE i + 1]
                ELSE [Quiet(go) EXCEPT !.cur = IF s.cur = 0 THEN 1 ELSE i + 1]

uacpi_table_load(i) ==
    /\ Idle /\ s.level = "on" /\ s.cur > MaxTables /\ i \in DOMAIN s.tabs /\ s.held[i] > 0
    /\ s' = Quiet(BeginLoad(s, i, "host"))

\* AML runs in the table on top of the stack: Load copies a table and runs it.
handle_load(a) ==
    /\ s.exec # <<>> /\ Len(s.exec) < MaxDepth /\ Len(s.tabs) < MaxTables /\ ~s.stuck /\ ~s.wild
    /\ LET st == InstallVirtual(s, a, "load", TRUE)
       IN  s' = IF st.ret \in {"OK", "OVERRIDDEN"} /\ ~st.wild
                THEN [Quiet(st) EXCEPT !.tabs[st.out].loaded = TRUE, !.exec = Append(@, <<st.out, "load">>),
                         !.runs[st.out] = @ + 1]
                ELSE Quiet(st)

\* LoadTable runs an installed table, whether or not it has been loaded.
handle_load_table ==
    /\ s.exec # <<>> /\ Len(s.exec) < MaxDepth /\ ~s.stuck /\ ~s.wild
    /\ LET st == Search(s, 1, Signed("SSDT"))
       IN  s' = IF st.ret # "OK" THEN Quiet(st)
                ELSE [Quiet(st) EXCEPT !.tabs[st.out].loaded = TRUE, !.exec = Append(@, <<st.out, "table">>)]

\* A table has been executed, with success or without; its references are given back.
EndLoad ==
    /\ s.exec # <<>> /\ ~s.stuck /\ ~s.wild
    /\ LET top == Last(s.exec)
           st == [s EXCEPT !.exec = Front(@)]
           put == Control(st, top[1], "put")
       IN  s' = Quiet(CASE top[2] = "load" -> st
                        [] top[2] = "init" -> Control(put, top[1], "put")
                        [] OTHER -> put)

-----------------------------------------------------------------------------
(* The host's calls *)

Online == Idle /\ (s.level = "on" \/ s.early)

Own == {i \in DOMAIN s.tabs : ~(s.tabs[i].origin = "firmware")}
MayHold == FoldLeft(LAMBDA x, y : x + y, 0, s.held) < MaxHeld

uacpi_table_find(sig) == Online /\ MayHold /\ s' = Quiet(Search(s, 1, Signed(sig)))

uacpi_table_find_next_with_same_signature(i) ==
    /\ Online /\ i \in DOMAIN s.tabs /\ s.held[i] > 0 /\ s.tabs[i].sig = "SSDT"
    /\ LET put == Control(s, i, "put")
       IN  s' = Quiet(Search(put, i + 1, Signed(s.tabs[i].sig)))

\* Users refer to a table by an index they got, also to give back what they hold.
uacpi_table_ref(i) == /\ Online /\ i \in DOMAIN s.tabs /\ s.held[i] > 0 /\ MayHold
                      /\ s' = Quiet(Control(s, i, "ref"))
uacpi_table_unref(i) == /\ Online /\ i \in DOMAIN s.tabs /\ s.held[i] > 0 /\ s.tabs[i].sig # "FACS"
                        /\ s' = Quiet(Control(s, i, "put"))

uacpi_table_install(a) ==
    /\ Online /\ Own = {} /\ Len(s.tabs) < MaxTables /\ MayHold
    /\ \E out, physical \in BOOLEAN :
           s' = Quiet(IF physical THEN InstallPhysical(s, a, "host", out, "any") ELSE InstallVirtual(s, a, "virtual", out))

Next ==
    \/ uacpi_set_table_installation_handler \/ uacpi_setup_early_table_access
    \/ uacpi_initialize_tables \/ uacpi_deinitialize_tables
    \/ uacpi_namespace_load \/ EndLoad \/ handle_load_table
    \/ \E a \in HostTables : handle_load(a) \/ uacpi_table_install(a)
    \/ uacpi_table_find("SSDT")
    \/ \E i \in 1 .. MaxTables :
           \/ uacpi_table_load(i) \/ uacpi_table_find_next_with_same_signature(i)
           \/ uacpi_table_ref(i) \/ uacpi_table_unref(i)

Spec == Init /\ [][Next]_s

-----------------------------------------------------------------------------
(* Properties *)

\* A table is mapped once while anyone refers to it and not at all otherwise, through
\* overrides, failures, the count that saturates and the end of the subsystem.
MappedWhileUsed ==
    /\ \A a \in DOMAIN s.maps :
           s.maps[a] = Cardinality({i \in DOMAIN s.tabs :
                           s.tabs[i].addr = a /\ IsPhysical(s.tabs[i]) /\ s.tabs[i].refs > 0})
    /\ \A i \in DOMAIN s.tabs : s.tabs[i].refs \in {s.held[i], MaxRef}

\* Once the host can load tables, every AML table has been executed, and outside
\* LoadTable none twice, whatever AML loads meanwhile.
ExecutedOnce ==
    /\ \A i \in DOMAIN s.tabs : s.runs[i] <= 1
    /\ s.cur > MaxTables /\ ~s.stuck =>
           \A i \in MatchAml : s.tabs[i].origin = "firmware" => s.tabs[i].invalid

\* table_ctl returns with table_mutex held behind a table marked invalid; no index
\* that the subsystem gives out leads there.
MutexReleased == ~s.stuck
=============================================================================
