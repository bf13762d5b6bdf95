------------------------------- MODULE Opregion -----------------------------
(***************************************************************************)
(* Address space handlers and operation regions (uacpi/opregion.c), with the  *)
(* handlers uACPI brings (uacpi/default_handlers.c).                          *)
(*                                                                           *)
(* All of it happens under the opregion lock, which a thread holds through    *)
(* the callbacks that drop the namespace lock; so an operation is one step.   *)
(* Devices form a tree, and a region lies in one of them.  A handler is a      *)
(* record: the device and space it serves, its list of regions, and its       *)
(* reference count.  `opener' is a ghost: the handler that has a context open  *)
(* for a region, 0 when none has.                                             *)
(***************************************************************************)
EXTENDS Naturals, FiniteSets, SequencesExt

CONSTANTS
    Devices, Root, Parent,     \* Parent[d] for every device but the root
    Regions, At, Space,        \* a region's device and address space
    Temporary, HasReg,         \* regions of a method; regions with a _REG beside them
    NeedReg, Defaults,         \* spaces with _REG; spaces uACPI serves itself
    MaxHandlers

VARIABLE s

Ids == 1 .. MaxHandlers
Spaces == NeedReg \cup Defaults
NoHandler == [dev |-> Root, space |-> "none", regions |-> <<>>, refs |-> 0]

Above[d \in Devices] == {d} \cup (IF d = Root THEN {} ELSE Above[Parent[d]])

find_handler(st, d, space) ==
    LET found == {h \in Range(st.lists[d]) : st.hs[h].space = space}
    IN  IF found = {} THEN 0 ELSE CHOOSE h \in found : TRUE

-----------------------------------------------------------------------------
(* Regions and their handlers *)

\* _REG, where there is one; the flag remembers that it was told of a connection.
run_reg(st, r, connect) == [st EXCEPT !.regs[r].regged = connect /\ r \in HasReg]

BugUnrefHandler(st, h) == [st EXCEPT !.hs[h] = IF @.refs <= 2 THEN NoHandler ELSE [@ EXCEPT !.refs = @ - 1]]
UnrefHandler(st, h) == [st EXCEPT !.hs[h] = IF @.refs = 1 THEN NoHandler ELSE [@ EXCEPT !.refs = @ - 1]]

region_install_handler(st, r, h) ==
    [st EXCEPT !.regs[r].handler = h, !.hs[h].refs = @ + 1, !.hs[h].regions = <<r>> \o @]

region_uninstall_handler(st, r, unreg) ==
    LET h == st.regs[r].handler
        out == [st EXCEPT !.hs[h].regions = SelectSeq(@, LAMBDA x : x # r),
                          !.opener[r] = IF st.regs[r].attached THEN 0 ELSE @]
        told == IF out.regs[r].regged /\ unreg THEN run_reg(out, r, FALSE) ELSE out
    IN  IF h = 0 THEN st
        ELSE [UnrefHandler(told, h) EXCEPT !.regs[r].handler = 0, !.regs[r].attached = FALSE]

\* The walk below a device passes over devices with a handler of their own.
Visited(st, d, space, permanent) ==
    {r \in Regions :
        /\ st.regs[r].there /\ Space[r] = space /\ d \in Above[At[r]]
        /\ permanent => r \notin Temporary
        /\ \A e \in Above[At[r]] \ Above[d] : find_handler(st, e, space) = 0}

ForEach(st, rs, Do(_, _)) == FoldLeft(Do, st, SetToSeq(rs))

\* _REG walks do not stop at other devices' handlers.
reg_or_unreg_all_opregions(st, d, space, connect) ==
    ForEach(st, {r \in Regions :
                    /\ st.regs[r].there /\ Space[r] = space /\ d \in Above[At[r]]
                    /\ connect => r \notin Temporary
                    /\ st.regs[r].regged # connect},
            LAMBDA x, r : run_reg(x, r, connect))

-----------------------------------------------------------------------------
(* The calls *)

Free == {h \in Ids : s.hs[h].refs = 0}

AddHandler(st, d, space, h) ==
    [st EXCEPT !.hs[h] = [dev |-> d, space |-> space, regions |-> <<>>, refs |-> 1],
               !.lists[d] = <<h>> \o @]

\* A handler takes over the permanent regions below its device.
uacpi_install_address_space_handler(d, space) ==
    /\ Free # {} /\ find_handler(s, d, space) = 0
    /\ LET h == CHOOSE x \in Free : \A y \in Free : x <= y
           visited == Visited(s, d, space, TRUE)
           bound == ForEach(AddHandler(s, d, space, h), visited,
                            LAMBDA x, r : region_install_handler(region_uninstall_handler(x, r, FALSE), r, h))
       IN  s' = IF space \in NeedReg /\ s.level = "loaded"
                THEN reg_or_unreg_all_opregions(bound, d, space, TRUE) ELSE bound

\* Only the handler at the head of its device's list has its regions told.
uacpi_uninstall_address_space_handler(d, space) ==
    LET h == find_handler(s, d, space)
        mine == {r \in Visited([s EXCEPT !.lists[d] = <<>>], d, space, FALSE) : s.regs[r].handler = h}
        unbound == ForEach(s, mine, LAMBDA x, r : region_uninstall_handler(x, r, FALSE))
        unlisted == [unbound EXCEPT !.lists[d] = SelectSeq(@, LAMBDA x : x # h)]
        told == IF space \in NeedReg /\ Head(s.lists[d]) = h
                THEN reg_or_unreg_all_opregions(unlisted, d, space, FALSE) ELSE unlisted
    IN  h # 0 /\ s' = UnrefHandler(told, h)

\* A region is created and finds the nearest handler; then its node is installed.
Serving(st, r) ==
    LET having == {d \in Above[At[r]] : find_handler(st, d, Space[r]) # 0}
    IN  IF having = {} THEN 0
        ELSE find_handler(st, CHOOSE d \in having : \A e \in having : e \in Above[d], Space[r])

uacpi_initialize_opregion_node(r) ==
    /\ ~s.regs[r].there
    /\ LET there == [s EXCEPT !.regs[r].there = TRUE]
           h == Serving(s, r)
           bound == region_install_handler(there, r, h)
       IN  s' = IF h = 0 THEN there
                ELSE IF Space[r] \in NeedReg /\ s.level = "loaded" THEN run_reg(bound, r, TRUE) ELSE bound

\* The method that made the region returns, or CopyObject replaces it.
uacpi_opregion_uninstall_handler(r) ==
    /\ s.regs[r].there
    /\ s' = [region_uninstall_handler(s, r, TRUE) EXCEPT !.regs[r].there = FALSE, !.regs[r].regged = FALSE]

\* The handler's ATTACH: memory and I/O handlers allocate a context and map, the PCI one
\* opens the device; each can fail.  DETACH gives the context back.
uacpi_opregion_attach(st, r, ok) ==
    IF st.regs[r].attached \/ ~ok THEN st
    ELSE [st EXCEPT !.regs[r].attached = TRUE, !.opener[r] = st.regs[r].handler]

\* A field is read or written: the region is attached first; there may be no handler.
uacpi_dispatch_opregion_io(r) ==
    /\ s.regs[r].there /\ s.regs[r].handler # 0
    /\ \E ok \in BOOLEAN : s' = uacpi_opregion_attach(s, r, ok)

uacpi_reg_all_opregions(d, space) ==
    /\ s.level = "loaded" /\ space \in NeedReg /\ find_handler(s, d, space) # 0
    /\ s' = reg_or_unreg_all_opregions(s, d, space, TRUE)

\* When the namespace is loaded, the default handlers' regions are told.
uacpi_namespace_initialize ==
    /\ s.level = "loading"
    /\ s' = ForEach([s EXCEPT !.level = "loaded"], {h \in Range(s.lists[Root]) : s.hs[h].space \in Defaults \cap NeedReg},
                    LAMBDA x, h : reg_or_unreg_all_opregions(x, Root, x.hs[h].space, TRUE))

Empty ==
    [level |-> "loading", hs |-> [h \in Ids |-> NoHandler], lists |-> [d \in Devices |-> <<>>],
     regs |-> [r \in Regions |-> [there |-> FALSE, handler |-> 0, attached |-> FALSE, regged |-> FALSE]],
     opener |-> [r \in Regions |-> 0]]

\* uACPI installs its own handlers before any region exists.
uacpi_install_default_address_space_handlers ==
    FoldLeft(LAMBDA st, space : AddHandler(st, Root, space, Cardinality({h \in Ids : st.hs[h].refs > 0}) + 1),
             Empty, SetToSeq(Defaults))

Init == s = uacpi_install_default_address_space_handlers

Next ==
    \/ uacpi_namespace_initialize
    \/ \E d \in Devices, space \in Spaces :
           \/ uacpi_install_address_space_handler(d, space)
           \/ uacpi_uninstall_address_space_handler(d, space)
           \/ uacpi_reg_all_opregions(d, space)
    \/ \E r \in Regions :
           \/ uacpi_initialize_opregion_node(r) \/ uacpi_opregion_uninstall_handler(r)
           \/ uacpi_dispatch_opregion_io(r)

Spec == Init /\ [][Next]_s

-----------------------------------------------------------------------------
(* Properties *)

\* Regions and handlers know each other: a region is once in the list of its handler and in
\* no other, a handler lives while its device or a region refers to it, and a context
\* is open exactly while the region is attached, with the handler that opened it.
HandlersKnowRegions ==
    /\ \A h \in Ids :
           /\ IsInjective(s.hs[h].regions)
           /\ Range(s.hs[h].regions) = {r \in Regions : s.regs[r].handler = h}
           /\ s.hs[h].refs = Len(s.hs[h].regions) + Cardinality({d \in Devices : h \in Range(s.lists[d])})
    /\ \A r \in Regions :
           s.opener[r] = IF s.regs[r].attached THEN s.regs[r].handler ELSE 0

\* A permanent region is served by the nearest handler above it or by none, and by none
\* only after a nearer one was uninstalled; never by a handler that was uninstalled.
ServedByNearest ==
    \A r \in Regions \ Temporary :
        s.regs[r].there /\ s.regs[r].handler # 0 => s.regs[r].handler = Serving(s, r)
=============================================================================
