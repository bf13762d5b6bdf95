--------------------------------- MODULE Names ------------------------------
(***************************************************************************)
(* The namespace of uACPI (uacpi/namespace.c) and the names of AML            *)
(* (name_string_to_path and resolve_name_string in uacpi/interpreter.c).      *)
(*                                                                           *)
(* nodes[n] is a node: `kids' is its list of children, `place' is "free",      *)
(* "pending" (made by a definition that is still being evaluated), "in" (the   *)
(* tree) or "out" (uninstalled).  `frames' is the stack of methods and        *)
(* tables that execute.  A thread of the host walks the tree, and drops the   *)
(* lock in its callback.  A text is a sequence of characters; a name has      *)
(* Width of them, 4 in the code.  The namespace begins with predefined nodes. *)
(***************************************************************************)
EXTENDS Naturals, FiniteSets, SequencesExt

CONSTANTS
    Width, MaxNodes, MaxFrames,
    Predefined,     \* names that exist from the start
    Created,        \* name strings with which AML makes objects
    Used            \* name strings and texts with which it refers to them

VARIABLE s

Root == 1
Ids == 1 .. MaxNodes
NoNode == [name |-> <<>>, parent |-> 0, kids |-> <<>>, temp |-> FALSE, place |-> "free"]

\* A name string of AML: whether it begins with a root character, how many parent prefixes
\* it has, and its segments (none in a null name).
NameString(root, ups, segs) == [root |-> root, ups |-> ups, segs |-> segs]

-----------------------------------------------------------------------------
(* The tree *)

find_sub_node(nodes, parent, name) ==
    LET same == {i \in DOMAIN nodes[parent].kids : nodes[nodes[parent].kids[i]].name = name}
    IN  IF same = {} THEN 0 ELSE nodes[parent].kids[CHOOSE i \in same : \A j \in same : i <= j]

node_install(nodes, n) ==
    [nodes EXCEPT ![nodes[n].parent].kids = Append(@, n), ![n].place = "in"]

\* A node with children stays.
node_uninstall(nodes, n) ==
    IF nodes[n].place = "out" \/ nodes[n].kids # <<>> THEN nodes
    ELSE [nodes EXCEPT ![nodes[n].parent].kids = SelectSeq(@, LAMBDA k : k # n), ![n].place = "out"]

RECURSIVE AncestorsOf(_, _)
AncestorsOf(nodes, n) == IF n = Root THEN <<Root>> ELSE <<n>> \o AncestorsOf(nodes, nodes[n].parent)

\* The subtrees are wiped bottom up, with one cursor and no stack.
RECURSIVE Wipe(_, _, _, _)
Wipe(nodes, current, prev, depth) ==
    LET kids == nodes[current].kids
        after == IF prev = 0 THEN 1 ELSE 1 + CHOOSE i \in DOMAIN kids : kids[i] = prev
        wiped == FoldLeft(node_uninstall, nodes, kids)
    IN  IF depth = 0 THEN nodes
        ELSE IF after > Len(kids)
        THEN IF depth = 1 THEN wiped ELSE Wipe(wiped, nodes[current].parent, current, depth - 1)
        ELSE IF nodes[kids[after]].kids # <<>> THEN Wipe(nodes, kids[after], 0, depth + 1)
        ELSE Wipe(nodes, current, kids[after], depth)

-----------------------------------------------------------------------------
(* Texts *)

segment_to_name(text) ==
    LET dots == {i \in DOMAIN text : text[i] = "."}
        end == IF dots = {} THEN Len(text) ELSE (CHOOSE i \in dots : \A j \in dots : i <= j) - 1
        len == IF end < Width THEN end ELSE Width
    IN  [name |-> [i \in 1 .. Width |-> IF i <= len THEN text[i] ELSE "_"],
         rest |-> SubSeq(text, len + 1, Len(text))]

RECURSIVE SkipPrefixes(_, _, _)
SkipPrefixes(nodes, at, text) ==
    IF text = <<>> \/ Head(text) \notin {"\\", "^"} THEN [at |-> at, rest |-> text]
    ELSE IF Head(text) = "\\" THEN [at |-> Root, rest |-> Tail(text)]
    ELSE IF at = Root THEN [at |-> 0, rest |-> text]
    ELSE IF Len(text) > 1 /\ text[2] = "\\" THEN [at |-> 0, rest |-> text]
    ELSE SkipPrefixes(nodes, nodes[at].parent, Tail(text))

RECURSIVE Segments(_, _, _)
Segments(nodes, at, text) ==
    LET seg == segment_to_name(IF Head(text) = "." THEN Tail(text) ELSE text)
    IN  IF text = <<>> \/ at = 0 THEN at
        ELSE Segments(nodes, find_sub_node(nodes, at, seg.name), seg.rest)

\* The first of these nodes with a child of the name
Nearest(nodes, chain, name) ==
    LET having == {i \in DOMAIN chain : find_sub_node(nodes, chain[i], name) # 0}
    IN  IF having = {} THEN 0
        ELSE find_sub_node(nodes, chain[CHOOSE i \in having : \A j \in having : i <= j], name)

\* uacpi_namespace_node_resolve: 0 stands for an error.
BugResolve(nodes, scope, text, above) ==
    LET pre == SkipPrefixes(nodes, scope, text)
    IN  IF pre.at = 0 THEN 0
        ELSE IF above /\ Segments(nodes, pre.at, pre.rest) = 0
        THEN Nearest(nodes, Tail(AncestorsOf(nodes, scope)), segment_to_name(pre.rest).name)
        ELSE Segments(nodes, pre.at, pre.rest)
Resolve(nodes, scope, text, above) ==
    LET pre == SkipPrefixes(nodes, scope, text)
        seg == segment_to_name(text)
        single == pre.rest = text /\ text # <<>> /\ seg.rest = <<>>
        found == Segments(nodes, pre.at, pre.rest)
    IN  IF pre.at = 0 THEN 0
        ELSE IF found = 0 /\ above /\ single THEN Nearest(nodes, Tail(AncestorsOf(nodes, scope)), seg.name)
        ELSE found

Join(segs) == FoldLeft(LAMBDA text, seg : IF text = <<>> THEN seg ELSE text \o <<".">> \o seg, <<>>, segs)

generate_absolute_path(nodes, n) ==
    <<"\\">> \o Join(Reverse([i \in 1 .. Len(AncestorsOf(nodes, n)) - 1 |-> nodes[AncestorsOf(nodes, n)[i]].name]))

\* Elements of packages are kept as texts, and resolved when they are used.
name_string_to_path(str) ==
    (IF str.root THEN <<"\\">> ELSE [i \in 1 .. str.ups |-> "^"]) \o Join(str.segs)

-----------------------------------------------------------------------------
(* Name strings *)

\* The node that prefixes lead to; 0 behind the root
Base(nodes, scope, str) ==
    LET chain == AncestorsOf(nodes, scope)
    IN  IF str.root THEN Root ELSE IF str.ups < Len(chain) THEN chain[str.ups + 1] ELSE 0

Walk(nodes, at, segs) == FoldLeft(LAMBDA x, seg : IF x = 0 THEN 0 ELSE find_sub_node(nodes, x, seg), at, segs)

\* RESOLVE_FAIL_IF_DOESNT_EXIST: one segment alone is looked for in the scopes around.
resolve_name_string(nodes, scope, str) ==
    IF Base(nodes, scope, str) = 0 \/ (str.segs = <<>> /\ ~str.root /\ str.ups = 0) THEN 0
    ELSE IF Len(str.segs) = 1 /\ ~str.root /\ str.ups = 0
    THEN Nearest(nodes, AncestorsOf(nodes, scope), str.segs[1])
    ELSE Walk(nodes, Base(nodes, scope, str), str.segs)

\* RESOLVE_CREATE_LAST_NAMESEG_FAIL_IF_EXISTS: the node that becomes the parent
ParentOfNew(nodes, scope, str) ==
    LET base == Base(nodes, scope, str)
        parent == IF base = 0 \/ str.segs = <<>> THEN 0 ELSE Walk(nodes, base, Front(str.segs))
    IN  IF parent = 0 THEN 0
        ELSE IF find_sub_node(nodes, parent, Last(str.segs)) # 0 THEN 0 ELSE parent

-----------------------------------------------------------------------------
(* AML *)

Init ==
    LET n == Len(Predefined)
        nodes == [i \in Ids |-> IF i = Root THEN [NoNode EXCEPT !.place = "in", !.kids = [k \in 1 .. n |-> k + 1]]
                                ELSE IF i <= n + 1
                                THEN [NoNode EXCEPT !.place = "in", !.parent = Root, !.name = Predefined[i - 1]]
                                ELSE NoNode]
    IN  s = [nodes |-> nodes, frames |-> <<>>, on |-> TRUE, null |-> FALSE,
             walk |-> [at |-> 0, up |-> FALSE, locked |-> FALSE, depth |-> 0, down |-> <<>>, back |-> <<>>,
                       cut |-> {}, old |-> {}, begun |-> FALSE]]

Frame(scope, persist) == [scope |-> scope, persist |-> persist, temps |-> <<>>, pending |-> 0]

\* The interpreter holds the write lock, so the walker is in its callback or not walking.
MayWrite == s.on /\ ~s.null /\ ~s.walk.locked

\* A table is loaded or a method called; a method's objects are temporary.
Enter(scope, persist) ==
    /\ MayWrite /\ Len(s.frames) < MaxFrames /\ s.nodes[scope].place = "in"
    /\ s' = [s EXCEPT !.frames = Append(@, Frame(scope, persist))]

Top == Last(s.frames)

\* A definition resolves its name before it evaluates what is defined ...
Define(str) ==
    /\ MayWrite /\ s.frames # <<>>
    /\ LET parent == ParentOfNew(s.nodes, Top.scope, str)
           fresh == {n \in Ids : s.nodes[n].place = "free"}
           n == CHOOSE x \in fresh : \A y \in fresh : x <= y
       IN  /\ Top.pending = 0 /\ fresh # {} /\ parent # 0
           /\ s' = [s EXCEPT !.nodes[n] = [NoNode EXCEPT !.name = Last(str.segs), !.parent = parent,
                                                         !.temp = ~Top.persist, !.place = "pending"],
                             !.frames[Len(s.frames)].pending = n]

\* If the name is taken a table goes on with its next definition; in a method the flag of a
\* temporary node is set through the null pointer that stands for the node, and what
\* follows is not modelled.
DefineTaken(str) ==
    /\ MayWrite /\ s.frames # <<>> /\ ~Top.persist
    /\ Top.pending = 0 /\ ParentOfNew(s.nodes, Top.scope, str) = 0
    /\ s' = [s EXCEPT !.null = TRUE]

\* ... and installs the node when that is done.
do_install_node_item ==
    /\ MayWrite /\ s.frames # <<>>
    /\ Top.pending # 0
    /\ s' = [s EXCEPT !.nodes = node_install(@, Top.pending),
                      !.frames[Len(s.frames)].pending = 0,
                      !.frames[Len(s.frames)].temps = IF Top.persist THEN @ ELSE Append(@, Top.pending)]

\* The frame ends, after a return or an error: its temporary nodes go, the last first.
Clear(nodes, frame) == FoldLeft(node_uninstall, nodes, Reverse(frame.temps))

call_frame_clear ==
    /\ MayWrite /\ s.frames # <<>>
    /\ LET nodes == Clear(s.nodes, Top)
       IN  s' = [s EXCEPT !.frames = Front(@),
                          !.nodes = IF Top.pending = 0 THEN nodes ELSE [nodes EXCEPT ![Top.pending] = NoNode]]

uacpi_deinitialize_namespace ==
    /\ MayWrite /\ s.frames = <<>> /\ s.walk.at = 0
    /\ s' = [s EXCEPT !.nodes = Wipe(@, Root, 0, 1), !.on = FALSE]

-----------------------------------------------------------------------------
(* A walk with both callbacks, over permanent nodes *)

Permanent(nodes) == {n \in Ids : nodes[n].place = "in" /\ n # Root /\
                                 \A a \in Range(AncestorsOf(nodes, n)) : ~nodes[a].temp}

BeginWalk ==
    /\ MayWrite /\ ~s.walk.begun
    /\ s' = [s EXCEPT !.walk = [at |-> IF s.nodes[Root].kids = <<>> THEN 0 ELSE Head(s.nodes[Root].kids),
                                up |-> FALSE, locked |-> s.nodes[Root].kids # <<>>, depth |-> 1,
                                down |-> <<>>, back |-> <<>>, cut |-> {}, old |-> Permanent(s.nodes), begun |-> TRUE]]

\* From the node where the walk is to the next, with the callback's decision
Advance(w, nodes, decision) ==
    LET kids == nodes[nodes[w.at].parent].kids
        i == CHOOSE k \in DOMAIN kids : kids[k] = w.at
    IN  IF w.up
        THEN IF i < Len(kids) THEN [w EXCEPT !.at = kids[i + 1], !.up = FALSE]
             ELSE IF w.depth = 1 THEN [w EXCEPT !.depth = 0, !.at = 0]
             ELSE [w EXCEPT !.depth = @ - 1, !.at = nodes[w.at].parent]
        ELSE IF decision = "continue" /\ nodes[w.at].kids # <<>>
        THEN [w EXCEPT !.at = Head(nodes[w.at].kids), !.depth = @ + 1]
        ELSE [w EXCEPT !.up = TRUE]

\* One round of the loop: temporary nodes are passed over, others are shown without the lock.
Visit ==
    /\ s.walk.at # 0 /\ s.walk.locked
    /\ LET w == s.walk
           next == Advance(w, s.nodes, "peer")
       IN  s' = [s EXCEPT !.walk =
                    IF s.nodes[w.at].temp THEN [next EXCEPT !.locked = next.at # 0]
                    ELSE [w EXCEPT !.locked = FALSE, !.down = IF w.up THEN @ ELSE Append(@, w.at),
                                   !.back = IF w.up THEN Append(@, w.at) ELSE @]]

\* The callback returns; BREAK ends the walk, with the lock released.
Decide(decision) ==
    /\ s.walk.at # 0 /\ ~s.walk.locked
    /\ LET next == Advance(s.walk, s.nodes, decision)
       IN  s' = [s EXCEPT !.walk =
                    IF decision = "break" THEN [@ EXCEPT !.at = 0]
                    ELSE [next EXCEPT !.locked = next.at # 0,
                             !.cut = IF decision = "peer" /\ ~s.walk.up THEN @ \cup {s.walk.at} ELSE @]]

Next ==
    \/ \E scope \in Ids, persist \in BOOLEAN : Enter(scope, persist)
    \/ \E str \in Created : Define(str) \/ DefineTaken(str)
    \/ do_install_node_item \/ call_frame_clear \/ uacpi_deinitialize_namespace
    \/ BeginWalk \/ Visit \/ \E d \in {"continue", "peer", "break"} : Decide(d)

Spec == Init /\ [][Next]_s

-----------------------------------------------------------------------------
(* Properties *)

In(n) == s.nodes[n].place = "in"
Reachable(n) == \A a \in Range(AncestorsOf(s.nodes, n)) : a = Root \/
                    find_sub_node(s.nodes, s.nodes[a].parent, s.nodes[a].name) = a

\* A node's absolute path leads back to it from every scope, unless an earlier peer took the
\* name; and a name that a package keeps as a text means what it means in place.
PathsLeadBack ==
    ~s.walk.begun => \A scope \in {n \in Ids : In(n)} :
        /\ s.on => \A n \in {k \in Ids : In(k) /\ Reachable(k)} :
               Resolve(s.nodes, scope, generate_absolute_path(s.nodes, n), FALSE) = n
        /\ \A str \in Used :
               resolve_name_string(s.nodes, scope, str) # 0 =>
                   Resolve(s.nodes, scope, name_string_to_path(str), TRUE)
                       = resolve_name_string(s.nodes, scope, str)
        /\ \A str \in Used :
               Len(str.segs) > 0 /\ resolve_name_string(s.nodes, scope, str) = 0 =>
                   Resolve(s.nodes, scope, name_string_to_path(str), TRUE) = 0

\* The tree is a tree: children and parents agree; a node that is uninstalled is nobody's
\* child and has none, and outside of methods only nodes with children are temporary.
TreeIsKept ==
    /\ \A n \in Ids : In(n) => \A k \in Range(s.nodes[n].kids) : In(k) /\ s.nodes[k].parent = n
    /\ \A n \in Ids \ {Root} : In(n) => In(s.nodes[n].parent) /\ n \in Range(s.nodes[s.nodes[n].parent].kids)
    /\ \A n \in Ids : s.nodes[n].place = "out" => s.nodes[n].kids = <<>>
    /\ s.frames = <<>> => \A n \in Ids : In(n) /\ s.nodes[n].temp =>
           \E k \in Ids : In(k) /\ ~s.nodes[k].temp /\ n \in Range(AncestorsOf(s.nodes, k))
    /\ ~s.on => \A n \in Ids \ {Root} : ~In(n)

\* A walk shows every permanent node that was there at its start once on the way down and
\* once on the way up, after its children, unless the callback cut its subtree off;
\* and the node it returns to without the lock is still in the tree.
WalkShowsAll ==
    LET w == s.walk
        below(n) == \E c \in w.cut \ {n} : c \in Range(AncestorsOf(s.nodes, n))
    IN  /\ w.at # 0 => In(w.at)
        /\ IsInjective(w.down) /\ IsInjective(w.back)
        /\ w.begun /\ w.at = 0 /\ w.depth = 0 /\ s.on =>
               \A n \in w.old : ~below(n) => n \in Range(w.down) /\ n \in Range(w.back)
        /\ \A i, j \in DOMAIN w.back :
               w.back[i] \in Range(AncestorsOf(s.nodes, w.back[j])) => j <= i
=============================================================================
