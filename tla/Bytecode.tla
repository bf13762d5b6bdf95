------------------------------ MODULE Bytecode ------------------------------
(***************************************************************************)
(* How uACPI runs AML (interpreter.c): the loop of                           *)
(* uacpi_execute_control_method, the little program of every opcode          *)
(* (opcodes.h) that exec_op runs, the blocks of If, Else, While and Scope,    *)
(* calls, and what an error unwinds.  One step is one turn of the loop.       *)
(*                                                                         *)
(* A unit of code is a token: an opcode, a package length, a number or a      *)
(* name.  Programs are given as syntax trees, which Compile lays out the way   *)
(* a compiler does; Run says what they mean.                                  *)
(***************************************************************************)
EXTENDS Integers, Sequences, SequencesExt, FiniteSetsExt, TLC

CONSTANTS Programs,      \* records: bodies (one per method), nargs, table (method 1 is a table)
          MaxDepth,      \* max_call_stack_depth
          InlineFrames,  \* frames that are not in dynamic storage
          Timeout,       \* loop_timeout_seconds
          Width          \* integers are 0 .. Width - 1
VARIABLE s

Far == 1000000           \* a pointer read as a time
Uninit == -1             \* the value of an object without one
Device == -2             \* an object that is not an integer

\* The programs of the opcodes, byte for byte; behind the last byte is END
BlockOps ==
    [Continue |-> <<"INVOKE_HANDLER">>,
     If |-> <<"TRACKED_PKGLEN", "OPERAND", "IF_LAST_NULL", 3, "EMIT_SKIP_WARN", "JMP", 9,
              "IF_LAST_FALSE", 4, "SWITCH_TO_NEXT_IF_EQUALS", "Else", 0, "END", "INVOKE_HANDLER">>,
     Else |-> <<"IF_SWITCHED_FROM", "If", 0, 10, "IF_LAST_NULL", 3, "TRACKED_PKGLEN", "EMIT_SKIP_WARN", "END",
                "ITEM_POP", "ITEM_POP", "PKGLEN", "INVOKE_HANDLER", "END", "TRACKED_PKGLEN">>,
     While |-> <<"TRACKED_PKGLEN", "OPERAND", "SKIP_WITH_WARN_IF_NULL", 1, "IF_LAST_TRUE", 1, "INVOKE_HANDLER">>,
     Noop |-> <<"END">>,
     Return |-> <<"TERM_ARG_UNWRAP_INTERNAL", "INVOKE_HANDLER">>,
     Break |-> <<"INVOKE_HANDLER">>]
ScopeOp == [Scope |-> <<"TRACKED_PKGLEN", "EXISTING_NAMESTRING_OR_NULL_IF_LOAD", "SKIP_WITH_WARN_IF_NULL", 1,
                        "INVOKE_HANDLER">>]
MethodCallOp(nargs) ==
    <<"LOAD_INLINE_IMM", 1, nargs, "IF_NOT_NULL", 1, 6, "TERM_ARG_UNWRAP_INTERNAL",
      "OBJECT_CONVERT_TO_SHALLOW_COPY", "IMM_DECREMENT", 1, "JMP", 3, "OBJECT_ALLOC",
      "DISPATCH_METHOD_CALL", "OBJECT_TRANSFER_TO_PREV">>
NameStringOp == [Name |-> <<"AML_PC_DECREMENT", "EXISTING_NAMESTRING_OR_NULL", "CONVERT_NAMESTRING">>]
LocalOrArgOp == <<"EMPTY_OBJECT_ALLOC", "INVOKE_HANDLER", "OBJECT_TRANSFER_TO_PREV">>
NamedObjectOp == [NamedObject |-> <<"EMPTY_OBJECT_ALLOC", "INVOKE_HANDLER", "OBJECT_TRANSFER_TO_PREV">>]
ByteOp == [Byte |-> <<"LOAD_IMM_AS_OBJECT", 1, "OBJECT_TRANSFER_TO_PREV">>]
DecrementOp == [Decrement |-> <<"SUPERNAME", "OBJECT_ALLOC_TYPED", "integer", "INVOKE_HANDLER", "TRUNCATE_NUMBER",
                                "STORE_TO_TARGET", 0, "OBJECT_TRANSFER_TO_PREV">>]
StoreOp == [Store |-> <<"TERM_ARG", "SUPERNAME", "INVOKE_HANDLER", "ITEM_POP", "OBJECT_COPY_TO_PREV">>]
DebugOp == [Debug |-> <<"OBJECT_ALLOC_TYPED", "debug", "OBJECT_TRANSFER_TO_PREV">>]
OpSpec == BlockOps @@ ScopeOp @@ NameStringOp @@ NamedObjectOp @@ ByteOp @@ DecrementOp @@ StoreOp @@ DebugOp
          @@ [Local |-> LocalOrArgOp, Arg |-> LocalOrArgOp, Call0 |-> MethodCallOp(0), Call1 |-> MethodCallOp(1)]

Dynamic == {"SUPERNAME", "TERM_ARG", "TERM_ARG_UNWRAP_INTERNAL", "OPERAND"}
parse_op_generates_item ==
    [p \in Dynamic \cup {"EMPTY_OBJECT_ALLOC"} |-> "empty"]
    @@ [p \in {"PKGLEN", "TRACKED_PKGLEN"} |-> "pkg"]
    @@ [p \in {"EXISTING_NAMESTRING_OR_NULL", "EXISTING_NAMESTRING_OR_NULL_IF_LOAD"} |-> "node"]
    @@ [p \in {"LOAD_IMM_AS_OBJECT", "OBJECT_ALLOC", "OBJECT_ALLOC_TYPED", "OBJECT_CONVERT_TO_SHALLOW_COPY"} |-> "obj"]
    @@ [p \in {"LOAD_INLINE_IMM"} |-> "imm"]

\* x is the execution context inside exec_op: fs its frames, item the local variable of that name
\* (0 NULL, -1 an item that was popped and whose node was NULL), out what exec_op has come to
Cur(x) == Last(x.fs)
PutF(x, f) == [x EXCEPT !.fs = Append(Front(@), f)]
Op(x) == Last(Cur(x).ops)
PutOp(x, o) == PutF(x, [Cur(x) EXCEPT !.ops = Append(Front(@), o)])
PrevOp(x) == Cur(x).ops[Len(Cur(x).ops) - 1]
HasPrev(x) == Len(Cur(x).ops) > 1
Out(x, out) == [x EXCEPT !.out = out]
It(t, v) == [t |-> t, v |-> v]
IsNull(i) == i.t = "empty" \/ (i.t \in {"node", "imm"} /\ i.v = 0)
Item(x) == IF x.item = -1 THEN It("node", 0) ELSE Op(x).items[x.item]
SetItem(x, i) == PutOp(x, [Op(x) EXCEPT !.items[x.item] = i])
Jump(x, offset) == PutF(x, [Cur(x) EXCEPT !.off = offset])
Code(f) == s.code[f.m]

op_decode_cursor(o) == IF o.pc < Len(OpSpec[o.op]) THEN OpSpec[o.op][o.pc + 1] ELSE "END"
Skip(x, n) == PutOp(x, [Op(x) EXCEPT !.pc = @ + n])
op_decode_byte(x) == op_decode_cursor(Op(x))

-----------------------------------------------------------------------------
(* Blocks *)

find_last_block(f, n, type) == Max({0} \cup {i \in 1 .. n : f.slots[i].type = type})
update_scope(f) ==
    LET i == find_last_block(f, f.nb, "scope") IN [f EXCEPT !.scope = IF i = 0 THEN 0 ELSE f.slots[i].node]
\* Where the storage of frame d is: it moves with the dynamic storage it is in
Place(x, d) == IF d <= InlineFrames THEN 0 ELSE x.gen
Mark(x, f) == [f EXCEPT !.lw = [i |-> find_last_block(f, f.nb, "while"), g |-> Place(x, Len(x.fs))]]

begin_block_execution(x) ==
    LET f == Cur(x)
        o == Op(x)
        pkg == o.items[1].v
        n == f.nb + 1
        again == o.op = "While" /\ pkg[1] = f.prevOff
        stale == IF n <= Len(f.slots) THEN f.slots[n].u ELSE 0
        now == IF o.op = "While" THEN x.now + 1 ELSE x.now
        u == CASE o.op = "Scope" -> Far
               [] o.op = "While" -> IF again THEN f.prevExp ELSE now + Timeout
               [] OTHER -> stale
        block == [type |-> CASE o.op = "If" -> "if" [] o.op = "Else" -> "else" [] o.op = "While" -> "while"
                             [] o.op = "Scope" -> "scope",
                  begin |-> pkg[1] - 1, end |-> pkg[2], u |-> u,
                  node |-> IF o.op = "Scope" THEN o.items[2].v ELSE 0]
        g == update_scope([f EXCEPT !.slots = SubSeq(@, 1, f.nb) \o <<block>> \o SubSeq(@, n + 1, Len(@)),
                                    !.nb = n])
        y == [PutOp(x, [o EXCEPT !.tracked = 0]) EXCEPT !.now = now]
    IN IF again /\ now > stale
       THEN Out(y, "error")
       ELSE PutF(y, [Mark(y, g) EXCEPT !.ops = Cur(y).ops])

\* Does not go back to the enclosing scope
BugResetPostEndBlock(x) ==
    LET f == Cur(x)
        block == f.slots[f.nb]
        g == [f EXCEPT !.nb = @ - 1]
    IN PutF(x, IF block.type = "while"
               THEN Mark(x, [g EXCEPT !.prevOff = block.begin + 1, !.prevExp = block.u]) ELSE g)

\* The end of the innermost block
frame_reset_post_end_block(x) ==
    LET f == Cur(x)
        block == f.slots[f.nb]
        g == [f EXCEPT !.nb = @ - 1]
        h == [g EXCEPT !.prevOff = block.begin + 1, !.prevExp = block.u]
    IN PutF(x, CASE block.type = "while" -> Mark(x, h)
                 [] block.type = "scope" -> update_scope(g)
                 [] OTHER -> g)

\* Without one the caller's pointer is stale: the blocks are popped past the first
RECURSIVE ResetTo(_, _)
ResetTo(x, i) == IF Cur(x).nb = i THEN x ELSE ResetTo(frame_reset_post_end_block(x), i)
handle_control_flow(x) ==
    LET f == Cur(x)
        y == ResetTo(x, f.lw.i)
        block == Cur(y).slots[f.lw.i]
    IN CASE f.lw.i = 0 -> Out(x, "error")
         [] f.lw.i # 0 /\ f.lw.g # Place(x, Len(x.fs)) -> Out(x, "lost")
         [] OTHER -> frame_reset_post_end_block(
                         Jump(y, IF Op(x).op = "Break" THEN block.end ELSE block.begin))

CanEnd(f) == f.nb # 0 /\ f.off = f.slots[f.nb].end
maybe_end_block(x) ==
    LET f == Cur(x)
        block == f.slots[f.nb]
    IN frame_reset_post_end_block(IF block.type = "while" THEN Jump(x, block.begin) ELSE x)

-----------------------------------------------------------------------------
(* Frames *)

\* Room for one frame more: dynamic storage that is full is replaced, and what is in it moves
Grow(x) ==
    IF Len(x.fs) - InlineFrames = x.cap
    THEN [x EXCEPT !.gen = @ + 1, !.cap = IF @ = 0 THEN InlineFrames ELSE @ + Max({1, @ \div 2})]
    ELSE x
NewFrame(x, m, arg) ==
    LET frame == [m |-> m, off |-> 0, ops |-> <<>>, nb |-> 1, scope |-> m, lw |-> [i |-> 0, g |-> 0],
                  slots |-> <<[type |-> "scope", begin |-> 0, end |-> Len(x.code[m]), u |-> Far, node |-> m]>>,
                  prevOff |-> 0, prevExp |-> 0, local |-> Uninit, arg |-> arg]
    IN [Grow(x) EXCEPT !.fs = Append(@, frame)]

prepare_method_call(x) ==
    LET items == Op(x).items
    IN IF Len(x.fs) >= MaxDepth THEN Out(x, "error")
       ELSE Out(NewFrame(x, items[1].v, IF Len(items) > 3 THEN items[3].v ELSE Uninit), "ok")

\* Return jumps to the end of the method; the caller's operation has the object for the value
handle_return(x) ==
    LET v == Op(x).items[1].v
        d == Len(x.fs) - 1
        ops == x.fs[d].ops
        o == Last(ops)
        caller == [x.fs[d] EXCEPT !.ops = Append(Front(ops), [o EXCEPT !.items[Len(o.items)] = It("obj", v)])]
        y == Jump(x, Len(Code(Cur(x))))
    IN IF d = 0 \/ ops = <<>> THEN y ELSE [y EXCEPT !.fs = Append(Append(SubSeq(@, 1, d - 1), caller), Last(@))]

ctx_reload_post_ret(x) == [x EXCEPT !.fs = Front(@)]

IsTable(f) == s.table /\ f.m = 1
RECURSIVE Unwind(_, _)
Unwind(x, idx) ==
    IF x.fs = <<>> \/ (idx # 0 /\ IsTable(Cur(x))) THEN x
    ELSE IF IsTable(Cur(x)) THEN ctx_reload_post_ret(x)
    ELSE Unwind(ctx_reload_post_ret(x), idx + 1)
stack_unwind(x) ==
    LET y == Unwind(x, 0)
        i == Last(Op(y).items)
    IN IF y.fs = <<>> THEN y
       ELSE IF Op(y).items # <<>> /\ i.t = "obj" /\ i.v # Uninit
            THEN PutOp(y, [Op(y) EXCEPT !.items[Len(Op(y).items)] = It("obj", 0)])
            ELSE y

-----------------------------------------------------------------------------
(* Handlers *)

Value(x, i) == CASE i.t = "local" -> Cur(x).local [] i.t = "arg" -> Cur(x).arg [] OTHER -> i.v
store_to_target(x, dst, v) ==
    CASE dst.t = "debug" -> [x EXCEPT !.tr = Append(@, <<v, Cur(x).scope>>)]
      [] dst.t = "local" -> PutF(x, [Cur(x) EXCEPT !.local = v])
      [] OTHER -> Out(x, "error")
handle_inc_dec(x) ==
    LET v == Value(x, Op(x).items[1])
    IN IF v < 0 THEN Out(x, "error") ELSE SetItem(x, It("obj", (v - 1) % Width))
handle_arg_or_local(x) == SetItem(x, It(IF Op(x).op = "Local" THEN "local" ELSE "arg", 0))
handle_copy_object_or_store(x) == store_to_target(x, Op(x).items[2], Value(x, Op(x).items[1]))
Handler(x) ==
    CASE Op(x).op \in {"If", "Else", "While", "Scope"} -> begin_block_execution(x)
      [] Op(x).op \in {"Break", "Continue"} -> handle_control_flow(x)
      [] Op(x).op = "Return" -> handle_return(x)
      [] Op(x).op \in {"Local", "Arg"} -> handle_arg_or_local(x)
      [] Op(x).op = "Decrement" -> handle_inc_dec(x)
      [] Op(x).op = "Store" -> handle_copy_object_or_store(x)
      [] Op(x).op = "NamedObject" -> SetItem(x, It("obj", Device))

-----------------------------------------------------------------------------
(* The bytes of an opcode's program *)

apply_tracked_pkg(x) ==
    LET o == Op(x) IN IF o.tracked = 0 THEN x ELSE Jump(x, o.items[o.tracked].v[2])
pop_op(x) == PutF(x, [Cur(x) EXCEPT !.ops = Front(@)])

EndOp(x) ==
    LET y == pop_op(apply_tracked_pkg(x))
    IN Out(IF Cur(y).ops = <<>> THEN y ELSE PutOp(y, [Op(y) EXCEPT !.preempted = FALSE, !.pc = @ + 1]), "ok")
SkipIfNull(x) == IF IsNull(Op(x).items[op_decode_byte(x) + 1]) THEN EndOp(x) ELSE Skip(x, 1)
Preempt(x) == Out(PutOp(x, [Op(x) EXCEPT !.preempted = TRUE, !.pc = @ - 1]), "ok")

parse_package_length(x) ==
    LET off == Cur(x).off
    IN Jump(SetItem(x, It("pkg", <<off, off + Code(Cur(x))[off + 1].v>>)), off + 1)
LoadImm(x) == SetItem(Jump(Skip(x, 1), Cur(x).off + 1), It("obj", Code(Cur(x))[Cur(x).off + 1].v))
LoadInlineImm(x) ==
    LET o == Op(x) IN Skip(SetItem(x, It("imm", OpSpec[o.op][o.pc + 2])), 2)
ImmDecrement(x) ==
    PutOp(x, [Op(x) EXCEPT !.items[op_decode_byte(x) + 1].v = @ - 1, !.pc = @ + 1])
ItemPop(x) ==
    LET o == [Op(x) EXCEPT !.items = Front(@)] IN [PutOp(x, o) EXCEPT !.item = Len(o.items)]

\* IF_NOT_NULL, IF_LAST_NULL, IF_LAST_FALSE and IF_LAST_TRUE: else the next bytes are skipped
If(x, holds) == Skip(x, IF holds THEN 1 ELSE 1 + op_decode_byte(x))
IfNotNull(x) == If(Skip(x, 1), ~IsNull(Op(x).items[op_decode_byte(x) + 1]))
IfSwitchedFrom(x) ==
    LET y == Skip(x, 2) IN If(y, Op(x).from = op_decode_byte(x))
Jmp(x) == PutOp(x, [Op(x) EXCEPT !.pc = op_decode_byte(x)])

\* In a table a name that is not there makes Scope skip itself, and If and While in whose condition it
\* is; anything else is an error
RECURSIVE PopToFirst(_)
PopToFirst(x) == IF Len(Cur(x).ops) = 1 THEN x ELSE PopToFirst(pop_op(x))
NameString(x, op) ==
    LET node == Code(Cur(x))[Cur(x).off + 1].v
        y == SetItem(Jump(x, Cur(x).off + 1), It("node", node))
        first == PopToFirst(y)
    IN CASE node # 0 -> y
         [] node = 0 /\ IsTable(Cur(x)) /\ Cur(x).ops[1].op \in {"While", "If"} ->
              [PutOp(first, [Op(first) EXCEPT !.pc = @ + 1, !.preempted = FALSE]) EXCEPT !.item = -1]
         [] node = 0 /\ IsTable(Cur(x)) /\ op = "EXISTING_NAMESTRING_OR_NULL_IF_LOAD" -> y
         [] OTHER -> Out(y, "error")
ConvertNamestring(x) ==
    LET m == Item(x).v
        method == m \in DOMAIN s.code
        op == IF method /\ x.prev # "SUPERNAME" THEN (IF s.nargs[m] = 0 THEN "Call0" ELSE "Call1") ELSE "NamedObject"
    IN PutOp(x, [Op(x) EXCEPT !.op = op, !.pc = 0])

\* An If that is not taken becomes the Else behind it
peek_next_op(f) == IF f.off = f.slots[f.nb].end THEN "none" ELSE Code(f)[f.off + 1].op
SwitchToNext(x) ==
    LET y == apply_tracked_pkg(x)
    IN IF peek_next_op(Cur(y)) # op_decode_byte(x) THEN Skip(x, 2)
       ELSE PutOp(Jump(y, Cur(y).off + 1),
                  [Op(x) EXCEPT !.from = Op(x).op, !.op = op_decode_byte(x), !.pc = 0])

\* The operand of an If or a While is an integer; the others take what comes
Transfer(x) ==
    LET i == Item(x)
        v == IF x.prev \in {"OPERAND", "TERM_ARG_UNWRAP_INTERNAL"} THEN It("obj", Value(x, i)) ELSE i
        o == PrevOp(x)
        n == Len(Cur(x).ops) - 1
    IN CASE ~HasPrev(x) -> x
         [] HasPrev(x) /\ x.prev = "OPERAND" /\ (v.t # "obj" \/ v.v < 0) -> Out(x, "error")
         [] OTHER -> PutF(x, [Cur(x) EXCEPT !.ops[n].items[Len(o.items)] = v])

TermArgs == {"Byte", "Local", "Arg", "Name", "Call0", "Call1", "NamedObject", "Store", "Decrement", "Debug"}
SuperNames == {"Local", "Arg", "Name", "NamedObject", "Debug"}
op_typecheck(x) ==
    Op(x).pc # 0 \/ ~HasPrev(x)
    \/ Op(x).op \in (IF op_decode_cursor(PrevOp(x)) = "SUPERNAME" THEN SuperNames ELSE TermArgs)

\* One turn of exec_op's loop
ExecByte(x) ==
    LET op == op_decode_byte(x)
        typed == op = "OBJECT_ALLOC_TYPED"
        y == Skip(x, IF typed THEN 2 ELSE 1)
        fresh == op \in DOMAIN parse_op_generates_item
        i == IF typed /\ OpSpec[Op(x).op][Op(x).pc + 2] = "debug" THEN It("debug", 0)
             ELSE It(parse_op_generates_item[op], IF parse_op_generates_item[op] = "obj" THEN Uninit ELSE 0)
        z == IF fresh
             THEN [PutOp(y, [Op(y) EXCEPT !.items = Append(@, i)]) EXCEPT !.item = Len(Op(y).items) + 1]
             ELSE IF x.item = 0 THEN [y EXCEPT !.item = Len(Op(y).items)] ELSE y
        tracked == PutOp(z, [Op(z) EXCEPT !.tracked = Len(Op(z).items)])
        copied == [z EXCEPT !.item = @ - 1]
    IN IF ~op_typecheck(x) THEN Out(x, "error") ELSE
       CASE op = "END" -> EndOp(z)
         [] op = "SKIP_WITH_WARN_IF_NULL" -> SkipIfNull(z)
         [] op \in Dynamic -> Preempt(z)
         [] op = "TRACKED_PKGLEN" -> parse_package_length(tracked)
         [] op = "PKGLEN" -> parse_package_length(z)
         [] op = "LOAD_IMM_AS_OBJECT" -> LoadImm(z)
         [] op = "LOAD_INLINE_IMM" -> LoadInlineImm(z)
         [] op = "IMM_DECREMENT" -> ImmDecrement(z)
         [] op = "ITEM_POP" -> ItemPop(z)
         [] op = "IF_NOT_NULL" -> IfNotNull(z)
         [] op = "IF_LAST_NULL" -> If(z, IsNull(Item(z)))
         [] op = "IF_LAST_FALSE" -> If(z, Item(z).v = 0)
         [] op = "IF_LAST_TRUE" -> If(z, Item(z).v # 0)
         [] op = "IF_SWITCHED_FROM" -> IfSwitchedFrom(z)
         [] op = "JMP" -> Jmp(z)
         [] op = "AML_PC_DECREMENT" -> Jump(z, Cur(z).off - 1)
         [] op \in {"EXISTING_NAMESTRING_OR_NULL", "EXISTING_NAMESTRING_OR_NULL_IF_LOAD"} -> NameString(z, op)
         [] op = "CONVERT_NAMESTRING" -> ConvertNamestring(z)
         [] op = "SWITCH_TO_NEXT_IF_EQUALS" -> SwitchToNext(z)
         [] op = "INVOKE_HANDLER" -> Handler(z)
         [] op \in {"OBJECT_TRANSFER_TO_PREV", "OBJECT_COPY_TO_PREV"} -> Transfer(z)
         [] op = "STORE_TO_TARGET" ->
              store_to_target(Skip(z, 1), Op(z).items[op_decode_byte(z) + 1], Item(z).v)
         [] op = "OBJECT_CONVERT_TO_SHALLOW_COPY" ->
              PutOp(copied, [Op(z) EXCEPT !.items = Front(@)])
         [] op = "DISPATCH_METHOD_CALL" -> prepare_method_call(z)
         [] op \in {"EMIT_SKIP_WARN", "TRUNCATE_NUMBER", "OBJECT_ALLOC", "OBJECT_ALLOC_TYPED",
                    "EMPTY_OBJECT_ALLOC"} -> z

RECURSIVE Loop(_)
Loop(x) == IF x.out = "go" THEN Loop(ExecByte(x)) ELSE x
exec_op(x) ==
    Loop([x EXCEPT !.item = 0, !.out = "go",
                   !.prev = IF HasPrev(x) THEN op_decode_cursor(PrevOp(x)) ELSE "none"])

get_op(x) ==
    LET f == Cur(x)
        o == [op |-> peek_next_op(f), pc |-> 0, items |-> <<>>, preempted |-> FALSE, tracked |-> 0, from |-> "none"]
    IN PutF(x, [f EXCEPT !.off = @ + 1, !.ops = Append(@, o)])

-----------------------------------------------------------------------------
(* The programs: syntax trees and their layout *)

Tok(op, v) == [op |-> op, v |-> v]
RECURSIVE Expr(_)
Expr(e) ==
    CASE e.k = "num" -> <<Tok("Byte", 0), Tok("number", e.v)>>
      [] e.k = "local" -> <<Tok("Local", 0)>>
      [] e.k = "arg" -> <<Tok("Arg", 0)>>
      [] e.k = "name" -> <<Tok("Name", e.v)>>
      [] e.k = "call" -> <<Tok("Name", e.v)>> \o FlattenSeq([i \in 1 .. Len(e.args) |-> Expr(e.args[i])])
      [] e.k = "bad" -> <<Tok("Noop", 0)>>
Package(op, body) == <<Tok(op, 0), Tok("length", 1 + Len(body))>> \o body
RECURSIVE Compile(_)
Compile(b) ==
    IF b = <<>> THEN <<>> ELSE
    LET c == Head(b)
    IN (CASE c.k = "print" -> <<Tok("Store", 0)>> \o Expr(c.e) \o <<Tok("Debug", 0)>>
          [] c.k = "set" -> <<Tok("Store", 0)>> \o Expr(c.e) \o <<Tok("Local", 0)>>
          [] c.k = "dec" -> <<Tok("Decrement", 0), Tok("Local", 0)>>
          [] c.k = "eval" -> Expr(c.e)
          [] c.k = "if" -> Package("If", Expr(c.e) \o Compile(c.b))
                           \o IF c.else THEN Package("Else", Compile(c.f)) ELSE <<>>
          [] c.k = "while" -> Package("While", Expr(c.e) \o Compile(c.b))
          [] c.k = "scope" -> Package("Scope", <<Tok("Name", c.v)>> \o Compile(c.b))
          [] c.k = "return" -> <<Tok("Return", 0)>> \o Expr(c.e)
          [] c.k = "break" -> <<Tok("Break", 0)>>
          [] c.k = "continue" -> <<Tok("Continue", 0)>>)
       \o Compile(Tail(b))

-----------------------------------------------------------------------------
(* What they mean: r is what was printed, the time and the locals of the call  *)

Res(out, v, r) == [out |-> out, v |-> v, r |-> r]
RECURSIVE Eval(_, _, _), Run(_, _, _), Repeat(_, _, _, _)

\* The value of an expression of method q.m, or "missing" or "error"
Eval(e, q, r) ==
    CASE e.k = "num" -> Res("next", e.v, r)
      [] e.k = "local" -> Res("next", r.local, r)
      [] e.k = "arg" -> Res("next", q.arg, r)
      [] e.k = "bad" -> Res("error", 0, r)
      [] e.k = "name" -> IF e.v = 0 THEN Res("missing", 0, r) ELSE Res("next", Device, r)
      [] e.k = "call" ->
           LET a == IF e.args = <<>> THEN Res("next", Uninit, r) ELSE Eval(e.args[1], q, r)
               c == Run(q.prog.bodies[e.v],
                        [q EXCEPT !.m = e.v, !.arg = a.v, !.depth = @ + 1, !.scope = e.v, !.table = FALSE],
                        [a.r EXCEPT !.local = Uninit])
               after == [c.r EXCEPT !.local = a.r.local]
           IN IF e.v = 0 THEN Res("missing", 0, r)
              ELSE IF a.out # "next" THEN a
              ELSE IF q.depth >= MaxDepth THEN Res("error", 0, a.r)
              ELSE CASE c.out = "return" -> Res("next", c.v, after)
                     [] c.out = "next" -> Res("next", Uninit, after)
                     \* an error in a method does not end the table that called it
                     [] OTHER -> Res(IF q.table THEN "next" ELSE "error", Uninit, after)

Repeat(c, q, r, deadline) ==
    LET p == Eval(c.e, q, r)
        now == p.r.now + 1
        x == Run(c.b, q, [p.r EXCEPT !.now = now])
    IN CASE p.out = "missing" /\ q.table -> Res("next", 0, p.r)
         [] p.out # "next" /\ ~(p.out = "missing" /\ q.table) -> Res("error", 0, p.r)
         [] p.out = "next" /\ p.v < 0 -> Res("error", 0, p.r)
         [] p.out = "next" /\ p.v = 0 -> Res("next", 0, p.r)
         [] p.out = "next" /\ p.v > 0 /\ deadline # 0 /\ now > deadline -> Res("error", 0, [p.r EXCEPT !.now = now])
         [] OTHER -> CASE x.out \in {"next", "continue"} ->
                            Repeat(c, q, x.r, IF deadline = 0 THEN now + Timeout ELSE deadline)
                       [] x.out = "break" -> Res("next", 0, x.r)
                       [] OTHER -> x

Simple(c, q, r) ==
    LET p == IF c.k \in {"dec", "break", "continue"} THEN Res("next", r.local, r) ELSE Eval(c.e, q, r)
    IN IF p.out # "next" THEN Res("error", 0, p.r)
       ELSE CASE c.k = "print" -> Res("next", 0, [p.r EXCEPT !.tr = Append(@, <<p.v, q.scope>>)])
              [] c.k = "set" -> Res("next", 0, [p.r EXCEPT !.local = p.v])
              [] c.k = "dec" -> IF p.v < 0 THEN Res("error", 0, r)
                                ELSE Res("next", 0, [r EXCEPT !.local = (@ - 1) % Width])
              [] c.k = "eval" -> p
              [] c.k = "return" -> Res("return", p.v, p.r)
              [] c.k \in {"break", "continue"} -> Res(c.k, 0, r)

Run(b, q, r) ==
    IF b = <<>> THEN Res("next", 0, r) ELSE
    LET c == Head(b)
        p == Eval(c.e, q, r)
        x == CASE c.k = "if" ->
                    (CASE p.out = "missing" /\ q.table -> Res("next", 0, p.r)
                       [] p.out = "next" /\ p.v >= 0 ->
                            Run(IF p.v # 0 THEN c.b ELSE IF c.else THEN c.f ELSE <<>>, q, p.r)
                       [] OTHER -> Res("error", 0, p.r))
               [] c.k = "while" -> Repeat(c, q, r, 0)
               [] c.k = "scope" -> IF c.v # 0 THEN Run(c.b, [q EXCEPT !.scope = c.v], r)
                                   ELSE Res(IF q.table THEN "next" ELSE "error", 0, r)
               [] OTHER -> Simple(c, q, r)
    IN IF x.out = "next" THEN Run(Tail(b), q, x.r) ELSE x

Meaning(p) ==
    LET x == Run(p.bodies[1], [m |-> 1, arg |-> Uninit, depth |-> 1, scope |-> 1, table |-> p.table, prog |-> p],
                 [tr |-> <<>>, now |-> 0, local |-> Uninit])
    IN [ok |-> x.out \in {"next", "return"}, tr |-> x.r.tr]

-----------------------------------------------------------------------------
(* uacpi_execute_control_method *)

Start(p) ==
    [code |-> [m \in 1 .. Len(p.bodies) |-> Compile(p.bodies[m])], nargs |-> p.nargs, table |-> p.table,
     fs |-> <<>>, item |-> 0, prev |-> "none", tr |-> <<>>, now |-> 0, gen |-> 0, cap |-> 0, out |-> "ok",
     meaning |-> Meaning(p)]
Init == \E p \in Programs : s = NewFrame(Start(p), 1, Uninit)

Running == s.fs # <<>> /\ s.out # "lost"
HasNonPreemptedOp == Cur(s).ops # <<>> /\ ~Op(s).preempted
EndBlock == Running /\ ~HasNonPreemptedOp /\ CanEnd(Cur(s)) /\ s' = maybe_end_block(s)
LeaveFrame ==
    /\ Running /\ ~HasNonPreemptedOp /\ ~CanEnd(Cur(s)) /\ Cur(s).off = Len(Code(Cur(s)))
    /\ s' = ctx_reload_post_ret(s)
Execute ==
    /\ Running
    /\ HasNonPreemptedOp \/ (~CanEnd(Cur(s)) /\ Cur(s).off # Len(Code(Cur(s))))
    /\ LET x == exec_op(IF HasNonPreemptedOp THEN s ELSE get_op(s))
       IN s' = IF x.out = "error" THEN stack_unwind(x) ELSE x

Next == EndBlock \/ LeaveFrame \/ Execute

-----------------------------------------------------------------------------
(* Properties *)

\* Return jumps to the end of the method, which is also where a loop that ends the method starts over
ReturnsFromLastLoop ==
    \E m \in DOMAIN s.code : \E i, j \in DOMAIN s.code[m] :
        /\ i < j /\ s.code[m][i].op = "While" /\ s.code[m][j].op = "Return"
        /\ i + s.code[m][i + 1].v = Len(s.code[m])

\* Code prints what its structure says, in the scope its structure says, and ends as it says: for all
\* ways blocks nest, are left by Break, Continue, Return, a timeout or an error, and calls nest.
CodeMeansWhatItSays ==
    s.fs = <<>> /\ ~ReturnsFromLastLoop => s.tr = s.meaning.tr /\ (s.out = "ok") = s.meaning.ok

\* The cursor stays in the innermost block, except that Return leaves it behind the method: what is
\* left of a block (peek_next_op) is not negative.
CursorInBlock ==
    Running => \A i \in DOMAIN s.fs :
        LET f == s.fs[i]
        IN f.nb # 0 => \/ f.slots[f.nb].begin <= f.off /\ f.off <= f.slots[f.nb].end
                       \/ f.off = Len(Code(f))

\* After a call has moved the frames, the pointers in them are the right ones.
PointersRefreshed == s.out # "lost"
=============================================================================
