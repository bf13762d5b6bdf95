------------------------------ MODULE Terminal ------------------------------
(***************************************************************************)
(* The terminal of the kernel (flanterm): the parser of escape sequences, the  *)
(* text attributes, and the screen, whose changes go through a queue with at   *)
(* most one entry per cell that is drawn at the end of each write.             *)
(*                                                                         *)
(* A byte is a string: a printable character, a control code by name, a        *)
(* UTF-8 lead byte ("U2" to "U4"), or a continuation byte that says what the    *)
(* character it ends is drawn as.  A cell is <<glyph, fg, bg>>.  `ref' is what  *)
(* a terminal without queue would show, `odd' marks colours that attributes do  *)
(* not explain, and `peak' is the longest the queue was: ghosts.                *)
(***************************************************************************)
EXTENDS Integers, Sequences, SequencesExt, FiniteSets, FiniteSetsExt, TLC

CONSTANTS Rows, Cols, MaxValues, Writes, MaxWrites
VARIABLE s

Cells == 0 .. (Rows * Cols - 1)
DigitValue == ("0" :> 0) @@ ("1" :> 1) @@ ("2" :> 2) @@ ("3" :> 3) @@ ("4" :> 4) @@
              ("5" :> 5) @@ ("6" :> 6) @@ ("7" :> 7) @@ ("8" :> 8) @@ ("9" :> 9)
UpTo(n) == [k \in 1 .. n |-> k - 1]

\* Colours
DefaultFg == <<"default_fg", 0>>
DefaultFgBright == <<"default_fg_bright", 0>>
DefaultBg == <<"transparent", 0>>
DefaultBgBright == <<"default_bg_bright", 0>>
Colour(k, bright) == IF bright THEN <<"bright", k>> ELSE <<"normal", k>>

-----------------------------------------------------------------------------
(* The screen *)

Blank(x) == <<" ", x.fg, x.bg>>
\* What the cell is about to be
Pending(x, i) == IF x.map[i] # 0 THEN x.queue[x.map[i]].c ELSE x.grid[i]
push_to_queue(x, c, px, py) ==
    LET i == py * Cols + px
    IN IF px >= Cols \/ py >= Rows THEN x
       ELSE IF x.map[i] # 0 THEN [x EXCEPT !.queue[x.map[i]].c = c]
       ELSE IF x.grid[i] = c THEN x
       ELSE [x EXCEPT !.queue = Append(@, [i |-> i, c |-> c]), !.map[i] = Len(x.queue) + 1]
PushAt(x, c, i) == push_to_queue(x, c, i % Cols, i \div Cols)

\* A line moves up, or down, cell by cell: each takes what its neighbour is about to be
FillLine(x, y) == FoldLeft(LAMBDA w, k : push_to_queue(w, Blank(w), k, y), x, UpTo(Cols))
flanterm_fb_revscroll(x) ==
    LET last == (x.bottom - 1) * Cols - 1
        n == last + 1 - x.top * Cols
        moved == FoldLeft(LAMBDA w, k : PushAt(w, Pending(w, last - k), last - k + Cols), x, UpTo(Max({n, 0})))
    IN [FillLine(moved, x.top) EXCEPT !.ref = [i \in Cells |->
            IF i \div Cols = x.top THEN Blank(x)
            ELSE IF i \div Cols \in (x.top + 1) .. (x.bottom - 1) THEN x.ref[i - Cols] ELSE x.ref[i]]]
flanterm_fb_scroll(x) ==
    LET from == (x.top + 1) * Cols
        n == x.bottom * Cols - from
        moved == FoldLeft(LAMBDA w, k : PushAt(w, Pending(w, from + k), from + k - Cols), x, UpTo(Max({n, 0})))
    IN [FillLine(moved, x.bottom - 1) EXCEPT !.ref = [i \in Cells |->
            IF i \div Cols = x.bottom - 1 THEN Blank(x)
            ELSE IF i \div Cols \in x.top .. (x.bottom - 2) THEN x.ref[i + Cols] ELSE x.ref[i]]]
flanterm_fb_clear(x, move) ==
    LET y == FoldLeft(LAMBDA w, k : PushAt(w, Blank(w), k), x, UpTo(Rows * Cols))
    IN [y EXCEPT !.ref = [i \in Cells |-> Blank(x)], !.cx = IF move THEN 0 ELSE @, !.cy = IF move THEN 0 ELSE @]

Clip(k, n) == IF k < 0 THEN 0 ELSE Min({k, n - 1})
set_cursor_pos(x, px, py) == [x EXCEPT !.cx = Clip(px, Cols), !.cy = Clip(py, Rows)]
CurX(x) == Min({x.cx, Cols - 1})
CurY(x) == Min({x.cy, Rows - 1})
move_character(x, newX, oldX, y) ==
    IF newX >= Cols \/ oldX >= Cols THEN x
    ELSE [push_to_queue(x, Pending(x, y * Cols + oldX), newX, y) EXCEPT
             !.ref[y * Cols + newX] = x.ref[y * Cols + oldX]]

\* A character after the last column goes to the next line; below a scroll region that is no line
raw_putchar(x, c) ==
    LET wraps == x.cx >= Cols /\ (x.cy < x.bottom - 1 \/ x.scroll)
        atEnd == x.cy + 1 = x.bottom
        down == Min({IF atEnd THEN x.cy ELSE x.cy + 1, Cols - 1})
        y == IF ~wraps THEN x
             ELSE IF atEnd THEN [flanterm_fb_scroll(x) EXCEPT !.cx = 0, !.cy = down]
             ELSE [x EXCEPT !.cx = 0, !.cy = down]
        cell == <<c, x.fg, x.bg>>
        on == y.cx < Cols /\ y.cy < Rows
        i == y.cy * Cols + y.cx
    IN [push_to_queue(y, cell, y.cx, y.cy) EXCEPT
           !.cx = @ + 1, !.ref = IF on THEN [@ EXCEPT ![i] = cell] ELSE @]
Repeat(x, n, c) == FoldLeft(LAMBDA w, k : raw_putchar(w, c), x, UpTo(n))

\* The cell under the cursor is drawn with its colours exchanged, and is done with
Inverted(c) == <<c[1], c[3], c[2]>>
BugDrawCursor(x) ==
    LET i == x.cx + x.cy * Cols
    IN IF x.cx >= Cols \/ x.cy >= Rows THEN x
       ELSE [x EXCEPT !.shown[i] = Inverted(Pending(x, i)), !.grid[i] = Pending(x, i)]
draw_cursor(x) ==
    LET i == x.cx + x.cy * Cols
    IN IF x.cx >= Cols \/ x.cy >= Rows THEN x
       ELSE [x EXCEPT !.shown[i] = Inverted(Pending(x, i)), !.grid[i] = Pending(x, i), !.map[i] = 0]
double_buffer_flush(x) ==
    LET d == IF x.cursorOn THEN draw_cursor(x) ELSE x
        f == FoldLeft(LAMBDA w, q : IF w.map[q.i] = 0 THEN w
                                    ELSE [w EXCEPT !.shown[q.i] = q.c, !.grid[q.i] = q.c, !.map[q.i] = 0], d, d.queue)
        old == x.ox + x.oy * Cols
        moved == x.ox # x.cx \/ x.oy # x.cy \/ ~x.cursorOn
    IN [f EXCEPT !.shown = IF moved /\ x.ox < Cols /\ x.oy < Rows THEN [@ EXCEPT ![old] = f.grid[old]] ELSE @,
                 !.ox = x.cx, !.oy = x.cy, !.queue = <<>>, !.peak = Len(x.queue)]

-----------------------------------------------------------------------------
(* Text attributes.  In reverse video the front colour is kept as background. *)

SetFront(x, c) == IF x.rev THEN [x EXCEPT !.bg = c] ELSE [x EXCEPT !.fg = c]
SetBack(x, c) == IF x.rev THEN [x EXCEPT !.fg = c] ELSE [x EXCEPT !.bg = c]
swap_palette(x) == [x EXCEPT !.fg = x.bg, !.bg = x.fg]
SetReverse(x, on) == IF x.rev = on THEN x ELSE [swap_palette(x) EXCEPT !.rev = on]
NormalText(x) ==
    [SetReverse(x, FALSE) EXCEPT !.bold = FALSE, !.bgBold = FALSE, !.prim = -1, !.back = -1,
                                 !.fg = DefaultFg, !.bg = DefaultBg, !.odd = FALSE]
\* With default colours and in reverse video, a change of intensity takes the other default: odd
SetBold(x, on) ==
    LET y == [x EXCEPT !.bold = on]
    IN IF x.prim # -1 THEN SetFront(y, Colour(x.prim, on))
       ELSE IF x.rev THEN [y EXCEPT !.bg = IF on THEN DefaultBgBright ELSE DefaultBg, !.odd = TRUE]
       ELSE [y EXCEPT !.fg = IF on THEN DefaultFgBright ELSE DefaultFg]
SetBgBold(x, on) ==
    LET y == [x EXCEPT !.bgBold = on]
    IN IF x.back # -1 THEN SetBack(y, Colour(x.back, on))
       ELSE IF x.rev THEN [y EXCEPT !.fg = IF on THEN DefaultFgBright ELSE DefaultFg, !.odd = TRUE]
       ELSE [y EXCEPT !.bg = IF on THEN DefaultBgBright ELSE DefaultBg]
\* Colours of the 256 and of RGB are set without regard to reverse video
SetIndexed(x, front, k) ==
    LET c == IF k < 16 THEN Colour(k % 8, k >= 8) ELSE <<"rgb", k>>
        y == IF front THEN [x EXCEPT !.fg = c] ELSE [x EXCEPT !.bg = c]
    IN IF k < 256 THEN [y EXCEPT !.odd = TRUE] ELSE x
SetRgb(x, front, r, g, b) ==
    LET c == <<"rgb", (r * 65536) + (g * 256) + b>>
    IN [x EXCEPT !.fg = IF front THEN c ELSE @, !.bg = IF front THEN @ ELSE c, !.odd = TRUE]

SgrOne(x, v) ==
    CASE v = 0 -> NormalText(x)
      [] v = 1 -> SetBold(x, TRUE)
      [] v = 22 -> SetBold(x, FALSE)
      [] v = 5 -> SetBgBold(x, TRUE)
      [] v = 25 -> SetBgBold(x, FALSE)
      [] v \in 30 .. 37 -> SetFront([x EXCEPT !.prim = v - 30], Colour(v - 30, x.bold))
      [] v \in 40 .. 47 -> SetBack([x EXCEPT !.back = v - 40], Colour(v - 40, x.bgBold))
      [] v \in 90 .. 97 -> SetFront([x EXCEPT !.prim = v - 90, !.odd = @ \/ ~x.bold], Colour(v - 90, TRUE))
      [] v \in 100 .. 107 -> SetBack([x EXCEPT !.back = v - 100, !.odd = @ \/ ~x.bgBold], Colour(v - 100, TRUE))
      [] v = 39 -> SetFront([x EXCEPT !.prim = -1], IF x.bold THEN DefaultFgBright ELSE DefaultFg)
      [] v = 49 -> SetBack([x EXCEPT !.back = -1], IF x.bgBold THEN DefaultBgBright ELSE DefaultBg)
      [] v = 7 -> SetReverse(x, TRUE)
      [] v = 27 -> SetReverse(x, FALSE)
      [] OTHER -> x

RECURSIVE sgr_from(_, _)
sgr_from(x, i) ==
    LET v(k) == x.vals[i + k]
        left == x.nvals - i
    IN IF i > x.nvals THEN x
       ELSE IF v(0) \notin {38, 48} THEN sgr_from(SgrOne(x, v(0)), i + 1)
       ELSE IF left = 0 \/ (v(1) = 2 /\ left < 4) \/ (v(1) = 5 /\ left < 2) THEN x
       ELSE IF v(1) = 2 THEN sgr_from(SetRgb(x, v(0) = 38, v(2), v(3), v(4)), i + 5)
       ELSE IF v(1) = 5 THEN sgr_from(SetIndexed(x, v(0) = 38, v(2)), i + 3)
       ELSE sgr_from(x, i + 2)
sgr(x) == IF x.nvals = 0 THEN NormalText(x) ELSE sgr_from(x, 1)

-----------------------------------------------------------------------------
(* Escape sequences *)

SavedOf(x) == [fg |-> x.fg, bg |-> x.bg, cx |-> x.cx, cy |-> x.cy, bold |-> x.bold, bgBold |-> x.bgBold,
               rev |-> x.rev, charset |-> x.charset, prim |-> x.prim, back |-> x.back, odd |-> x.odd]
save_state(x) == [x EXCEPT !.saved = SavedOf(x)]
restore_state(x) ==
    LET v == x.saved
    IN [x EXCEPT !.fg = v.fg, !.bg = v.bg, !.cx = v.cx, !.cy = v.cy, !.bold = v.bold, !.bgBold = v.bgBold,
                 !.rev = v.rev, !.charset = v.charset, !.prim = v.prim, !.back = v.back, !.odd = v.odd]

\* The colours of the text are not part of it
Context == [cursorOn |-> TRUE, scroll |-> TRUE, csi |-> FALSE, esc |-> FALSE, osc |-> FALSE, oscEsc |-> FALSE,
            rrr |-> FALSE, discard |-> FALSE, bold |-> FALSE, bgBold |-> FALSE, rev |-> FALSE, priv |-> FALSE,
            ins |-> FALSE, uni |-> 0, gsel |-> 0, sets |-> <<"default", "special">>, charset |-> 1, eoff |-> 0,
            nvals |-> 0, sx |-> 0, sy |-> 0, prim |-> -1, back |-> -1, top |-> 0, bottom |-> Rows]
flanterm_context_reinit(x) ==
    [(Context @@ x) EXCEPT !.odd = x.fg # DefaultFg \/ x.bg # DefaultBg]

dec_private_parse(x, c) ==
    [x EXCEPT !.priv = FALSE,
              !.cursorOn = IF x.nvals > 0 /\ c \in {"h", "l"} /\ x.vals[1] = 25 THEN c = "h" ELSE @]
mode_toggle(x, c) == [x EXCEPT !.ins = IF x.nvals > 0 /\ x.vals[1] = 4 THEN c = "h" ELSE @]
\* Any byte but ESC ends an operating system command
osc_parse(x, c) ==
    IF c = "ESC" THEN [x EXCEPT !.oscEsc = TRUE]
    ELSE [x EXCEPT !.oscEsc = FALSE, !.osc = FALSE, !.esc = FALSE]

\* Up and down stop at a margin they would cross
MoveUp(x, px, n) ==
    LET y == CurY(x)
        to == y - Min({n, y})
        crosses == x.top \in to .. y \/ x.bottom \in to .. y
    IN set_cursor_pos(x, px, IF crosses /\ to < x.top THEN x.top ELSE to)
MoveDown(x, px, n) ==
    LET y == CurY(x)
        to == Min({y + n, Rows - 1})
        crosses == x.top \in y .. to \/ x.bottom \in y .. to
    IN set_cursor_pos(x, px, IF crosses /\ to >= x.bottom THEN x.bottom - 1 ELSE to)
MoveTo(x, row, col) ==
    set_cursor_pos(x, Min({Max({col - 1, 0}), Cols - 1}), Min({Max({row - 1, 0}), Rows - 1}))
\* Position 0 is one less than 1 in 32 bits without sign, and so the last
Column(n, size) == IF n = 0 THEN size - 1 ELSE Min({n - 1, size - 1})
DeleteLines(x, n) == FoldLeft(LAMBDA w, k : flanterm_fb_scroll(w), x, UpTo(Min({n, Rows})))
InsertLines(x, n) ==
    [FoldLeft(LAMBDA w, k : flanterm_fb_revscroll(w), [x EXCEPT !.top = CurY(x)], UpTo(Min({n, Rows})))
         EXCEPT !.top = x.top]
EraseDisplay(x, n) ==
    LET px == CurX(x)
        py == CurY(x)
    IN CASE n = 0 -> set_cursor_pos(Repeat(x, (Rows - py) * Cols - px, " "), px, py)
         [] n = 1 -> set_cursor_pos(Repeat(set_cursor_pos(x, 0, 0), py * Cols + px + 1, " "), px, py)
         [] n \in {2, 3} -> flanterm_fb_clear(x, FALSE)
         [] OTHER -> x
EraseLine(x, n) ==
    LET px == CurX(x)
        py == CurY(x)
        start == set_cursor_pos(x, 0, py)
    IN CASE n = 0 -> set_cursor_pos(Repeat(x, Cols - px, " "), px, py)
         [] n = 1 -> Repeat(start, px, " ")
         [] n = 2 -> set_cursor_pos(Repeat(start, Cols, " "), px, py)
         [] OTHER -> x
InsertBlanks(x, n) ==
    LET px == CurX(x)
        py == CurY(x)
        step(w, k) == LET i == Cols - 1 - k
                      IN raw_putchar(set_cursor_pos(move_character(w, i + n, i, py), i, py), " ")
    IN set_cursor_pos(FoldLeft(step, x, UpTo(Cols - px)), px, py)
EraseChars(x, n, px, py) == set_cursor_pos(Repeat(x, Min({n, Cols}), " "), px, py)
DeleteChars(x, n) ==
    LET px == CurX(x)
        py == CurY(x)
        moved == FoldLeft(LAMBDA w, k : move_character(w, px + k, px + n + k, py), x, UpTo(Max({Cols - px - n, 0})))
    IN EraseChars(set_cursor_pos(moved, Cols - n, py), n, px, py)
SetMargins(x, given, row, last) ==
    LET t == IF given > 0 THEN Max({row, 1}) - 1 ELSE 0
        b == IF given > 1 THEN Max({last, 1}) ELSE Rows
        ok == t < Rows /\ b <= Rows /\ t < b - 1
    IN set_cursor_pos([x EXCEPT !.top = IF ok THEN t ELSE 0, !.bottom = IF ok THEN b ELSE Rows], 0, 0)

\* The commands that print or scroll do not scroll past the end of the region while they do so
CsiCommand(x, c) ==
    LET a == x.vals[1]
        px == CurX(x)
        py == CurY(x)
    IN CASE c \in {"A", "F"} -> MoveUp(x, IF c = "F" THEN 0 ELSE px, a)
         [] c \in {"B", "E", "e"} -> MoveDown(x, IF c = "E" THEN 0 ELSE px, a)
         [] c \in {"C", "a"} -> set_cursor_pos(x, Min({px + a, Cols - 1}), py)
         [] c = "D" -> set_cursor_pos(x, px - Min({a, px}), py)
         [] c = "d" -> set_cursor_pos(x, px, Column(a, Rows))
         [] c \in {"G", "backquote"} -> set_cursor_pos(x, Column(a, Cols), py)
         [] c \in {"H", "f"} -> MoveTo(x, a, x.vals[2])
         [] c = "M" -> DeleteLines(x, a)
         [] c = "L" -> InsertLines(x, a)
         [] c = "J" -> EraseDisplay(x, a)
         [] c = "K" -> EraseLine(x, a)
         [] c = "@" -> InsertBlanks(x, a)
         [] c = "P" -> DeleteChars(x, a)
         [] c = "X" -> EraseChars(x, a, px, py)
         [] c = "m" -> sgr(x)
         [] c = "s" -> [x EXCEPT !.sx = px, !.sy = py]
         [] c = "u" -> set_cursor_pos(x, x.sx, x.sy)
         [] c = "r" -> SetMargins(x, x.nvals, a, x.vals[2])
         [] c \in {"h", "l"} -> mode_toggle(x, c)
         [] OTHER -> x
\* Defaults are filled in behind the given values; a private sequence is not a command
CsiFinal(x, c) ==
    LET default == IF c \in {"J", "K", "q"} THEN 0 ELSE 1
        y == [x EXCEPT !.vals = [i \in DOMAIN @ |-> IF i > x.nvals THEN default ELSE @[i]]]
        z == IF y.priv THEN dec_private_parse(y, c)
             ELSE [CsiCommand([y EXCEPT !.scroll = FALSE], c) EXCEPT !.scroll = y.scroll]
    IN [z EXCEPT !.csi = FALSE, !.esc = FALSE]
control_sequence_parse(x, c) ==
    LET full == x.nvals = MaxValues
        next == [x EXCEPT !.nvals = @ + 1, !.rrr = FALSE]
    IN CASE x.eoff = 2 /\ c = "[" -> [x EXCEPT !.discard = TRUE, !.csi = FALSE, !.esc = FALSE]
         [] x.eoff = 2 /\ c = "?" -> [x EXCEPT !.priv = TRUE]
         [] c \in DOMAIN DigitValue ->
              IF full THEN x ELSE [x EXCEPT !.rrr = TRUE, !.vals[x.nvals + 1] = @ * 10 + DigitValue[c]]
         [] c = ";" -> IF x.rrr THEN next ELSE IF full THEN x ELSE [next EXCEPT !.vals[x.nvals + 1] = 0]
         [] OTHER -> CsiFinal(IF x.rrr THEN next ELSE x, c)

\* A line down at the end of the region, or up at its start, scrolls it
IndexDown(x, px) ==
    LET y == CurY(x)
    IN IF y = x.bottom - 1 THEN set_cursor_pos(flanterm_fb_scroll(x), px, y) ELSE set_cursor_pos(x, px, y + 1)
ReverseIndex(x) ==
    LET y == CurY(x)
    IN IF y = x.top THEN set_cursor_pos(flanterm_fb_revscroll(x), 0, y) ELSE set_cursor_pos(x, 0, y - 1)
EscCommand(x, c) ==
    CASE c = "7" -> save_state(x)
      [] c = "8" -> restore_state(x)
      [] c = "c" -> flanterm_fb_clear(flanterm_context_reinit(x), TRUE)
      [] c = "D" -> IndexDown(x, CurX(x))
      [] c = "E" -> IndexDown(x, 0)
      [] c = "M" -> ReverseIndex(x)
      [] c \in {"(", ")"} -> [x EXCEPT !.gsel = IF c = "(" THEN 1 ELSE 2]
      [] OTHER -> x
escape_parse(w, c) ==
    LET x == [w EXCEPT !.eoff = @ + 1]
    IN CASE x.osc -> osc_parse(x, c)
         [] ~x.osc /\ x.csi -> control_sequence_parse(x, c)
         [] ~x.osc /\ ~x.csi /\ c = "]" -> [x EXCEPT !.oscEsc = FALSE, !.osc = TRUE]
         [] ~x.osc /\ ~x.csi /\ c = "[" ->
              [x EXCEPT !.vals = [i \in DOMAIN @ |-> 0], !.nvals = 0, !.rrr = FALSE, !.csi = TRUE]
         [] OTHER -> [EscCommand(x, c) EXCEPT !.esc = FALSE]

-----------------------------------------------------------------------------
(* Characters *)

\* Line drawing characters, all drawn alike here
dec_special == {"backquote", "0", "-", ",", ".", "a", "f", "g", "h", "j", "k", "l", "m", "n", "q", "s", "t", "u", "v",
                "w", "x", "y", "z", "~", "_", "+", "{", "}"}
Lead == ("U2" :> 1) @@ ("U3" :> 2) @@ ("U4" :> 3)
\* Glyphs of a character outside ASCII: known, or a box as wide as the character
Continuation == ("known" :> <<"known">>) @@ ("narrow" :> <<"box">>) @@ ("wide" :> <<"box", " ">>) @@ ("mark" :> <<>>)
Invisible == {"NUL", "DEL", "BEL"}
Others == {"C1", "ACK"}

Reset(x) == [x EXCEPT !.discard = FALSE, !.esc = FALSE, !.csi = FALSE, !.uni = 0, !.osc = FALSE,
                      !.oscEsc = FALSE, !.gsel = 0]
ContinueUnicode(x, c) ==
    LET y == [x EXCEPT !.uni = @ - 1]
    IN IF y.uni # 0 THEN y ELSE FoldLeft(LAMBDA w, g : raw_putchar(w, g), y, Continuation[c])
SelectCharset(x, c) ==
    [x EXCEPT !.gsel = 0, !.sets[x.gsel] = CASE c = "B" -> "default" [] c = "0" -> "special" [] OTHER -> @]
OpenGap(x) == FoldLeft(LAMBDA w, k : move_character(w, Cols - k, Cols - 1 - k, CurY(x)), x, UpTo(Cols - CurX(x)))
PutGlyph(x, c) ==
    LET y == IF x.ins THEN OpenGap(x) ELSE x
        g == CASE x.sets[x.charset] = "special" /\ c \in dec_special -> "line"
               [] c \in Others \cup DOMAIN Continuation -> "box"
               [] OTHER -> c
    IN raw_putchar(y, g)
\* Tabs are 8 columns, and the test compares their number with the columns
Tab(x) ==
    LET n == CurX(x) \div 8 + 1
    IN set_cursor_pos(x, IF n >= Cols THEN Cols - 1 ELSE n * 8, CurY(x))
Control(x, c) ==
    CASE c \in Invisible -> x
      [] c = "ESC" -> [x EXCEPT !.eoff = 0, !.esc = TRUE]
      [] c = "TAB" -> Tab(x)
      [] c = "LF" -> IndexDown(x, 0)
      [] c = "BS" -> set_cursor_pos(x, CurX(x) - 1, CurY(x))
      [] c = "CR" -> set_cursor_pos(x, 0, CurY(x))
      [] c = "SO" -> [x EXCEPT !.charset = 2]
      [] c = "SI" -> [x EXCEPT !.charset = 1]
      [] OTHER -> PutGlyph(x, c)
flanterm_putchar(w, c) ==
    LET x == IF w.uni # 0 /\ c \notin DOMAIN Continuation THEN [w EXCEPT !.uni = 0] ELSE w
    IN CASE w.discard \/ c = "CAN" -> Reset(w)
         [] ~w.discard /\ c # "CAN" /\ x.uni # 0 -> ContinueUnicode(x, c)
         [] ~w.discard /\ x.uni = 0 /\ c \in DOMAIN Lead -> [x EXCEPT !.uni = Lead[c]]
         [] ~w.discard /\ c # "CAN" /\ x.uni = 0 /\ c \notin DOMAIN Lead ->
              IF x.esc THEN escape_parse(x, c) ELSE IF x.gsel # 0 THEN SelectCharset(x, c) ELSE Control(x, c)
flanterm_write(x, bytes) ==
    double_buffer_flush(FoldLeft(LAMBDA w, c : flanterm_putchar(w, c), x, bytes))

-----------------------------------------------------------------------------
\* A cleared structure: nothing was saved yet, and what is restored has no colours of its own
Unsaved == [fg |-> <<"zero", 0>>, bg |-> <<"zero", 0>>, cx |-> 0, cy |-> 0, bold |-> FALSE, bgBold |-> FALSE,
            rev |-> FALSE, charset |-> 1, prim |-> 0, back |-> 0, odd |-> TRUE]
Empty == [i \in Cells |-> <<" ", DefaultFg, DefaultBg>>]
flanterm_fb_init ==
    Context @@ [grid |-> Empty, ref |-> Empty, shown |-> [Empty EXCEPT ![0] = Inverted(@)],
                map |-> [i \in Cells |-> 0], queue |-> <<>>, cx |-> 0, cy |-> 0, ox |-> 0, oy |-> 0,
                fg |-> DefaultFg, bg |-> DefaultBg, saved |-> Unsaved, vals |-> [i \in 1 .. MaxValues |-> 0],
                odd |-> FALSE, peak |-> 0, writes |-> 0]
Init == s = flanterm_fb_init
Write(bytes) ==
    /\ s.writes < MaxWrites
    /\ s' = [flanterm_write(s, bytes) EXCEPT !.writes = @ + 1]
Next == \E bytes \in Writes : Write(bytes)
Spec == Init /\ [][Next]_s

(***************************************************************************)
(* Properties                                                              *)
(***************************************************************************)
\* After every write the screen shows what a terminal without queue would show, which moves lines as a
\* whole, and only the cell under the cursor is inverted: no change is lost in the queue, none is drawn twice,
\* and no old cursor is left behind (push_to_queue, scroll, move_character, draw_cursor, double_buffer_flush)
ScreenShowsText ==
    \A i \in Cells :
        LET under == s.cursorOn /\ i = s.cx + s.cy * Cols /\ s.cx < Cols /\ s.cy < Rows
        IN /\ s.shown[i] = IF under THEN Inverted(s.ref[i]) ELSE s.ref[i]
           /\ s.grid[i] = s.ref[i] /\ s.map[i] = 0

\* Queue, cursor, margins and parsed values stay in bounds: a write queues each cell once, the cursor leaves the screen only below a scroll region,
\* and no sequence writes behind esc_values or leaves the parser in two modes
StateInBounds ==
    /\ s.peak <= Rows * Cols
    /\ s.cx \in 0 .. Cols /\ s.cy \in 0 .. Rows /\ s.nvals \in 0 .. MaxValues
    /\ s.top >= 0 /\ s.top < s.bottom /\ s.bottom <= Rows
    /\ (s.osc \/ s.csi) => s.esc
    /\ ~(s.osc /\ s.csi)
    /\ s.cy = Rows => s.bottom < Rows \/ s.saved.cy = Rows

\* The colours of the text follow from the attributes, whatever the order they were set in: reverse
\* video exchanges front and back and nothing else (sgr, save_state, restore_state).  Not after a colour by
\* index or RGB, a bright colour, a change of intensity in reverse video with a default colour, or a reset
ColoursFollowAttributes ==
    LET front == IF s.prim # -1 THEN Colour(s.prim, s.bold) ELSE IF s.bold THEN DefaultFgBright ELSE DefaultFg
        back == IF s.back # -1 THEN Colour(s.back, s.bgBold) ELSE IF s.bgBold THEN DefaultBgBright ELSE DefaultBg
    IN s.odd \/ (IF s.rev THEN s.bg = front /\ s.fg = back ELSE s.fg = front /\ s.bg = back)
=============================================================================
