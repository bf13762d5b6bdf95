------------------------------- MODULE Fields -------------------------------
(***************************************************************************)
(* Field units, buffer fields and generic registers (io.c): how a value of    *)
(* any bit length at any bit offset is read and written in accesses of a       *)
(* fixed width, through bank and index registers, and under the global lock.   *)
(*                                                                         *)
(* A byte is the set of its bits that are 1.  Each access to a region runs a   *)
(* handler, with the namespace lock dropped, so that two threads of AML         *)
(* interleave between accesses (uacpi_dispatch_opregion_io).                    *)
(***************************************************************************)
EXTENDS Integers, Sequences, FiniteSetsExt

CONSTANTS W,          \* bits in a byte: 8
          Word,       \* bytes in a uacpi_u64: 8
          Sizes,      \* bytes in each region
          Scenes,     \* what each thread does
          Patterns    \* memory contents
VARIABLE s

Threads == {"t", "u"}
Low(n) == 0 .. (n - 1)
Shl(b, k) == {i + k : i \in b}
Shr(b, k) == {i - k : i \in {j \in b : j >= k}}
AlignUp(x, a) == ((x + a - 1) \div a) * a
AlignDown(x, a) == (x \div a) * a
Bytes(n) == AlignUp(n, W) \div W

\* uacpi_memcpy_zerout: the first n bytes of a buffer, zeros behind its end
Zerout(b, n) == [i \in Low(n) |-> IF i \in DOMAIN b THEN b[i] ELSE {}]
Bits(b) == {i * W + j : i \in DOMAIN b, j \in Low(W)}
BitsOf(b) == {k \in Bits(b) : k % W \in b[k \div W]}

-----------------------------------------------------------------------------
(* Bits *)

\* bit_copy: dc bits at dp:ds become the sc bits at sp:ss, with zeros behind them
BitsAt(src, sp, ss, sc) ==
    LET here == Shr(src[sp], ss)
        over == IF ss # 0 /\ sc > W - ss THEN Shl(src[sp + 1], W - ss) ELSE {}
    IN (here \cup over) \cap Low(Min({sc, W}))
RECURSIVE CopyBytes(_, _, _, _, _, _, _, _)
CopyBytes(dst, dp, ds, dc, src, sp, ss, sc) ==
    IF dc = 0 THEN dst
    ELSE LET bits == IF sc = 0 THEN {} ELSE BitsAt(src, sp, ss, sc)
             mask == Shl(Low(Min({dc, W})), ds)
             here == [dst EXCEPT ![dp] = (@ \ mask) \cup (Shl(bits, ds) \cap mask \cap Low(W))]
             both == IF ds # 0 /\ dc > W - ds
                     THEN [here EXCEPT ![dp + 1] = (@ \ Shr(mask, W)) \cup (Shr(bits, W - ds) \cap Shr(mask, W))]
                     ELSE here
         IN CopyBytes(both, dp + 1, ds, Max({dc - W, 0}), src,
                      IF sc < W THEN sp ELSE sp + 1, ss, Max({sc - W, 0}))
bit_copy(dst, di, dl, src, si, sl) == CopyBytes(dst, di \div W, di % W, dl, src, si \div W, si % W, sl)

\* cut_misaligned_tail: the bits of the last byte behind the length become 0
cut_misaligned_tail(b, i, len) == [b EXCEPT ![i] = IF len % W = 0 THEN @ ELSE @ \cap Low(len % W)]

\* Buffer fields: whole bytes are copied when the field starts at one
uacpi_read_buffer_field(back, bit, len) ==
    LET n == Bytes(len)
    IN IF bit % W = 0
       THEN cut_misaligned_tail([i \in Low(n) |-> back[(bit \div W) + i]], n - 1, len)
       ELSE bit_copy([i \in Low(n) |-> {}], 0, n * W, back, bit, len)
uacpi_write_buffer_field(back, bit, len, src) ==
    LET n == Bytes(len)
        first == bit \div W
        last == first + n - 1
        new == [i \in DOMAIN back |-> IF i \in first .. last THEN Zerout(src, n)[i - first] ELSE back[i]]
        tail == len % W
    IN IF bit % W = 0
       THEN IF tail = 0 THEN new
            ELSE [new EXCEPT ![last] = (@ \cap Low(tail)) \cup Shl(Shr(back[last], tail), tail)]
       ELSE bit_copy(back, bit, len, src, 0, Max(DOMAIN src \cup {-1}) * W + W)

-----------------------------------------------------------------------------
(* Generic registers *)

IsPowerOfTwo(n) == n = 0 \/ \E k \in 0 .. 7 : n = 2 ^ k
MsbPower(n) == Max({k \in 0 .. 7 : 2 ^ k <= n})       \* uacpi_bit_scan_backward counts from 1
RECURSIVE BackOff(_, _)
BackOff(addr, w) == IF addr % (w \div W) = 0 THEN w ELSE BackOff(addr, w \div 2)
gas_get_access_bit_width(g) ==
    LET n == g.off + g.width
        msb == IF n <= 1 THEN 0 ELSE MsbPower(n - 1) + 1
        w == CASE g.off = 0 /\ IsPowerOfTwo(g.width) /\ g.width % W = 0 -> g.width
               [] g.size # 0 /\ ~(g.off = 0 /\ IsPowerOfTwo(g.width) /\ g.width % W = 0) -> g.size * W
               [] OTHER -> IF 2 ^ msb <= W THEN W ELSE BackOff(g.addr, 2 ^ msb)
    IN Min({w, Word * W})
\* NOT_FOUND, UNIMPLEMENTED, or the widths
gas_validate(g) ==
    g.addr # 0 /\ g.size <= 4 /\ AlignUp(g.off + g.width, gas_get_access_bit_width(g)) <= Word * W

\* Units that lie before the bit offset are skipped; the others are accessed whole, in place
RECURSIVE GasRead(_, _, _, _, _, _)
GasRead(mem, g, a, i, skip, left) ==
    IF left = 0 THEN {}
    ELSE (IF skip >= a THEN {} ELSE Shl({k \in Low(a) : k % W \in mem[g.addr + (i * a + k) \div W]}, i * a))
         \cup GasRead(mem, g, a, i + 1, IF skip >= a THEN skip - a ELSE skip, left - Min({left, a}))
RECURSIVE GasWrite(_, _, _, _, _, _, _)
GasWrite(mem, g, a, i, skip, left, v) ==
    LET unit == Shr(v, i * a)
        at(b) == (b - g.addr) * W - i * a
        new == [b \in DOMAIN mem |->
                  IF at(b) \in Low(a) THEN {j \in Low(W) : at(b) + j \in unit} ELSE mem[b]]
    IN IF left = 0 THEN mem
       ELSE GasWrite(IF skip >= a THEN mem ELSE new, g, a, i + 1,
                     IF skip >= a THEN skip - a ELSE skip, left - Min({left, a}), v)
\* uacpi_system_memory_read and _write take 1, 2, 4 or 8 bytes
HasWidth(n) == n \in {1, 2, 4, 8}
gas_ok(g) == gas_validate(g) /\ (g.off + g.width = 0 \/ HasWidth(gas_get_access_bit_width(g) \div W))

-----------------------------------------------------------------------------
(* Field units *)

\* handle_create_field: the access unit a field starts in, and where in that unit
byte_offset(j) == AlignDown(j.bit \div W, j.width)
bit_offset_within_first_byte(j) == j.bit % (j.width * W)
UnitBits(j) == j.width * W

Th(t) == s.th[t]
\* at: what the thread is about to do; rw: is the access a read?; left, pos, done, in, buf: the locals
Wants(j, x, rw) ==
    [x EXCEPT !.rw = rw, !.at = IF j.lock THEN "lock" ELSE IF j.kind \in {"bank", "index"} THEN "select" ELSE "access"]
Zeros(n) == [i \in Low(n) |-> {}]
Chunk(j, x) == Min({x.left, UnitBits(j) - x.pos})

\* write_generic_field_unit, the head of the loop: a unit that is not written whole is read, or filled
FillWith(j) == [i \in Low(Word) |-> IF j.rule = "ones" THEN Low(W) ELSE {}]
Merge(j, x, in) == bit_copy(in, x.pos, Chunk(j, x), j.src, x.done, (Max(DOMAIN j.src) + 1) * W - x.done)
BugNextWrite(j, x) ==
    IF x.left = 0 THEN [x EXCEPT !.st = "ok"]
    ELSE LET part == Chunk(j, x) < UnitBits(j) - x.pos
         IN IF part /\ j.rule = "preserve" THEN Wants(j, x, "read")
            ELSE Wants(j, [x EXCEPT !.in = Merge(j, x, IF part THEN FillWith(j) ELSE Zeros(Word))], "write")
NextWrite(j, x) ==
    IF x.left = 0 THEN [x EXCEPT !.st = "ok"]
    ELSE LET part == x.pos # 0 \/ Chunk(j, x) < UnitBits(j)
         IN IF part /\ j.rule = "preserve" THEN Wants(j, x, "read")
            ELSE Wants(j, [x EXCEPT !.in = Merge(j, x, IF part THEN FillWith(j) ELSE Zeros(Word))], "write")

\* The next unit; both spans advance by what was copied, the one of the caller's buffer not past its end
Advance(j, x, size) ==
    [x EXCEPT !.left = @ - Chunk(j, x), !.pos = 0, !.off = @ + j.width, !.done = Min({@ + Chunk(j, x), size * W})]

\* uacpi_read_field_unit: a field within one unit is copied; others are put together bit by bit
IsFast(j) == bit_offset_within_first_byte(j) = 0 /\ Bytes(j.len) <= j.width
FastRead(j, out) ==
    LET dst == Zerout([i \in Low(Bytes(j.len)) |-> out[i]], j.size)
    IN IF j.size >= Bytes(j.len) THEN cut_misaligned_tail(dst, Bytes(j.len) - 1, j.len) ELSE dst
SlowRead(j, x, out) ==
    LET y == Advance(j, [x EXCEPT !.buf = bit_copy(@, x.done, j.size * W - x.done, out, x.pos, Chunk(j, x))], j.size)
    IN IF y.left = 0 THEN [y EXCEPT !.st = "ok"] ELSE Wants(j, y, "read")

\* What an access that has succeeded leads to
AfterRead(j, x, out) ==
    CASE j.op = "write" -> Wants(j, [x EXCEPT !.in = Merge(j, x, out)], "write")
      [] j.op = "read" /\ IsFast(j) -> [x EXCEPT !.st = "ok", !.buf = FastRead(j, out)]
      [] OTHER -> SlowRead(j, x, out)
AfterWrite(j, x) == NextWrite(j, Advance(j, x, Max(DOMAIN j.src) + 1))

Begin(j) ==
    LET x == [st |-> "run", at |-> "access", rw |-> "read", off |-> byte_offset(j), left |-> j.len,
              pos |-> bit_offset_within_first_byte(j), done |-> 0, in |-> Zeros(Word), buf |-> Zeros(j.size)]
    IN IF j.op = "write" THEN NextWrite(j, x) ELSE Wants(j, x, "read")

\* access_field_unit takes the global lock for every access of a locked field, and drops it after
TakeLock(t) ==
    /\ Th(t).st = "run" /\ Th(t).at = "lock" /\ s.lock = "none"
    /\ s' = [s EXCEPT !.lock = t, !.th[t].at = IF s.job[t].kind = "plain" THEN "access" ELSE "select"]
\* The bank or the offset is written to its register, which is a field of one unit
Select(t) ==
    /\ Th(t).st = "run" /\ Th(t).at = "select"
    /\ s' = [s EXCEPT !.th[t].at = "access",
                      !.sel[s.job[t].kind] = IF s.job[t].kind = "bank" THEN s.job[t].bank ELSE Th(t).off]

\* uacpi_dispatch_opregion_io: the region, and the place in it, that the handler is called for
Region(j) == IF j.kind = "bank" THEN <<"bank", s.sel.bank>> ELSE <<j.kind, 0>>
Place(j, x) == IF j.kind = "index" THEN s.sel.index ELSE x.off
OutOfBounds(j, x) == j.kind # "index" /\ Sizes[j.kind] < x.off + j.width
Touched(j, x) == {Place(j, x) + i : i \in Low(j.width)}
uacpi_dispatch_opregion_io(t) ==
    LET j == s.job[t]
        x == Th(t)
        r == Region(j)
        free == IF j.lock THEN "none" ELSE s.lock
        out == Zerout([i \in Low(j.width) |-> s.mem[r][Place(j, x) + i]], Word)
        other == CHOOSE u \in Threads : u # t
    IN /\ x.st = "run" /\ x.at = "access"
       /\ s' = IF OutOfBounds(j, x) THEN [s EXCEPT !.lock = free, !.th[t].st = "error"]
               ELSE IF x.rw = "read" THEN [s EXCEPT !.lock = free, !.th[t] = AfterRead(j, x, out)]
               ELSE [s EXCEPT !.lock = free, !.th[t] = AfterWrite(j, x),
                              !.mem[r] = [b \in DOMAIN @ |-> IF b \in Touched(j, x) THEN x.in[b - Place(j, x)] ELSE @[b]],
                              !.foreign[other] = @ \cup (Touched(j, x) \X {r})]

\* A handler may fail, of the region or of the register before it; the lock is released all the same
HandlerFails(t) ==
    /\ Th(t).st = "run" /\ Th(t).at \in {"select", "access"}
    /\ s' = [s EXCEPT !.lock = IF s.job[t].lock THEN "none" ELSE @, !.th[t].st = "error"]

\* Operations on memory that no handler is called for are one step
Immediate(t) ==
    LET j == s.job[t]
        r == <<j.kind, 0>>
        m == s.mem[r]
        a == gas_get_access_bit_width(j.gas)
        total == j.gas.off + j.gas.width
    IN /\ Th(t).st = "run" /\ Th(t).at = "now"
       /\ s' = CASE j.kind = "buffer" /\ j.op = "read" ->
                      [s EXCEPT !.th[t].st = "ok", !.th[t].buf = uacpi_read_buffer_field(m, j.bit, j.len)]
                 [] j.kind = "buffer" /\ j.op = "write" ->
                      [s EXCEPT !.th[t].st = "ok", !.mem[r] = uacpi_write_buffer_field(m, j.bit, j.len, j.src)]
                 [] j.kind = "gas" /\ ~gas_ok(j.gas) -> [s EXCEPT !.th[t].st = "error"]
                 [] j.kind = "gas" /\ gas_ok(j.gas) /\ j.op = "read" ->
                      [s EXCEPT !.th[t].st = "ok", !.th[t].in = GasRead(m, j.gas, a, 0, j.gas.off, total)]
                 [] OTHER -> [s EXCEPT !.th[t].st = "ok",
                                       !.mem[r] = GasWrite(m, j.gas, a, 0, j.gas.off, total, BitsOf(j.src))]

Start(j) ==
    IF j.kind \in {"plain", "bank", "index"} THEN Begin(j)
    ELSE [st |-> IF j.kind = "none" THEN "none" ELSE "run", at |-> "now", in |-> {}, buf |-> <<>>]
Contents(p, n) == [b \in Low(n) |-> {i \in Low(W) : p[((b * W + i) % Len(p)) + 1] = 1}]
Regions == {<<"bank", 0>>, <<"bank", 1>>} \cup {<<k, 0>> : k \in DOMAIN Sizes}
Init == s \in {[mem |-> m, was |-> m, job |-> sc, th |-> [t \in Threads |-> Start(sc[t])],
                lock |-> "none", sel |-> [bank |-> 0, index |-> 0], foreign |-> [t \in Threads |-> {}]] :
                  sc \in Scenes, m \in {[r \in Regions |-> Contents(p, Sizes[r[1]])] : p \in Patterns}}
Next == \E t \in Threads : 
    \/ TakeLock(t) \/ Select(t) \/ uacpi_dispatch_opregion_io(t)
    \/ HandlerFails(t) \/ Immediate(t)

-----------------------------------------------------------------------------
(* Properties *)

BitAt(m, k) == k % W \in m[k \div W]
Home(j) == IF j.kind = "bank" THEN <<"bank", j.bank>> ELSE <<j.kind, 0>>
OwnUnits(j) == byte_offset(j) .. (AlignUp(j.bit + j.len, UnitBits(j)) \div W - 1)
\* What byte b should be after a write: the field's bits, and around them what the update rule says
After(j, old, b) ==
    {i \in Low(W) : LET k == b * W + i IN
        IF k \in j.bit .. (j.bit + j.len - 1) THEN k - j.bit \in BitsOf(j.src)
        ELSE IF j.kind = "buffer" \/ j.rule = "preserve" \/ b \notin OwnUnits(j) THEN BitAt(old, k)
        ELSE j.rule = "ones"}
\* Bank and index registers are shared: fields behind them need the lock if there are other threads
Guarded ==
    \A t \in Threads : s.job[t].kind \in {"bank", "index"} =>
        s.job[t].lock \/ \A u \in Threads \ {t} : s.job[u].kind # s.job[t].kind

\* A field that was written holds the value, cut or filled with zeros to its length, and every bit
\* around it is what the update rule says, for every offset, length, width and kind of field; a write
\* that failed at the end of the region has left each byte old or new.  Bytes that the other thread
\* has written meanwhile are excepted, no others.
WritesExact ==
    Guarded => \A t \in Threads :
        LET j == s.job[t]
            m == s.mem[Home(j)]
            old == s.was[Home(j)]
        IN j.kind \notin {"none", "gas"} /\ j.op = "write" => \A b \in DOMAIN m : <<b, Home(j)>> \notin s.foreign[t] =>
             /\ s.th[t].st = "ok" => m[b] = After(j, old, b)
             /\ s.th[t].st = "error" => m[b] \in {old[b], After(j, old, b)}

\* A field that was read is its bits, zeros behind them, with the same exception.
ReadsExact ==
    Guarded => \A t \in Threads :
        LET j == s.job[t]
        IN j.kind \notin {"none", "gas"} /\ j.op = "read" /\ s.th[t].st = "ok" =>
             \A k \in Bits(s.th[t].buf) :
                 \/ k < j.len /\ <<(j.bit + k) \div W, Home(j)>> \in s.foreign[t]
                 \/ BitAt(s.th[t].buf, k) = (k < j.len /\ BitAt(s.was[Home(j)], j.bit + k))

\* A generic register is accessed in whole units, from the one its bit offset lies in.
RegistersExact ==
    \A t \in Threads :
        LET j == s.job[t]
            a == gas_get_access_bit_width(j.gas)
            span == AlignDown(j.gas.off, a) .. (AlignUp(j.gas.off + j.gas.width, a) - 1)
            bit(m, k) == BitAt(m[<<"gas", 0>>], j.gas.addr * W + k)
        IN j.kind = "gas" /\ s.th[t].st = "ok" =>
             \A k \in Low(Word * W) :
                 IF j.op = "read" THEN (k \in s.th[t].in) = (k \in span /\ bit(s.mem, k))
                 ELSE bit(s.mem, k) = IF k \in span THEN k \in BitsOf(j.src) ELSE bit(s.was, k)

\* The lock is held by a thread that is making an access of a locked field, and by no other: it is not
\* lost on an error.  Under it the bank or index register still holds what the thread wrote when it makes its access.
SelectionHeld ==
    /\ \A t \in Threads : (s.lock = t) = (s.th[t].st = "run" /\ s.th[t].at # "now" /\ s.job[t].lock /\ s.th[t].at # "lock")
    /\ Guarded => \A t \in Threads :
        LET j == s.job[t] IN s.th[t].st = "run" /\ s.th[t].at = "access" =>
            /\ j.kind = "bank" => s.sel.bank = j.bank
            /\ j.kind = "index" => s.sel.index = s.th[t].off
=============================================================================
