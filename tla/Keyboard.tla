------------------------------ MODULE Keyboard ------------------------------
(***************************************************************************)
(* From the key to the line (src/src/drivers/keyboard.c, and sleep of      *)
(* src/src/cpu/apic_timer.c).  Two threads of control: the interrupt       *)
(* handler, which fills a ring buffer, and the shell, which empties it,    *)
(* decodes the codes, edits the line, and sleeps until the next timer tick *)
(* when there is nothing to do.  The handler runs between any two memory   *)
(* accesses of the shell; the shell never runs inside the handler.         *)
(*                                                                         *)
(* A scan code is a key and its release bit, or the prefix E0.             *)
(***************************************************************************)
EXTENDS Integers, Sequences

CONSTANTS
    KBD_BUF,   \* slots of the ring
    LineSize,  \* sizeof(line)
    Keys       \* the keys of the keyboard, of the classes below

Code(k, up) == [key |-> k, up |-> up]
E0 == Code("prefix", TRUE)
Codes == [key : Keys, up : BOOLEAN] \cup {E0}

ASSUME KeyboardAssumption ==
    /\ KBD_BUF \in Nat \ {0}
    /\ LineSize \in Nat \ {0}
    /\ Keys \subseteq {"shift", "caps", "letter", "digit", "enter", "back", "other"}

VARIABLES
    kbd_buf, kbd_head, kbd_tail,            \* the ring
    extended, shift_down, caps_lock, line,  \* the decoder and the line editor
    pc, sc,                                 \* the shell, and the code it has read
    ticked,                                 \* apic_ticks moved since sleep began
    taken,                                  \* ghost: the last code taken out
    held, prefixed, caps, lost              \* ghost: the keyboard (see below)

ring == <<kbd_buf, kbd_head, kbd_tail>>
decoder == <<extended, shift_down, caps_lock, line>>
keyboard == <<held, prefixed, caps, lost>>
vars == <<ring, decoder, pc, sc, ticked, taken, keyboard>>

Slots == 0 .. KBD_BUF - 1
NextSlot(k) == (k + 1) % KBD_BUF

Init ==
    /\ kbd_buf = [k \in Slots |-> E0]  \* never read before it is written
    /\ kbd_head = 0 /\ kbd_tail = 0
    /\ extended = FALSE /\ shift_down = FALSE /\ caps_lock = FALSE
    /\ line = <<>>
    /\ pc = "poll" /\ sc = E0
    /\ ticked = FALSE
    /\ taken = E0
    /\ held = FALSE /\ prefixed = FALSE /\ caps = FALSE /\ lost = FALSE

-----------------------------------------------------------------------------
(***************************************************************************)
(* The keyboard, a device: held says that shift is down, prefixed that E0  *)
(* was sent and its code was not, caps is the parity of the presses of     *)
(* caps lock, and lost says that the handler dropped a code.  Keys repeat. *)
(***************************************************************************)
Emits(c) ==
    \/ /\ c = E0
       /\ ~prefixed
       /\ prefixed' = TRUE
       /\ UNCHANGED <<held, caps>>
    \/ /\ c # E0 /\ prefixed              \* the code of an extended key
       /\ prefixed' = FALSE
       /\ UNCHANGED <<held, caps>>
    \/ /\ c # E0 /\ ~prefixed
       /\ c = Code("shift", TRUE) => held
       /\ held' = IF c.key = "shift" THEN ~c.up ELSE held
       /\ caps' = (caps # (c.key = "caps" /\ ~c.up))
       /\ UNCHANGED prefixed

\* An interrupt ends hlt; sleep then looks at the tick counter again.
Wakes == pc' = IF pc = "halted" THEN "sleep" ELSE pc

BugStore(c) ==  \* no test for a full ring
    /\ kbd_buf' = [kbd_buf EXCEPT ![kbd_head] = c]
    /\ kbd_head' = NextSlot(kbd_head)
    /\ lost' = lost

\* The ring keeps one slot empty: a code that would fill it is dropped.
Store(c) ==
    IF NextSlot(kbd_head) # kbd_tail
    THEN /\ kbd_buf' = [kbd_buf EXCEPT ![kbd_head] = c]
         /\ kbd_head' = NextSlot(kbd_head)
         /\ lost' = lost
    ELSE lost' = TRUE /\ UNCHANGED <<kbd_buf, kbd_head>>

keyboardhandler(c) ==
    /\ Emits(c)
    /\ Store(c)
    /\ Wakes
    /\ UNCHANGED <<kbd_tail, decoder, sc, ticked, taken>>

BugTimer ==  \* the tick is not counted
    /\ Wakes
    /\ UNCHANGED <<ring, decoder, sc, ticked, taken, keyboard>>

apic_timer_handler ==
    /\ ticked' = TRUE
    /\ Wakes
    /\ UNCHANGED <<ring, decoder, sc, taken, keyboard>>

-----------------------------------------------------------------------------
(* handle_scancode and line_input *)

line_input(ch) ==
    line' = CASE ch.key = "enter" -> <<>>   \* run_line, and an empty line
              [] ch.key = "back" -> IF line = <<>> THEN line
                                    ELSE SubSeq(line, 1, Len(line) - 1)
              [] OTHER -> IF Len(line) < LineSize - 1 THEN Append(line, ch) ELSE line

Char(k) ==
    [key |-> k, upper |-> (shift_down # (caps_lock /\ k = "letter"))]

BugDecode(c) ==  \* the release of shift is taken for a press
    /\ extended' = (c = E0)
    /\ IF c = E0 \/ extended THEN UNCHANGED <<shift_down, caps_lock, line>>
       ELSE /\ shift_down' = (shift_down \/ c.key = "shift")
            /\ caps_lock' = (caps_lock # (c.key = "caps" /\ ~c.up))
            /\ IF c.up \/ c.key \in {"shift", "caps", "other"} THEN UNCHANGED line
               ELSE line_input(Char(c.key))

handle_scancode(c) ==
    /\ extended' = (c = E0)
    /\ IF c = E0 \/ extended THEN UNCHANGED <<shift_down, caps_lock, line>>
       ELSE /\ shift_down' = IF c.key = "shift" THEN ~c.up ELSE shift_down
            /\ caps_lock' = IF c.key = "caps" /\ ~c.up THEN ~caps_lock ELSE caps_lock
            /\ IF c.up \/ c.key \in {"shift", "caps", "other"} THEN UNCHANGED line
               ELSE line_input(Char(c.key))

-----------------------------------------------------------------------------
(* shell_run: keyboard_idle for ever *)

\* keyboard_poll tests for a code ...
Poll ==
    /\ pc = "poll"
    /\ pc' = IF kbd_tail # kbd_head THEN "read" ELSE "idle"
    /\ UNCHANGED <<ring, decoder, sc, ticked, taken, keyboard>>

\* ... reads it ...
PollRead ==
    /\ pc = "read"
    /\ sc' = kbd_buf[kbd_tail]
    /\ pc' = "advance"
    /\ UNCHANGED <<ring, decoder, ticked, taken, keyboard>>

\* ... gives up its slot ...
PollAdvance ==
    /\ pc = "advance"
    /\ kbd_tail' = NextSlot(kbd_tail)
    /\ taken' = sc
    /\ pc' = "handle"
    /\ UNCHANGED <<kbd_buf, kbd_head, decoder, sc, ticked, keyboard>>

\* ... and decodes it.
PollHandle ==
    /\ pc = "handle"
    /\ handle_scancode(sc)
    /\ pc' = "poll"
    /\ UNCHANGED <<ring, sc, ticked, taken, keyboard>>

\* keyboard_idle sleeps for one tick if the ring is still empty.
Idle ==
    /\ pc = "idle"
    /\ IF kbd_tail = kbd_head
       THEN pc' = "sleep" /\ ticked' = FALSE  \* sleep(1): start = apic_ticks
       ELSE pc' = "poll" /\ UNCHANGED ticked
    /\ UNCHANGED <<ring, decoder, sc, taken, keyboard>>

\* The loop of sleep: hlt waits for an interrupt, even if the tick it needs
\* came after the test.
Sleep ==
    /\ pc = "sleep"
    /\ pc' = IF ticked THEN "poll" ELSE "halted"
    /\ UNCHANGED <<ring, decoder, sc, ticked, taken, keyboard>>

Shell == Poll \/ PollRead \/ PollAdvance \/ PollHandle \/ Idle \/ Sleep

Next ==
    \/ Shell
    \/ \E c \in Codes : keyboardhandler(c)
    \/ apic_timer_handler

Spec == Init /\ [][Next]_vars

\* The shell is the only thread, and the timer is periodic and not masked
\* while the shell waits.
FairSpec == Spec /\ WF_vars(Shell) /\ WF_vars(apic_timer_handler)

-----------------------------------------------------------------------------
(* Properties *)

\* Ring indices are slots, and the line leaves room for its terminator.
TypeOK ==
    /\ kbd_buf \in [Slots -> Codes]
    /\ kbd_head \in Slots /\ kbd_tail \in Slots
    /\ extended \in BOOLEAN /\ shift_down \in BOOLEAN /\ caps_lock \in BOOLEAN
    /\ line \in Seq([key : Keys, upper : BOOLEAN]) /\ Len(line) <= LineSize - 1
    /\ pc \in {"poll", "read", "advance", "handle", "idle", "sleep", "halted"}
    /\ sc \in Codes /\ taken \in Codes
    /\ ticked \in BOOLEAN /\ lost \in BOOLEAN

\* The codes that wait in the ring, oldest first.
Waiting == IF kbd_head >= kbd_tail THEN kbd_head - kbd_tail
           ELSE kbd_head + KBD_BUF - kbd_tail
SlotOf(k) == IF kbd_tail + k - 1 < KBD_BUF THEN kbd_tail + k - 1
             ELSE kbd_tail + k - 1 - KBD_BUF
Queue == [k \in 1 .. Waiting |-> kbd_buf[SlotOf(k)]]

Fifo == INSTANCE BoundedFifo WITH Capacity <- KBD_BUF - 1, queue <- Queue

\* Wherever the interrupt handler cuts in, the ring is a queue: it loses,
\* repeats and reorders no code, and drops one only when all slots but one
\* are taken.
RingIsFifo == Fifo!Spec

\* If no code was dropped, the decoder follows the keyboard: when all codes
\* are handled, shift_down, caps_lock and extended are what was typed.
DecoderInStep ==
    ~lost /\ Waiting = 0 /\ pc \in {"poll", "idle", "sleep", "halted"} =>
        /\ shift_down = held
        /\ caps_lock = caps
        /\ extended = prefixed

\* A code in the ring is taken out, at the latest after the next timer tick:
\* the wake-up that sleep may lose between its test and hlt only costs time.
CodesAreTaken ==
    \A t \in Slots : (kbd_tail = t /\ kbd_head # t) ~> kbd_tail # t
=============================================================================
