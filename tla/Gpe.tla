-------------------------------- MODULE Gpe ---------------------------------
(***************************************************************************)
(* General purpose events of uACPI (src/src/uacpi/event.c): the events of  *)
(* one register pair, what interrupt, deferred work and the API do to      *)
(* them.  Three actors: the thread that calls the API (under g_event_lock, *)
(* so one call at a time), the interrupt, which cuts in between any two of *)
(* its steps, and the worker that runs what the interrupt scheduled.       *)
(*                                                                         *)
(* Two hosts: the one that kernel_api.h asks for (spinlocks disable        *)
(* interrupts, work is run), and this kernel (src/src/cpu/kernel_api.c:    *)
(* spinlocks do nothing, no work is accepted).                             *)
(***************************************************************************)
EXTENDS Integers, Sequences, Folds

CONSTANTS
    Events,    \* the events of the register, 0 .. 7 in the code
    Devices,   \* devices for implicit notifications
    MaxUsers,  \* num_users saturates here, 0xFF in the code
    MaxWork,   \* bound: the longest queue of scheduled work
    IrqOff,    \* uacpi_kernel_lock_spinlock disables interrupts
    Works,     \* uacpi_kernel_schedule_work accepts and runs work
    IoFails,   \* writing the enable register may fail
    Calls      \* the calls the client makes

VARIABLES
    hw,    \* the two registers: status and enable bits
    reg,   \* struct gpe_register: runtime, wake, masked and current mask
    ev,    \* struct gp_event of every event
    todo,  \* what is left of the call of the thread, and of the worker's item
    work,  \* scheduled work
    done,  \* g_gpes_finalized
    owed,  \* ghost: events dispatched and not given back since
    asked  \* ghost: events the client has masked and not unmasked

vars == <<hw, reg, ev, todo, work, done, owed, asked>>
Actors == {"thread", "worker"}

\* What install_gpe_handler preserves: previous_handler_type and so on.
NoSaved == [type |-> "none", ptr |-> "none", trig |-> "level", enabled |-> FALSE]

\* do_match_gpe_methods: \_GPE has a method _Lxx or _Exx for some of the events.
MatchedEvent(t) ==
    [users |-> 0, type |-> IF t = "none" THEN "none" ELSE "aml",
     ptr |-> IF t = "none" THEN "none" ELSE "aml",
     trig |-> IF t = "none" THEN "level" ELSE t, wake |-> FALSE, block |-> FALSE,
     saved |-> NoSaved, devices |-> {}]

\* create_gpe_block disables and clears all events of the block.
Init ==
    /\ hw = [status |-> {}, enable |-> {}]
    /\ reg = [runtime |-> {}, wake |-> {}, masked |-> {}, current |-> {}]
    /\ \E t \in [Events -> {"none", "level", "edge"}] :
           ev = [e \in Events |-> MatchedEvent(t[e])]
    /\ todo = [a \in Actors |-> <<>>]
    /\ work = <<>>
    /\ done = FALSE
    /\ owed = {}
    /\ asked = {}

-----------------------------------------------------------------------------
(***************************************************************************)
(* Calls are lists of steps.  Software state that no other actor touches   *)
(* decides which; the steps themselves are what an interrupt can separate. *)
(***************************************************************************)
SetState(e, state, undo) == <<[op |-> "set", e |-> e, state |-> state, undo |-> undo]>>
Do(op, e) == <<[op |-> op, e |-> e]>>
Put(op, e, v) == <<[op |-> op, e |-> e, v |-> v]>>

Maybe(p, steps) == IF p THEN steps ELSE <<>>

\* What is done for each event of S, the lowest first
ForEach(steps(_), S) ==
    MapThenFoldSet(LAMBDA p, q : p \o q, <<>>, steps, LAMBDA T : CHOOSE e \in T : \A f \in T : e <= f, S)

gpe_add_user(e) ==
    IF ev[e].users = MaxUsers THEN <<>>
    ELSE Put("users", e, 1) \o Maybe(ev[e].users = 0, SetState(e, "enabled", -1))

gpe_remove_user(e) ==
    IF ev[e].users = 0 THEN <<>>
    ELSE Put("users", e, -1) \o Maybe(ev[e].users = 1, SetState(e, "disabled", 1))

BugRestore(e) ==  \* block_interrupts stays set
    Maybe(ev[e].trig = "level", Do("clear", e)) \o SetState(e, "restored", 0)

restore_gpe(e) ==
    Maybe(ev[e].trig = "level", Do("clear", e))
        \o SetState(e, "restored", 0) \o Put("block", e, FALSE)

MaskSteps(e) ==
    IF e \in reg.masked THEN <<>>
    ELSE Do("mask", e) \o Do("wait", e) \o SetState(e, "disabled", 0) \o Do("wait", e)

\* gpe_mask_safe, steps, and the unmasking that undoes it
Masked(e, steps) ==
    IF e \in reg.current THEN MaskSteps(e) \o steps \o Do("unmask", e) ELSE steps

Calls1 == [
    enable |-> [e \in Events |->
        Maybe(ev[e].type # "none",
              Maybe(ev[e].users = 0, Do("clear", e)) \o gpe_add_user(e) \o Do("poll", e))],
    disable |-> [e \in Events |-> gpe_remove_user(e)],
    clear |-> [e \in Events |-> Do("clear", e)],
    suspend |-> [e \in Events |-> Put("block", e, TRUE) \o SetState(e, "disabled", 0)],
    resume |-> [e \in Events |-> Put("block", e, FALSE) \o SetState(e, "enabled", 0)],
    finish |-> [e \in Events |-> restore_gpe(e)],
    mask |-> [e \in Events |-> MaskSteps(e)],
    unmask |-> [e \in Events |-> Maybe(e \in reg.masked, Do("unmask", e))]]

Call(name, steps) ==
    /\ todo["thread"] = <<>>
    /\ name \in Calls
    /\ todo' = [todo EXCEPT !["thread"] = steps]

\* uacpi_enable_gpe, uacpi_disable_gpe, uacpi_clear_gpe, uacpi_suspend_gpe,
\* uacpi_resume_gpe, uacpi_finish_handling_gpe, uacpi_mask_gpe, uacpi_unmask_gpe
SimpleCall(e) ==
    /\ \E c \in DOMAIN Calls1 :
           /\ Call(c, Calls1[c][e])
           /\ asked' = CASE c = "mask" -> asked \cup {e} [] c = "unmask" -> asked \ {e}
                         [] OTHER -> asked
    /\ UNCHANGED <<hw, reg, ev, work, done, owed>>

HasAml(e) == ev[e].type \in {"aml", "implicit"}

BugInstallHandler(e, type, trig) ==  \* the event is not masked meanwhile
    /\ ev[e].type \notin {"native", "raw"}
    /\ LET taken == HasAml(e) /\ ev[e].users # 0
       IN  /\ Call("install", Maybe(taken, gpe_remove_user(e)) \o Put("ptr", e, "native")
                                  \o Put("type", e, type) \o Put("trig", e, trig))
           /\ ev' = [ev EXCEPT ![e].saved =
                        [type |-> ev[e].type, ptr |-> ev[e].ptr, trig |-> ev[e].trig,
                         enabled |-> taken]]
    /\ UNCHANGED <<hw, reg, work, done, owed, asked>>

\* do_install_gpe_handler
InstallHandler(e, type, trig) ==
    /\ ev[e].type \notin {"native", "raw"}
    /\ LET taken == HasAml(e) /\ ev[e].users # 0
       IN  /\ Call("install",
                   Masked(e, Maybe(taken, gpe_remove_user(e)) \o Put("ptr", e, "native")
                                \o Put("type", e, type) \o Put("trig", e, trig)))
           /\ ev' = [ev EXCEPT ![e].saved =
                        [type |-> ev[e].type, ptr |-> ev[e].ptr, trig |-> ev[e].trig,
                         enabled |-> taken]]
    /\ UNCHANGED <<hw, reg, work, done, owed, asked>>

\* uacpi_uninstall_gpe_handler: back to what was there, and poll an edge that
\* may have been missed.
UninstallHandler(e) ==
    /\ ev[e].type \in {"native", "raw"}
    /\ LET saved == ev[e].saved
           again == saved.type \in {"aml", "implicit"} /\ saved.enabled
       IN  Call("uninstall",
                Masked(e, Put("ptr", e, saved.ptr) \o Put("trig", e, saved.trig)
                             \o Put("type", e, saved.type) \o Maybe(again, gpe_add_user(e)))
                    \o Do("poll", e))
    /\ ev' = [ev EXCEPT ![e].saved = NoSaved]
    /\ UNCHANGED <<hw, reg, work, done, owed, asked>>

\* uacpi_setup_gpe_for_wake, without and with a device to notify; the
\* allocation of the list entry may fail.
SetupForWake(e, d, allocated) ==
    LET E == ev[e]
        lists == d # "none" /\ E.type \in {"none", "implicit"}
        known == lists /\ d \in E.devices
        added == lists /\ ~known /\ allocated
        steps == Maybe(lists /\ E.type = "none", Put("type", e, "implicit") \o Put("trig", e, "level"))
                     \o Maybe(added, Put("ptr", e, "implicit"))
                     \o Maybe(d # "none" /\ E.type = "aml", gpe_remove_user(e))
    IN  /\ Call("setup_wake", Masked(e, steps))
        /\ ev' = [ev EXCEPT ![e].wake = @ \/ ~known,
                            ![e].devices = IF added THEN @ \cup {d} ELSE @]
        /\ UNCHANGED <<hw, reg, work, done, owed, asked>>

\* gpe_enable_disable_for_wake: `wake_mask &= mask' keeps nothing but the event.
EnableForWake(e) ==
    /\ Call("wake", <<>>)
    /\ ev[e].wake
    /\ reg' = [reg EXCEPT !.wake = @ \cup {e}]
    /\ UNCHANGED <<hw, ev, work, done, owed, asked>>
DisableForWake(e) ==
    /\ Call("wake", <<>>)
    /\ ev[e].wake
    /\ reg' = [reg EXCEPT !.wake = @ \cap {e}]
    /\ UNCHANGED <<hw, ev, work, done, owed, asked>>

\* gpe_block_apply_action for uacpi_disable_all_gpes,
\* uacpi_enable_all_runtime_gpes, uacpi_enable_all_wake_gpes
ForAllGpes ==
    /\ \E value \in {{}, reg.runtime \ reg.masked, reg.wake} :
           /\ Call("all", Put("enable", 0, value))
           /\ reg' = [reg EXCEPT !.current = value]
    /\ UNCHANGED <<hw, ev, work, done, owed, asked>>

\* uacpi_finalize_gpe_initialization
Finalize ==
    /\ ~done
    /\ done' = TRUE
    /\ LET steps(e) == Maybe(~ev[e].wake /\ ev[e].type = "aml", gpe_add_user(e))
           polls == \E e \in Events : ~ev[e].wake /\ ev[e].type = "aml" /\ ev[e].trig = "edge"
       IN  Call("finalize", ForEach(steps, Events) \o Maybe(polls, Do("detect", 0)))
    /\ UNCHANGED <<hw, reg, ev, work, owed, asked>>

-----------------------------------------------------------------------------
(* The steps *)

At(a, op) == todo[a] # <<>> /\ Head(todo[a]).op = op
Cur(a) == Head(todo[a])
Then(a, steps) == todo' = [todo EXCEPT ![a] = steps \o Tail(@)]

\* gp_event_toggle_masks and the count of users
Toggled(r, e, users) ==
    LET rt == IF users = 0 THEN r.runtime \ {e} ELSE r.runtime \cup {e}
    IN  [r EXCEPT !.runtime = rt, !.current = rt]

BugCountUser(a) ==  \* the masks follow every user
    /\ At(a, "users")
    /\ LET e == Cur(a).e
           n == ev[e].users + Cur(a).v
       IN  /\ ev' = [ev EXCEPT ![e].users = n]
           /\ reg' = Toggled(reg, e, IF Cur(a).v = 1 THEN n ELSE 0)
    /\ Then(a, <<>>)
    /\ UNCHANGED <<hw, work, done, owed, asked>>

CountUser(a) ==
    /\ At(a, "users")
    /\ LET e == Cur(a).e
           n == ev[e].users + Cur(a).v
       IN  /\ ev' = [ev EXCEPT ![e].users = n]
           /\ reg' = IF n = 0 \/ (n = 1 /\ Cur(a).v = 1) THEN Toggled(reg, e, n) ELSE reg
    /\ Then(a, <<>>)
    /\ UNCHANGED <<hw, work, done, owed, asked>>

\* set_gpe_state looks at the masks without the lock ...
Skips(e, state) ==
    \/ state # "disabled" /\ e \in reg.masked
    \/ state \in {"conditionally", "restored"} /\ e \notin reg.current
CheckState(a) ==
    /\ At(a, "set")
    /\ IF Skips(Cur(a).e, Cur(a).state) THEN Then(a, <<>>)
       ELSE Then(a, <<[op |-> "write", e |-> Cur(a).e, v |-> Cur(a).state # "disabled",
                       undo |-> Cur(a).undo]>>)
    /\ owed' = IF Cur(a).state = "restored" THEN owed \ {Cur(a).e} ELSE owed
    /\ UNCHANGED <<hw, reg, ev, work, done, asked>>

With(bits, e, on) == IF on THEN bits \cup {e} ELSE bits \ {e}

\* ... and reads and writes the enable register with it: in one step where
\* the lock keeps interrupts out, in two where it does not.  Who counted a
\* user before takes it back on an error.
WriteFails(a) ==
    /\ IoFails
    /\ At(a, "write")
    /\ Then(a, Maybe(Cur(a).undo # 0, Put("users", Cur(a).e, Cur(a).undo)))
    /\ UNCHANGED <<hw, reg, ev, work, done, owed, asked>>
WriteState(a) ==
    /\ At(a, "write")
    /\ IF IrqOff
       THEN /\ hw' = [hw EXCEPT !.enable = With(@, Cur(a).e, Cur(a).v)]
            /\ Then(a, <<>>)
       ELSE /\ Then(a, Put("store", Cur(a).e, With(hw.enable, Cur(a).e, Cur(a).v)))
            /\ UNCHANGED hw
    /\ UNCHANGED <<reg, ev, work, done, owed, asked>>
StoreState(a) ==
    /\ \/ At(a, "store")
       \/ At(a, "enable")  \* gpe_block_apply_action
    /\ hw' = [hw EXCEPT !.enable = Cur(a).v]
    /\ Then(a, <<>>)
    /\ UNCHANGED <<reg, ev, work, done, owed, asked>>

MaskStep(a) ==
    /\ At(a, "mask")
    /\ reg' = [reg EXCEPT !.masked = @ \cup {Cur(a).e}]
    /\ Then(a, <<>>)
    /\ UNCHANGED <<hw, ev, work, done, owed, asked>>

UnmaskStep(a) ==
    /\ At(a, "unmask")
    /\ LET e == Cur(a).e
       IN  /\ reg' = [reg EXCEPT !.masked = @ \ {e}]
           /\ Then(a, Maybe(~ev[e].block /\ ev[e].users # 0, SetState(e, "conditionally", 0)))
    /\ UNCHANGED <<hw, ev, work, done, owed, asked>>

\* uacpi_kernel_wait_for_work_completion
WaitForWork(a) ==
    /\ At(a, "wait")
    /\ work = <<>> /\ todo["worker"] = <<>>
    /\ Then(a, <<>>)
    /\ UNCHANGED <<hw, reg, ev, work, done, owed, asked>>

clear_gpe(a) ==
    /\ At(a, "clear")
    /\ hw' = [hw EXCEPT !.status = @ \ {Cur(a).e}]
    /\ Then(a, <<>>)
    /\ UNCHANGED <<reg, ev, work, done, owed, asked>>

SetField(a) ==
    /\ \E f \in {"block", "ptr", "type", "trig"} :
           At(a, f) /\ ev' = [ev EXCEPT ![Cur(a).e] = [@ EXCEPT ![f] = Cur(a).v]]
    /\ Then(a, <<>>)
    /\ UNCHANGED <<hw, reg, work, done, owed, asked>>

\* dispatch_gpe from the thread: maybe_dispatch_gpe, and detect_gpes after
\* finalization
DispatchSteps(e) ==
    IF ev[e].type = "raw" THEN Do("callback", e)
    ELSE SetState(e, "disabled", 0) \o Put("block", e, TRUE)
             \o Maybe(ev[e].trig = "edge", Do("clear", e)) \o Do("callback", e)
Poll(a) ==
    /\ \/ /\ At(a, "poll")
          /\ LET e == Cur(a).e
             IN  Then(a, Maybe(ev[e].users # 0 /\ ev[e].trig = "edge" /\ e \in hw.status,
                               DispatchSteps(e)))
       \/ /\ At(a, "detect")
          /\ Then(a, Maybe(reg.runtime \cup reg.wake # {},
                           ForEach(DispatchSteps, hw.status \cap hw.enable)))
    /\ UNCHANGED <<hw, reg, ev, work, done, owed, asked>>

\* The work that a handler in AML needs
Schedule(e) == IF Works /\ HasAml(e) THEN <<<<"run", e>>>> ELSE <<>>

\* The callback returns UACPI_GPE_REENABLE or not; AML is scheduled.
Callback(a) ==
    /\ At(a, "callback")
    /\ Len(work) < MaxWork
    /\ LET e == Cur(a).e
       IN  /\ \E reenable \in BOOLEAN :
                 Then(a, Maybe(ev[e].type = "native" /\ reenable, restore_gpe(e)))
           /\ work' = work \o Schedule(e)
           /\ owed' = IF ev[e].type = "raw" THEN owed ELSE owed \cup {e}
    /\ UNCHANGED <<hw, reg, ev, done, asked>>

Step(a) ==
    \/ CountUser(a) \/ CheckState(a) \/ WriteFails(a) \/ WriteState(a) \/ StoreState(a) \/ MaskStep(a)
    \/ UnmaskStep(a) \/ WaitForWork(a) \/ clear_gpe(a) \/ SetField(a) \/ Poll(a) \/ Callback(a)

-----------------------------------------------------------------------------
(* The worker: async_run_gpe_handler schedules async_restore_gpe, or calls it *)
(* when that fails                                                          *)

TakeWork ==
    /\ work # <<>> /\ todo["worker"] = <<>>
    /\ LET e == Head(work)[2]
       IN  \/ /\ Head(work)[1] = "run"
              /\ work' = Append(Tail(work), <<"restore", e>>)
              /\ UNCHANGED todo
           \/ /\ work' = Tail(work)
              /\ todo' = [todo EXCEPT !["worker"] = restore_gpe(e)]
    /\ UNCHANGED <<hw, reg, ev, done, owed, asked>>

-----------------------------------------------------------------------------
(* The interrupt: handle_sci, detect_gpes and dispatch_gpe, in one step *)

\* re: the events whose callback returns UACPI_GPE_REENABLE
BugDispatch(e, re) ==  \* a handler that wants it does not get the event back
    IF ev[e].type = "raw" THEN [enable |-> TRUE, status |-> e \notin re, block |-> ev[e].block]
    ELSE [enable |-> FALSE, status |-> ev[e].trig # "edge",
          block |-> ~(ev[e].type = "native" /\ e \in re)]

\* What becomes of the event's enable and status bits and of block_interrupts
dispatch_gpe(e, re) ==
    IF ev[e].type = "raw" THEN [enable |-> TRUE, status |-> e \notin re, block |-> ev[e].block]
    ELSE LET again == ev[e].type = "native" /\ e \in re
         IN  [enable |-> again /\ ~Skips(e, "conditionally"), status |-> ev[e].trig # "edge" /\ ~again,
              block |-> ~again]

Interrupt ==
    /\ reg.runtime # {} \/ reg.wake # {}
    /\ Len(work) < MaxWork
    /\ LET hit == hw.status \cap hw.enable
       IN  /\ hit # {}
           /\ \E re \in SUBSET Events :
                  /\ hw' = [status |-> {e \in hw.status : e \in hit => dispatch_gpe(e, re).status},
                            enable |-> {e \in hw.enable : e \in hit => dispatch_gpe(e, re).enable}]
                  /\ ev' = [e \in Events |-> IF e \in hit THEN [ev[e] EXCEPT !.block = dispatch_gpe(e, re).block]
                                             ELSE ev[e]]
                  /\ owed' = (owed \cup {e \in hit : ev[e].type # "raw"})
                                  \ {e \in hit \cap re : ev[e].type = "native"}
           /\ work' = work \o ForEach(Schedule, hit)
    /\ UNCHANGED <<reg, todo, done, asked>>

DeviceRaises(e) ==
    /\ hw' = [hw EXCEPT !.status = @ \cup {e}]
    /\ e \notin hw.status
    /\ UNCHANGED <<reg, ev, todo, work, done, owed, asked>>

Next ==
    \/ \E e \in Events :
           \/ SimpleCall(e) \/ UninstallHandler(e) \/ EnableForWake(e) \/ DisableForWake(e)
           \/ \E type \in {"native", "raw"}, trig \in {"level", "edge"} : InstallHandler(e, type, trig)
           \/ \E d \in Devices \cup {"none"}, ok \in BOOLEAN : SetupForWake(e, d, ok)
           \/ DeviceRaises(e)
    \/ ForAllGpes
    \/ Finalize
    \/ \E a \in Actors : Step(a)
    \/ TakeWork
    \/ Interrupt

Spec == Init /\ [][Next]_vars

\* The host runs scheduled work, calls go on once made, and an interrupt that
\* is asserted arrives.
FairSpec ==
    /\ Spec
    /\ WF_vars(TakeWork) /\ WF_vars(Interrupt)
    /\ \A a \in Actors : WF_vars(Step(a))

-----------------------------------------------------------------------------
(* Properties *)

Idle == \A a \in Actors : todo[a] = <<>>

\* uacpi_enable_gpe: "Internally this uses reference counting to make sure a
\* GPE is not disabled until all possible users of it do so."
UsersMatchMask == Idle => \A e \in Events : e \in reg.runtime <=> ev[e].users > 0

\* uacpi_mask_gpe: "The only way to enable a masked event is by a call to
\* unmask": once the call has returned no interrupt and no work enables it.
MaskedStaysOff ==
    todo["thread"] = <<>> => reg.masked \cap hw.enable = {}

\* Does not hold (README, "What does not hold").
\* "The only way to enable a masked event is by a call to unmask": a mask that
\* the client set is there until the client takes it back.
ClientMaskKept == Idle => asked \subseteq reg.masked

\* No event gets lost: one that has users, is not masked and is not being
\* handled can interrupt, whatever handlers came and went in between and
\* however restore_gpe raced with the next interrupt.
NoLostEvent ==
    Idle /\ work = <<>> => reg.runtime \ reg.masked \subseteq hw.enable \cup owed

\* gpe_mask_safe: "This makes sure we can't get an IRQ in the middle of
\* modifying this event's structures": an event that can interrupt has a
\* handler pointer of the kind its handler type says.
HandlerMatches ==
    reg.runtime \cup reg.wake # {} => \A e \in hw.enable \cap hw.status :
        ev[e].ptr \in CASE ev[e].type = "raw" -> {"native"}
                         [] ev[e].type = "implicit" -> {"implicit", "none"}  \* an empty list
                         [] OTHER -> {ev[e].type}

\* An event whose AML handler was scheduled is given back: it does not stay
\* blocked for ever, unless it is suspended again.
HandledEventReturns ==
    \A e \in Events : (ev[e].block /\ HasAml(e)) ~> (~ev[e].block \/ ~HasAml(e))
=============================================================================
