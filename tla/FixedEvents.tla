---------------------------- MODULE FixedEvents -----------------------------
(***************************************************************************)
(* The fixed events of ACPI (src/src/uacpi/event.c): handlers of the client  *)
(* and of the global lock, the enable and status registers, and the SCI      *)
(* handler that may cut in between any two steps of a call.                  *)
(***************************************************************************)
EXTENDS Integers, Sequences

CONSTANT Events   \* fixed events, numbered; 0 is the global lock's

Last == CHOOSE e \in Events : \A d \in Events : d <= e
Served == Events \ {Last}      \* the loops stop before UACPI_FIXED_EVENT_MAX
GlobalLock == 0
Null == "none"

VARIABLES
    status, enable,   \* bits of PM1_STS and PM1_EN that are set
    stuck,            \* events this hardware does not have
    facs,             \* whether there is a FACS
    handler,          \* fixed_event_handlers
    has_global_lock,
    phase,            \* "boot", "early", "on" (SCI installed) or "off"
    todo              \* steps that the running call has left

vars == <<status, enable, stuck, facs, handler, has_global_lock, phase, todo>>
hw == <<status, stuck, facs>>

Init ==
    /\ status = {}
    /\ enable \in SUBSET Events            \* as the firmware left it
    /\ stuck \in {{}, {GlobalLock}}
    /\ enable \cap stuck = {}
    /\ facs \in BOOLEAN
    /\ handler = [e \in Events |-> Null]
    /\ has_global_lock = FALSE
    /\ phase = "boot"
    /\ todo = <<>>

Idle == todo = <<>>
Do(s, e) == [s |-> s, e |-> e]
Begin(steps) == Idle /\ todo' = steps
Now(s, e) == ~Idle /\ Head(todo) = Do(s, e)
Go == todo' = Tail(todo)

\* initialize_fixed_events, from uacpi_initialize_events_early
InitializeEarly ==
    /\ phase = "boot"
    /\ enable' = enable \ Served
    /\ phase' = "early"
    /\ UNCHANGED <<hw, handler, has_global_lock, todo>>

\* set_event writes the bit and reads it back.
Install == <<"handler", "enable", "check_on">>
InstallLock == <<"handler", "enable", "check_on", "has_lock">>
BugUninstall == <<"wait", "forget", "disable", "check_off">>
Uninstall == <<"disable", "check_off", "wait", "forget">>
On(steps, e) == [i \in DOMAIN steps |-> Do(steps[i], e)]

\* uacpi_initialize_events: the SCI is installed, then the handler for the
\* global lock, and taken out again where there is no FACS
Initialize ==
    /\ phase = "early"
    /\ phase' = "on"
    /\ Begin(On(InstallLock, GlobalLock))
    /\ UNCHANGED <<hw, enable, handler, has_global_lock>>
HasLock(e) ==
    /\ Now("has_lock", e)
    /\ has_global_lock' = facs
    /\ todo' = IF facs THEN <<>> ELSE On(Uninstall, GlobalLock)
    /\ UNCHANGED <<hw, enable, handler, phase>>

\* Calls of a client, for its own events.  An event with a handler cannot get
\* another (ALREADY_EXISTS), one without cannot be enabled (NO_HANDLER).
Client(e) ==
    /\ phase = "on"
    /\ e # GlobalLock
    /\ \/ handler[e] = Null /\ Begin(On(Install, e))
       \/ handler[e] # Null /\ Begin(<<Do("enable", e), Do("check", e)>>)
       \/ Begin(<<Do("disable", e), Do("check", e)>>)
       \/ Begin(On(Uninstall, e))
    /\ UNCHANGED <<hw, enable, handler, has_global_lock, phase>>

\* uacpi_clear_fixed_event and uacpi_clear_all_events.  Writing one status field
\* writes back all bits that were set (see Registers!OthersStayPending).
Clear ==
    /\ phase = "on" /\ Idle
    /\ status' = {}
    /\ UNCHANGED <<enable, stuck, facs, handler, has_global_lock, phase, todo>>

SetHandler(e) ==
    /\ Now("handler", e) /\ Go
    /\ handler' = [handler EXCEPT ![e] = IF e = GlobalLock THEN "lock" ELSE "client"]
    /\ UNCHANGED <<hw, enable, has_global_lock, phase>>
Enable(e) ==
    /\ Now("enable", e) /\ Go
    /\ enable' = enable \cup ({e} \ stuck)
    /\ UNCHANGED <<hw, handler, has_global_lock, phase>>
Disable(e) ==
    /\ Now("disable", e) /\ Go
    /\ enable' = enable \ {e}
    /\ UNCHANGED <<hw, handler, has_global_lock, phase>>

\* The bit did not stick: HARDWARE_TIMEOUT.  Installing forgets the handler.
CheckOn(e) ==
    /\ Now("check_on", e)
    /\ IF e \in enable
       THEN Go /\ UNCHANGED handler
       ELSE todo' = <<>> /\ handler' = [handler EXCEPT ![e] = Null]
    /\ UNCHANGED <<hw, enable, has_global_lock, phase>>
\* A bit that is off reads as off; uacpi_enable_fixed_event returns its error.
CheckOff(e) ==
    /\ Now("check_off", e) \/ Now("check", e)
    /\ Go
    /\ UNCHANGED <<hw, enable, handler, has_global_lock, phase>>
\* uacpi_kernel_wait_for_work_completion: no handler is running any more
Wait(e) ==
    /\ Now("wait", e) /\ Go
    /\ UNCHANGED <<hw, enable, handler, has_global_lock, phase>>
Forget(e) ==
    /\ Now("forget", e) /\ Go
    /\ handler' = [handler EXCEPT ![e] = Null]
    /\ UNCHANGED <<hw, enable, has_global_lock, phase>>

\* uacpi_deinitialize_events: the SCI goes first, then the handlers.  The mark
\* of the global lock belongs to the context, which is zeroed with it.
Deinitialize ==
    /\ phase = "on"
    /\ Idle
    /\ phase' = "off"
    /\ has_global_lock' = FALSE
    /\ UNCHANGED <<hw, enable, handler, todo>>
DeinitializeNext ==
    /\ phase = "off" /\ Idle
    /\ \E e \in Served : /\ handler[e] # Null
                         /\ \A d \in 0..(e - 1) : handler[d] = Null
                         /\ Begin(On(Uninstall, e))
    /\ UNCHANGED <<hw, enable, handler, has_global_lock, phase>>
\* uacpi_state_reset, and uACPI is initialised again
Restart ==
    /\ phase = "off" /\ Idle
    /\ \A e \in Served : handler[e] = Null
    /\ phase' = "boot"
    /\ UNCHANGED <<hw, enable, handler, has_global_lock, todo>>

-----------------------------------------------------------------------------
\* The hardware.
Raise(e) ==
    /\ e \notin stuck
    /\ status' = status \cup {e}
    /\ UNCHANGED <<enable, stuck, facs, handler, has_global_lock, phase, todo>>

BugClears(dispatched) ==  \* acknowledging is left to the handler
    IF \E e \in dispatched : handler[e] = Null THEN {} ELSE status
\* What is left of the status bits after events were dispatched.
Clears(dispatched) == {}

\* handle_sci: handle_fixed_events, and dispatch_fixed_event for each event
HandleSci ==
    LET dispatched == status \cap enable \cap Served
    IN  /\ phase = "on"
        /\ dispatched # {}
        /\ status' = Clears(dispatched)
        /\ enable' = enable \ {e \in dispatched : handler[e] = Null}
        /\ UNCHANGED <<stuck, facs, handler, has_global_lock, phase, todo>>

Call ==
    \/ InitializeEarly \/ Initialize \/ Clear \/ Deinitialize \/ DeinitializeNext \/ Restart
    \/ \E e \in Events : Client(e)
Continue ==
    \E e \in Events : \/ SetHandler(e) \/ Enable(e) \/ Disable(e) \/ CheckOn(e) \/ CheckOff(e)
                      \/ Wait(e) \/ Forget(e) \/ HasLock(e)

Next == Call \/ Continue \/ HandleSci \/ \E e \in Events : Raise(e)

Spec == Init /\ [][Next]_vars
\* A call that began goes on, and an interrupt that is asserted is taken.
FairSpec == Spec /\ WF_vars(Continue) /\ WF_vars(HandleSci)

-----------------------------------------------------------------------------
(* Properties *)

\* Once the events were initialised, an event that is enabled has a handler, at
\* every step of a call: the SCI handler never meets an event of a client that is
\* being installed or removed, and so never disables it behind its back.
EnabledIsHandled ==
    phase # "boot" => \A e \in Served \cap enable : handler[e] # Null

\* When uacpi_initialize_events returns, the global lock counts as present
\* exactly if its release event will be delivered: acquiring it may wait then.
LockFlagIsTrue ==
    phase = "on" /\ Idle => (has_global_lock <=> handler[GlobalLock] = "lock" /\ GlobalLock \in enable)

\* Both: no enabled event without a handler at any step of install and uninstall, and
\* a global lock that counts as present only if its release event arrives.
FixedSafe == EnabledIsHandled /\ LockFlagIsTrue

\* An event that is raised and enabled is acknowledged, or disabled, or the
\* SCI is removed: the line does not stay asserted.
ServedIsQuiet ==
    \A e \in Served : (phase = "on" /\ e \in status \cap enable)
                          ~> (phase # "on" \/ e \notin status \cap enable)

\* Does not hold (README, "What does not hold").
\* "Note that the event is automatically enabled upon installing a handler to
\* it": an event with a handler that is enabled and raised is dispatched.
HandledIsQuiet ==
    \A e \in Events : (phase = "on" /\ handler[e] # Null /\ e \in status \cap enable)
                          ~> (phase # "on" \/ e \notin status \cap enable)
=============================================================================
