----------------------------- MODULE GlobalLock -----------------------------
(***************************************************************************)
(* The ACPI global lock (src/src/uacpi/mutex.c and handle_global_lock in      *)
(* event.c): threads that take it from AML, as a recursive mutex and giving   *)
(* up the namespace lock while they wait, or through the API; the firmware,   *)
(* which shares it through a word of the FACS; and the release interrupt.     *)
(***************************************************************************)
EXTENDS Integers, FiniteSets

CONSTANTS
    Aml, Api,    \* threads that run AML, threads that use the API
    MaxDepth,    \* 0xFFFF acquires of one mutex
    MaxSpins,    \* 0xFFFF attempts
    MaxSeq,      \* bound: sequence numbers
    IrqOff,      \* the spinlock keeps interrupts out
    Waits        \* uacpi_kernel_wait_for_event waits

Clients == Aml \cup Api
None == "none"

VARIABLES
    facs,        \* the lock word: who owns it, and the pending bit
    fw,          \* firmware: "out", "waiting", "notified" or "in"
    irq,         \* the release event is asserted
    global_lock_pending,
    event,       \* counter of global_lock_event
    mutex,       \* the native mutex: its holder
    owner, depth,
    ns,          \* who holds the namespace write lock
    seq, acquired, out_seq,
    pc, spins

lock == <<facs, fw, irq, global_lock_pending, event>>
aml == <<owner, depth, ns>>
api == <<seq, acquired, out_seq>>
vars == <<lock, mutex, aml, api, pc, spins>>

Init ==
    /\ facs = [owned |-> None, pending |-> FALSE]
    /\ fw = "out" /\ irq = FALSE
    /\ global_lock_pending = FALSE /\ event = 0
    /\ mutex = None
    /\ owner = None /\ depth = 0
    /\ ns = None
    /\ seq = 0 /\ acquired = FALSE
    /\ out_seq = [t \in Api |-> None]
    /\ pc = [t \in Clients |-> "idle"]
    /\ spins = 0

Goto(t, from, to) == pc[t] = from /\ pc' = [pc EXCEPT ![t] = to]

-----------------------------------------------------------------------------
\* A thread that runs AML holds the namespace lock ("run").
Enter(t) ==
    /\ Goto(t, "idle", "run") /\ ns = None
    /\ ns' = t
    /\ UNCHANGED <<lock, mutex, owner, depth, api, spins>>
Leave(t) ==
    /\ Goto(t, "run", "idle") /\ owner # t
    /\ ns' = None
    /\ UNCHANGED <<lock, mutex, owner, depth, api, spins>>

\* uacpi_acquire_aml_mutex: again by its owner, or DENIED
AcquireAgain(t) ==
    /\ pc[t] = "run" /\ owner = t
    /\ depth < MaxDepth
    /\ depth' = depth + 1
    /\ UNCHANGED <<lock, mutex, owner, ns, api, pc, spins>>
AcquireAml(t) ==
    /\ Goto(t, "run", "mutex") /\ owner # t
    /\ ns' = None
    /\ UNCHANGED <<lock, mutex, owner, depth, api, spins>>
AcquireApi(t) ==
    /\ Goto(t, "idle", "mutex") /\ seq < MaxSeq
    /\ UNCHANGED <<lock, mutex, aml, api, spins>>

\* uacpi_acquire_native_mutex_with_timeout
TakeMutex(t) ==
    /\ Goto(t, "mutex", "try") /\ mutex = None
    /\ mutex' = t /\ spins' = 1
    /\ UNCHANGED <<lock, aml, api>>
Failed(t) == IF t \in Aml THEN "relock" ELSE "idle"
MutexTimeout(t) ==
    /\ Goto(t, "mutex", Failed(t)) /\ mutex # None
    /\ UNCHANGED <<lock, mutex, aml, api, spins>>

BugTrySucceeds(t) ==  \* whoever owned it
    /\ Goto(t, "try", "got")
    /\ facs' = [owned |-> "os", pending |-> FALSE]
    /\ global_lock_pending' = FALSE
    /\ UNCHANGED <<fw, irq, event, mutex, aml, api, spins>>
BugTryFails(t) ==  \* the mark is set after the spinlock was released
    /\ facs.owned # None /\ spins < MaxSpins
    /\ facs' = [facs EXCEPT !.pending = TRUE]
    /\ Goto(t, "try", "mark") /\ UNCHANGED global_lock_pending
    /\ UNCHANGED <<fw, irq, event, mutex, aml, api, spins>>

\* uacpi_acquire_global_lock_from_firmware: the attempt, and, where the lock
\* was owned, the pending mark, one step under a spinlock that works
TrySucceeds(t) ==
    /\ Goto(t, "try", "got") /\ facs.owned = None
    /\ facs' = [owned |-> "os", pending |-> FALSE]
    /\ global_lock_pending' = FALSE
    /\ UNCHANGED <<fw, irq, event, mutex, aml, api, spins>>
TryFails(t) ==
    /\ facs.owned # None /\ spins < MaxSpins
    /\ facs' = [facs EXCEPT !.pending = TRUE]
    /\ IF IrqOff
       THEN Goto(t, "try", "wait") /\ global_lock_pending' = TRUE
       ELSE Goto(t, "try", "mark") /\ UNCHANGED global_lock_pending
    /\ UNCHANGED <<fw, irq, event, mutex, aml, api, spins>>
MarkPending(t) ==
    /\ Goto(t, "mark", "wait")
    /\ global_lock_pending' = TRUE
    /\ UNCHANGED <<facs, fw, irq, event, mutex, aml, api, spins>>
\* uacpi_kernel_wait_for_event, without a timeout
WaitForEvent(t) ==
    /\ Goto(t, "wait", "try")
    /\ Waits => event > 0
    /\ event' = IF event > 0 THEN event - 1 ELSE 0
    /\ spins' = spins + 1
    /\ UNCHANGED <<facs, fw, irq, global_lock_pending, mutex, aml, api>>
\* HARDWARE_TIMEOUT: the mutex is given back
GiveUp(t) ==
    /\ Goto(t, "try", Failed(t)) /\ facs.owned # None /\ spins = MaxSpins
    /\ facs' = [facs EXCEPT !.pending = TRUE]
    /\ global_lock_pending' = FALSE
    /\ mutex' = None
    /\ UNCHANGED <<fw, irq, event, aml, api, spins>>

GotAml(t) ==
    /\ t \in Aml /\ Goto(t, "got", "relock")
    /\ owner' = t /\ depth' = 1
    /\ UNCHANGED <<lock, mutex, ns, api, spins>>
Relock(t) ==
    /\ Goto(t, "relock", "run") /\ ns = None
    /\ ns' = t
    /\ UNCHANGED <<lock, mutex, owner, depth, api, spins>>
\* the rest of uacpi_acquire_global_lock
GotApi(t) ==
    /\ t \in Api /\ Goto(t, "got", "held")
    /\ out_seq' = [out_seq EXCEPT ![t] = seq]
    /\ seq' = seq + 1
    /\ acquired' = TRUE
    /\ UNCHANGED <<lock, mutex, aml, spins>>

\* uacpi_release_aml_mutex, by the owner
ReleaseOnce(t) ==
    /\ pc[t] = "run" /\ owner = t /\ depth > 1
    /\ depth' = depth - 1
    /\ UNCHANGED <<lock, mutex, owner, ns, api, pc, spins>>
\* do_release_global_lock_to_firmware, then the firmware is told if it waits
ToFirmware(t, done) ==
    /\ facs' = [owned |-> None, pending |-> FALSE]
    /\ pc' = [pc EXCEPT ![t] = IF facs.pending THEN "notify" ELSE done]
ReleaseLast(t) ==
    /\ pc[t] = "run" /\ owner = t /\ depth = 1
    /\ depth' = 0
    /\ ToFirmware(t, "unlock")
    /\ UNCHANGED <<fw, irq, global_lock_pending, event, mutex, owner, ns, api, spins>>
\* uacpi_release_global_lock: INVALID_ARGUMENT unless the number is the one that
\* the next acquire will hand out
ReleaseApi(t) ==
    /\ pc[t] = "held"
    /\ IF acquired /\ out_seq[t] = seq
       THEN acquired' = FALSE /\ ToFirmware(t, "unlock")
       ELSE pc' = [pc EXCEPT ![t] = "refused"] /\ UNCHANGED <<facs, acquired>>
    /\ UNCHANGED <<fw, irq, global_lock_pending, event, mutex, aml, seq, out_seq, spins>>
\* GBL_RLS
Notify(t) ==
    /\ Goto(t, "notify", "unlock")
    /\ fw' = IF fw = "waiting" THEN "notified" ELSE fw
    /\ UNCHANGED <<facs, irq, global_lock_pending, event, mutex, aml, api, spins>>
Unlock(t) ==
    /\ Goto(t, "unlock", IF t \in Aml THEN "run" ELSE "idle")
    /\ mutex' = None
    /\ owner' = IF t \in Aml THEN None ELSE owner
    /\ UNCHANGED <<lock, depth, ns, api, spins>>

-----------------------------------------------------------------------------
\* The firmware follows the same protocol.
FwTry ==
    /\ fw \in {"out", "notified"}
    /\ IF facs.owned = None
       THEN fw' = "in" /\ facs' = [owned |-> "fw", pending |-> FALSE]
       ELSE fw' = "waiting" /\ facs' = [facs EXCEPT !.pending = TRUE]
    /\ UNCHANGED <<irq, global_lock_pending, event, mutex, aml, api, pc, spins>>
FwRelease ==
    /\ fw = "in"
    /\ fw' = "out"
    /\ facs' = [owned |-> None, pending |-> FALSE]
    /\ irq' = (irq \/ facs.pending)
    /\ UNCHANGED <<global_lock_pending, event, mutex, aml, api, pc, spins>>

\* handle_global_lock
HandleGlobalLock ==
    /\ irq
    /\ irq' = FALSE
    /\ event' = IF global_lock_pending THEN event + 1 ELSE event
    /\ global_lock_pending' = FALSE
    /\ UNCHANGED <<facs, fw, mutex, aml, api, pc, spins>>

Steps(t) ==
    \/ Relock(t) \/ TakeMutex(t) \/ TrySucceeds(t) \/ TryFails(t) \/ MarkPending(t) \/ WaitForEvent(t)
    \/ GiveUp(t) \/ GotAml(t) \/ GotApi(t) \/ ReleaseLast(t) \/ Notify(t) \/ Unlock(t)
Begin(t) ==
    \/ t \in Aml /\ (Enter(t) \/ AcquireAgain(t) \/ AcquireAml(t) \/ ReleaseOnce(t) \/ Leave(t))
    \/ t \in Api /\ (AcquireApi(t) \/ ReleaseApi(t))
    \/ MutexTimeout(t)

Next == (\E t \in Clients : Steps(t) \/ Begin(t)) \/ FwTry \/ FwRelease \/ HandleGlobalLock

Spec == Init /\ [][Next]_vars
\* Clients go on, the firmware gives the lock back and comes for it when told,
\* an asserted interrupt is taken.
FairSpec ==
    /\ Spec
    /\ \A t \in Clients : WF_vars(Steps(t))
    /\ WF_vars(FwRelease) /\ WF_vars(FwTry) /\ WF_vars(HandleGlobalLock)

-----------------------------------------------------------------------------
(* Properties *)

Holds(t) == pc[t] \in {"got", "held", "refused", "notify", "unlock"} \/ owner = t

\* The native mutex, the owner that AML sees and the lock word agree: at most one
\* thread is in, never together with the firmware, and the word says who.
OneHolder ==
    /\ \A t \in Clients : Holds(t) => mutex = t
    /\ \A t \in Clients : (Holds(t) /\ pc[t] \notin {"notify", "unlock"}) => facs.owned = "os"
    /\ fw = "in" <=> facs.owned = "fw"

\* A firmware that waits for the lock is told when it is released: the pending
\* bit is not lost between the threads that pass the lock on.
FirmwareIsTold ==
    fw = "waiting" =>
        \/ facs.owned = "os" /\ facs.pending
        \/ \E t \in Clients : pc[t] = "notify"

\* A thread never waits for the mutex or for the firmware with the namespace
\* lock, so that AML of other threads can go on.
WaitsWithoutNamespace ==
    \A t \in Clients : pc[t] \in {"mutex", "try", "mark", "wait"} => ns # t

\* The three together: one holder, also among the firmware's, a firmware that is told
\* of the release, and no wait with the namespace lock.
LockSafe == OneHolder /\ FirmwareIsTold /\ WaitsWithoutNamespace

\* A thread that waits for the firmware is woken: a release that comes between
\* its attempt and its wait is not lost.
WaitEnds == \A t \in Clients : pc[t] = "wait" ~> pc[t] # "wait"

\* Does not hold (README, "What does not hold").
\* "This number is used for validation during release": the number handed out by
\* the acquire releases the lock.
ReleaseAccepted == \A t \in Api : pc[t] # "refused"

\* Does not hold (README, "What does not hold").
\* Without a release of the firmware there is no second attempt: the event that
\* is waited for was signalled.
AttemptsAreNotified == [][\A t \in Clients : (pc[t] = "wait" /\ pc'[t] = "try") => event > 0]_vars
=============================================================================
