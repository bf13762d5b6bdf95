------------------------------- MODULE RwLock -------------------------------
(***************************************************************************)
(* The read-write lock of uACPI (src/src/uacpi/mutex.c), which protects the  *)
(* namespace: two mutexes and a count of readers, with calls that interleave *)
(* step by step.  The mutexes behave as kernel_api.h says.                   *)
(***************************************************************************)
EXTENDS Integers, FiniteSets

CONSTANT Threads

ASSUME RwLockAssumption == IsFiniteSet(Threads)

VARIABLES
    num_readers,
    read_mutex, write_mutex,  \* the set of threads that hold each
    pc

vars == <<num_readers, read_mutex, write_mutex, pc>>

Init ==
    /\ num_readers = 0
    /\ read_mutex = {}
    /\ write_mutex = {}
    /\ pc = [t \in Threads |-> "idle"]

Goto(t, from, to) == pc[t] = from /\ pc' = [pc EXCEPT ![t] = to]

\* uacpi_rw_lock_read
ReadLock(t) ==
    /\ Goto(t, "idle", "count") /\ read_mutex = {}
    /\ read_mutex' = {t}
    /\ UNCHANGED <<num_readers, write_mutex>>
CountReader(t) ==
    /\ Goto(t, "count", IF num_readers = 0 THEN "take" ELSE "counted")
    /\ num_readers' = num_readers + 1
    /\ UNCHANGED <<read_mutex, write_mutex>>
BugUncountReader(t) ==  \* the first reader to leave gives back the write mutex
    /\ Goto(t, "leave", "left")
    /\ num_readers' = num_readers - 1
    /\ write_mutex' = {}
    /\ UNCHANGED read_mutex
TakeWrite(t) ==
    /\ Goto(t, "take", "counted") /\ write_mutex = {}
    /\ write_mutex' = {t}
    /\ UNCHANGED <<num_readers, read_mutex>>
TakeFails(t) ==
    /\ Goto(t, "take", "failed")
    /\ num_readers' = 0
    /\ UNCHANGED <<read_mutex, write_mutex>>
ReadLocked(t) ==
    /\ Goto(t, "counted", "reading") \/ Goto(t, "failed", "idle")
    /\ read_mutex' = {}
    /\ UNCHANGED <<num_readers, write_mutex>>

\* uacpi_rw_unlock_read: the last reader gives back the write mutex that the
\* first one took
ReadUnlock(t) ==
    /\ Goto(t, "reading", "leave") /\ read_mutex = {}
    /\ read_mutex' = {t}
    /\ UNCHANGED <<num_readers, write_mutex>>
UncountReader(t) ==
    /\ Goto(t, "leave", "left")
    /\ num_readers' = num_readers - 1
    /\ write_mutex' = IF num_readers = 1 THEN {} ELSE write_mutex
    /\ UNCHANGED read_mutex
ReadUnlocked(t) ==
    /\ Goto(t, "left", "idle")
    /\ read_mutex' = {}
    /\ UNCHANGED <<num_readers, write_mutex>>

\* uacpi_rw_lock_write, uacpi_rw_unlock_write
WriteLock(t) ==
    /\ Goto(t, "idle", "writing") /\ write_mutex = {}
    /\ write_mutex' = {t}
    /\ UNCHANGED <<num_readers, read_mutex>>
WriteUnlock(t) ==
    /\ Goto(t, "writing", "idle")
    /\ write_mutex' = {}
    /\ UNCHANGED <<num_readers, read_mutex>>

Step(t) ==
    \/ ReadLock(t) \/ CountReader(t) \/ TakeWrite(t) \/ TakeFails(t) \/ ReadLocked(t)
    \/ ReadUnlock(t) \/ UncountReader(t) \/ ReadUnlocked(t)
    \/ WriteLock(t) \/ WriteUnlock(t)
Next == \E t \in Threads : Step(t)

Spec == Init /\ [][Next]_vars

-----------------------------------------------------------------------------
(* Properties *)

States == {"idle", "count", "take", "counted", "failed", "reading", "leave", "left", "writing"}
TypeOK ==
    /\ num_readers \in Int
    /\ read_mutex \subseteq Threads
    /\ write_mutex \subseteq Threads
    /\ pc \in [Threads -> States]

Counted == {t \in Threads : pc[t] \in {"take", "counted", "reading", "leave"}}

\* A thread that writes is alone: nobody else writes or reads, whichever of the
\* readers took the write mutex for all of them and whoever gives it back.
Exclusion ==
    \A t, u \in Threads :
        pc[t] = "writing" /\ t # u => pc[u] \notin {"writing", "counted", "reading", "leave"}

\* The count is that of the threads between lock and unlock of a reader, also
\* when taking the write mutex fails.
CountIsExact == num_readers = Cardinality(Counted)
=============================================================================
