----------------------------- MODULE LockProofs -----------------------------
(***************************************************************************)
(* Locks of uACPI.  Of the read-write lock, for any number of threads, a     *)
(* writer is alone and the count is exact.  The global lock is safe for any  *)
(* number of threads of either kind, with or without a spinlock that keeps   *)
(* interrupts out, and whether or not the host waits for the event.          *)
(***************************************************************************)
EXTENDS RwLock, AcpiSync, FiniteSetTheorems, TLAPS

-----------------------------------------------------------------------------
(* The read-write lock *)


InReadMutex == {"count", "take", "counted", "failed", "leave", "left"}
Reading == {"counted", "reading", "leave"}

\* The read mutex has one holder, which alone may be about to take the write
\* mutex; as long as somebody reads or writes, the write mutex is held.
Holders ==
    /\ \A t \in Threads : pc[t] \in InReadMutex <=> t \in read_mutex
    /\ \A t, u \in read_mutex : t = u
    /\ \A t \in Threads : pc[t] \in Reading \cup {"writing"} => write_mutex # {}
    /\ \A t, u \in Threads : pc[t] \in {"take", "failed"} /\ pc[u] \in Reading => FALSE

IInv == TypeOK /\ CountIsExact /\ Holders /\ Exclusion

LEMMA CountedFinite == IsFiniteSet(Counted)
  BY RwLockAssumption, FS_Subset DEF Counted

\* A count of 0 means that nobody reads, a count of 1 that one thread does.
LEMMA CountMeans ==
  ASSUME CountIsExact
  PROVE  /\ num_readers \in Nat
         /\ num_readers = 0 => Counted = {}
         /\ \A t \in Counted : num_readers = 1 => Counted = {t}
         /\ Counted = {} => num_readers = 0
  <1>1. num_readers \in Nat
    BY CountedFinite, FS_CardinalityType DEF CountIsExact
  <1>2. num_readers = 0 => Counted = {}
    BY CountedFinite, FS_EmptySet, Zenon DEF CountIsExact
  <1>3. ASSUME NEW t \in Counted, num_readers = 1 PROVE Counted = {t}
    <2>1. /\ IsFiniteSet(Counted \ {t})
          /\ Cardinality(Counted \ {t}) = Cardinality(Counted) - 1
      BY <1>3, CountedFinite, FS_RemoveElement
    <2>2. Cardinality(Counted) = 1
      BY <1>3 DEF CountIsExact
    <2>3. Cardinality(Counted \ {t}) = 0
      BY <2>1, <2>2
    <2>4. Counted \ {t} = {}
      BY <2>1, <2>3, FS_EmptySet
    <2> QED BY <1>3, <2>4
  <1>4. Counted = {} => num_readers = 0
    BY FS_EmptySet DEF CountIsExact
  <1> QED BY <1>1, <1>2, <1>3, <1>4

LEMMA CountKept ==
  ASSUME CountIsExact, num_readers' = num_readers, Counted' = Counted
  PROVE  CountIsExact'
  BY DEF CountIsExact

LEMMA CountUp ==
  ASSUME CountIsExact, NEW t \in Threads, t \notin Counted,
         num_readers' = num_readers + 1, Counted' = Counted \cup {t}
  PROVE  CountIsExact'
  BY CountedFinite, FS_AddElement DEF CountIsExact

LEMMA CountDown ==
  ASSUME CountIsExact, NEW t \in Counted,
         num_readers' = num_readers - 1, Counted' = Counted \ {t}
  PROVE  CountIsExact'
  BY CountedFinite, FS_RemoveElement DEF CountIsExact

LEMMA InitOK == Init => IInv
  <1> SUFFICES ASSUME Init PROVE IInv
    OBVIOUS
  <1>1. Counted = {}
    BY DEF Init, Counted
  <1> QED
    BY <1>1, FS_EmptySet DEF Init, IInv, TypeOK, States, CountIsExact, Holders, Exclusion, InReadMutex, Reading

LEMMA StepOK ==
  ASSUME IInv, NEW t \in Threads, Step(t)
  PROVE  IInv'
  <1> USE DEF IInv
  <1>a. /\ num_readers \in Nat
        /\ num_readers = 0 => Counted = {}
        /\ \A u \in Counted : num_readers = 1 => Counted = {u}
    BY CountMeans
  <1>1. CASE ReadLock(t)
    <2>1. Counted' = Counted
      BY <1>1 DEF ReadLock, Goto, Counted, TypeOK
    <2> QED
      BY <1>1, <2>1, CountKept DEF ReadLock, Goto, TypeOK, States, Holders, Exclusion, InReadMutex, Reading
  <1>2. CASE CountReader(t)
    <2>1. Counted' = Counted \cup {t} /\ t \notin Counted
      BY <1>2 DEF CountReader, Goto, Counted, TypeOK
    <2>2. CountIsExact'
      BY <1>2, <2>1, CountUp DEF CountReader
    <2>3. CASE num_readers = 0
      <3>1. \A u \in Threads : pc[u] \notin Reading
        BY <2>3, <1>a DEF Counted, Reading
      <3> QED
        BY <1>2, <2>2, <2>3, <3>1, <1>a DEF CountReader, Goto, TypeOK, States, Holders, Exclusion, InReadMutex,
                                            Reading
    <2>4. CASE num_readers # 0
      <3>1. PICK u \in Threads : u \in Counted
        BY <2>4, CountMeans DEF Counted
      <3>2. u # t /\ pc[u] \in Reading
        BY <1>2, <3>1 DEF CountReader, Goto, Counted, Holders, InReadMutex, Reading
      <3>3. write_mutex # {} /\ \A w \in Threads : pc[w] # "writing"
        BY <3>2 DEF Holders, Exclusion, Reading
      <3> QED
        BY <1>2, <2>2, <2>4, <3>3, <1>a DEF CountReader, Goto, TypeOK, States, Holders, Exclusion, InReadMutex,
                                            Reading
    <2> QED BY <2>3, <2>4
  <1>3. CASE TakeWrite(t)
    <2>1. Counted' = Counted
      BY <1>3 DEF TakeWrite, Goto, Counted, TypeOK
    <2> QED
      BY <1>3, <2>1, CountKept DEF TakeWrite, Goto, TypeOK, States, Holders, Exclusion, InReadMutex, Reading
  <1>4. CASE TakeFails(t)
    <2>1. Counted = {t}
      BY <1>4 DEF TakeFails, Goto, Counted, Holders, InReadMutex, Reading
    <2>2. Counted' = {}
      BY <1>4, <2>1 DEF TakeFails, Goto, Counted, TypeOK
    <2>3. CountIsExact'
      BY <1>4, <2>2, FS_EmptySet DEF TakeFails, CountIsExact
    <2> QED
      BY <1>4, <2>3 DEF TakeFails, Goto, TypeOK, States, Holders, Exclusion, InReadMutex, Reading
  <1>5. CASE ReadLocked(t)
    <2>1. Counted' = Counted
      BY <1>5 DEF ReadLocked, Goto, Counted, TypeOK
    <2> QED
      BY <1>5, <2>1, CountKept DEF ReadLocked, Goto, TypeOK, States, Holders, Exclusion, InReadMutex, Reading
  <1>6. CASE ReadUnlock(t)
    <2>1. Counted' = Counted
      BY <1>6 DEF ReadUnlock, Goto, Counted, TypeOK
    <2> QED
      BY <1>6, <2>1, CountKept DEF ReadUnlock, Goto, TypeOK, States, Holders, Exclusion, InReadMutex, Reading
  <1>7. CASE UncountReader(t)
    <2>1. t \in Counted /\ Counted' = Counted \ {t}
      BY <1>7 DEF UncountReader, Goto, Counted, TypeOK
    <2>2. CountIsExact'
      BY <1>7, <2>1, CountDown DEF UncountReader
    <2>3. CASE num_readers = 1
      <3>1. \A u \in Threads : u # t => pc[u] \notin Reading /\ pc[u] # "writing"
        BY <1>7, <2>1, <2>3, <1>a DEF UncountReader, Goto, Counted, Reading, Exclusion
      <3> QED
        BY <1>7, <2>2, <2>3, <3>1, <1>a DEF UncountReader, Goto, TypeOK, States, Holders, Exclusion, InReadMutex,
                                            Reading
    <2>4. CASE num_readers # 1
      BY <1>7, <2>2, <2>4, <1>a DEF UncountReader, Goto, TypeOK, States, Holders, Exclusion, InReadMutex, Reading
    <2> QED BY <2>3, <2>4
  <1>8. CASE ReadUnlocked(t)
    <2>1. Counted' = Counted
      BY <1>8 DEF ReadUnlocked, Goto, Counted, TypeOK
    <2> QED
      BY <1>8, <2>1, CountKept DEF ReadUnlocked, Goto, TypeOK, States, Holders, Exclusion, InReadMutex, Reading
  <1>9. CASE WriteLock(t)
    <2>1. Counted' = Counted
      BY <1>9 DEF WriteLock, Goto, Counted, TypeOK
    <2> QED
      BY <1>9, <2>1, CountKept DEF WriteLock, Goto, TypeOK, States, Holders, Exclusion, InReadMutex, Reading
  <1>10. CASE WriteUnlock(t)
    <2>1. Counted' = Counted
      BY <1>10 DEF WriteUnlock, Goto, Counted, TypeOK
    <2> QED
      BY <1>10, <2>1, CountKept DEF WriteUnlock, Goto, TypeOK, States, Holders, Exclusion, InReadMutex, Reading
  <1> QED
    BY <1>1, <1>2, <1>3, <1>4, <1>5, <1>6, <1>7, <1>8, <1>9, <1>10 DEF Step

\* Every reachable state satisfies the invariant.
THEOREM RwLockInvariant == Spec => []IInv
  <1>1. Init => IInv
    BY InitOK
  <1>2. IInv /\ [Next]_vars => IInv'
    <2> SUFFICES ASSUME IInv, [Next]_vars PROVE IInv'
      OBVIOUS
    <2>1. CASE Next
      BY <2>1, StepOK DEF Next
    <2>2. CASE UNCHANGED vars
      BY <2>2 DEF vars, IInv, TypeOK, CountIsExact, Counted, Holders, Exclusion
    <2> QED BY <2>1, <2>2
  <1> QED BY <1>1, <1>2, PTL DEF Spec

\* uacpi_rw_lock_write excludes every other writer and reader, for any number of
\* threads.
THEOREM WriterIsAlone == Spec => []Exclusion
  BY RwLockInvariant, PTL DEF IInv

\* The count of readers of the lock is exact, for any number of threads.
THEOREM ReadersAreCounted == Spec => []CountIsExact
  BY RwLockInvariant, PTL DEF IInv

-----------------------------------------------------------------------------
(* The global lock; its names for the variables *)

facs == s
fw == x2
mutex == x6
owner == x7
ns == x9
seq == x10
acquired == x11
out_seq == x12
at == x13
USE DEF facs, fw, mutex, owner, ns, seq, acquired, out_seq, at

Places == {"idle", "run", "mutex", "try", "mark", "wait", "relock", "got", "held", "refused",
           "notify", "unlock"}
LockType ==
    /\ facs \in [owned : {Lock!None, "os", "fw"}, pending : BOOLEAN]
    /\ fw \in {"out", "waiting", "notified", "in"}
    /\ at \in [Lock!Clients -> Places]
    /\ mutex \in Lock!Clients \cup {Lock!None}
    /\ owner \in Aml \cup {Lock!None}
    /\ ns \in Aml \cup {Lock!None}

\* From the attempt to the release a thread has the native mutex; AML's owner is
\* never one that still waits; the namespace lock is held only outside the wait.
MutexInv ==
    \A t \in Lock!Clients :
        /\ at[t] \in {"try", "mark", "wait", "got", "held", "refused", "notify", "unlock"} => mutex = t
        /\ owner = t => mutex = t /\ at[t] \in {"relock", "run", "notify", "unlock"}
        /\ at[t] \in {"run", "relock"} => t \in Aml
        /\ ns = t => at[t] \in {"run", "notify", "unlock"}

LockInv == LockType /\ MutexInv /\ Lock!OneHolder /\ Lock!FirmwareIsTold

LEMMA LockInit == Lock!Init => LockInv
<1> SUFFICES ASSUME Lock!Init PROVE LockInv
  OBVIOUS
<1> USE LockAssumption DEF Lock!Init, Lock!Clients, Lock!None
<1>1. LockType
  BY DEF LockType, Places
<1>2. MutexInv
  BY DEF MutexInv
<1>3. Lock!OneHolder /\ Lock!FirmwareIsTold
  BY SMTT(30) DEF Lock!OneHolder, Lock!Holds, Lock!FirmwareIsTold
<1> QED BY <1>1, <1>2, <1>3 DEF LockInv

\* The steps of a thread before it has the lock, and those that leave the lock word alone
LEMMA QuietSteps ==
    ASSUME LockInv, NEW t \in Lock!Clients,
           \/ t \in Aml /\ (Lock!Enter(t) \/ Lock!Leave(t) \/ Lock!AcquireAgain(t) \/ Lock!AcquireAml(t) \/ Lock!ReleaseOnce(t))
           \/ t \in Api /\ Lock!AcquireApi(t)
           \/ Lock!TakeMutex(t) \/ Lock!MutexTimeout(t) \/ Lock!MarkPending(t) \/ Lock!WaitForEvent(t)
           \/ Lock!GotAml(t) \/ Lock!Relock(t) \/ Lock!GotApi(t)
    PROVE  LockInv'
<1> USE LockAssumption DEF LockInv, LockType, MutexInv, Lock!OneHolder, Lock!Holds, Lock!FirmwareIsTold,
                           Lock!Clients, Lock!None, Places,
            Lock!Goto, Lock!lock, Lock!aml, Lock!api
<1>1. CASE t \in Aml /\ Lock!Enter(t)
  BY <1>1 DEF Lock!Enter
<1>2. CASE t \in Aml /\ Lock!Leave(t)
  BY <1>2 DEF Lock!Leave
<1>3. CASE t \in Aml /\ Lock!AcquireAgain(t)
  BY <1>3 DEF Lock!AcquireAgain
<1>4. CASE t \in Aml /\ Lock!AcquireAml(t)
  BY <1>4 DEF Lock!AcquireAml
<1>5. CASE t \in Aml /\ Lock!ReleaseOnce(t)
  BY <1>5 DEF Lock!ReleaseOnce
<1>6. CASE t \in Api /\ Lock!AcquireApi(t)
  BY <1>6 DEF Lock!AcquireApi
<1>7. CASE Lock!TakeMutex(t)
  BY <1>7 DEF Lock!TakeMutex
<1>8. CASE Lock!MutexTimeout(t)
  BY <1>8 DEF Lock!MutexTimeout, Lock!Failed
<1>9. CASE Lock!MarkPending(t)
  BY <1>9 DEF Lock!MarkPending
<1>10. CASE Lock!WaitForEvent(t)
  BY <1>10 DEF Lock!WaitForEvent
<1>11. CASE Lock!GotAml(t)
  BY <1>11 DEF Lock!GotAml
<1>12. CASE Lock!Relock(t)
  BY <1>12 DEF Lock!Relock
<1>13. CASE Lock!GotApi(t)
  BY <1>13, SMTT(30) DEF Lock!GotApi
<1> QED BY <1>1, <1>2, <1>3, <1>4, <1>5, <1>6, <1>7, <1>8, <1>9, <1>10, <1>11, <1>12, <1>13, ZenonT(60)

\* The attempts, and the ways back to the firmware
LEMMA WordSteps ==
    ASSUME LockInv, NEW t \in Lock!Clients,
           \/ Lock!TrySucceeds(t) \/ Lock!TryFails(t) \/ Lock!GiveUp(t) \/ Lock!ReleaseLast(t) \/ Lock!Notify(t) \/ Lock!Unlock(t)
           \/ t \in Api /\ Lock!ReleaseApi(t)
    PROVE  LockInv'
<1> USE LockAssumption DEF LockInv, LockType, MutexInv, Lock!OneHolder, Lock!Holds, Lock!FirmwareIsTold,
                           Lock!Clients, Lock!None, Places,
            Lock!Goto, Lock!lock, Lock!aml, Lock!api
<1>1. CASE Lock!TrySucceeds(t)
  <2>1. mutex = t /\ fw # "waiting" /\ fw # "in"
    BY <1>1 DEF Lock!TrySucceeds
  <2>2. LockType' /\ MutexInv'
    BY <1>1, <2>1 DEF Lock!TrySucceeds
  <2>3. Lock!OneHolder' /\ Lock!FirmwareIsTold'
    BY <1>1, <2>1 DEF Lock!TrySucceeds
  <2> QED BY <2>2, <2>3
<1>2. CASE Lock!TryFails(t)
  <2>1. PICK to \in {"wait", "mark"} : Lock!Goto(t, "try", to)
    BY <1>2 DEF Lock!TryFails
  <2>2. /\ facs'.owned = facs.owned /\ facs'.pending
        /\ facs' \in [owned : {Lock!None, "os", "fw"}, pending : BOOLEAN]
    BY <1>2, Zenon DEF Lock!TryFails
  <2>3. LockType' /\ MutexInv'
    BY <1>2, <2>1, <2>2 DEF Lock!TryFails
  <2>4. Lock!OneHolder' /\ Lock!FirmwareIsTold'
    BY <1>2, <2>1, <2>2 DEF Lock!TryFails
  <2> QED BY <2>3, <2>4
<1>3. CASE Lock!GiveUp(t)
  BY <1>3, ZenonT(60) DEF Lock!GiveUp, Lock!Failed
<1>4. CASE Lock!ReleaseLast(t)
  BY <1>4 DEF Lock!ReleaseLast, Lock!ToFirmware
<1>5. CASE Lock!Notify(t)
  <2>1. fw' # "waiting" /\ (fw' = "in" <=> fw = "in") /\ fw' \in {"out", "waiting", "notified", "in"}
    BY <1>5 DEF Lock!Notify
  <2>2. LockType' /\ MutexInv'
    BY <1>5, <2>1 DEF Lock!Notify
  <2>3. Lock!OneHolder'
    BY <1>5, <2>1, SMTT(30) DEF Lock!Notify
  <2> QED BY <2>1, <2>2, <2>3
<1>6. CASE Lock!Unlock(t)
  <2>1. mutex = t /\ (\A u \in Lock!Clients \ {t} : ~Lock!Holds(u) /\ at'[u] = at[u])
    BY <1>6 DEF Lock!Unlock
  <2>2. at'[t] \in {"run", "idle"} /\ owner' # t
    BY <1>6 DEF Lock!Unlock
  <2>3. LockType' /\ MutexInv'
    BY <1>6, <2>1, <2>2, SMTT(30) DEF Lock!Unlock
  <2>4. Lock!OneHolder' /\ Lock!FirmwareIsTold'
    BY <1>6, <2>1, <2>2, SMTT(30) DEF Lock!Unlock
  <2> QED BY <2>3, <2>4
<1>7. CASE t \in Api /\ Lock!ReleaseApi(t)
  <2>1. CASE acquired /\ out_seq[t] = seq
    <3>1. PICK to \in {"notify", "unlock"} : at' = [at EXCEPT ![t] = to] /\ (facs.pending => to = "notify")
      BY <1>7, <2>1, SMTT(30) DEF Lock!ReleaseApi, Lock!ToFirmware
    <3>2. facs' = [owned |-> Lock!None, pending |-> FALSE] /\ UNCHANGED <<fw, mutex, owner, ns>>
      BY <1>7, <2>1, SMTT(30) DEF Lock!ReleaseApi, Lock!ToFirmware
    <3>3. mutex = t /\ facs.owned = "os"
      BY <1>7 DEF Lock!ReleaseApi
    <3>4. LockType' /\ MutexInv'
      BY <3>1, <3>2, <3>3
    <3>5. \A u \in Lock!Clients : u # t => ~Lock!Holds(u)
      BY <3>3
    <3>6. Lock!OneHolder'
      BY <3>1, <3>2, <3>3, <3>5, SMTT(30)
    <3>7. fw = "waiting" => facs.pending
      BY <1>7, <3>5 DEF Lock!ReleaseApi
    <3>8. Lock!FirmwareIsTold'
      BY <3>1, <3>2, <3>7, SMTT(30)
    <3> QED BY <3>4, <3>6, <3>8, SMTT(30)
  <2>2. CASE ~(acquired /\ out_seq[t] = seq)
    BY <1>7, <2>2, SMTT(30) DEF Lock!ReleaseApi
  <2> QED BY <2>1, <2>2, Zenon
<1> QED BY <1>1, <1>2, <1>3, <1>4, <1>5, <1>6, <1>7, Zenon

LEMMA FirmwareSteps ==
    ASSUME LockInv, Lock!FwTry \/ Lock!FwRelease \/ Lock!HandleGlobalLock
    PROVE  LockInv'
<1> USE LockAssumption DEF LockInv, LockType, MutexInv, Lock!OneHolder, Lock!Holds, Lock!FirmwareIsTold,
                           Lock!Clients, Lock!None, Places, Lock!aml, Lock!api
<1>1. CASE Lock!FwTry
  <2>1. CASE facs.owned = Lock!None
    <3>1. fw' = "in" /\ facs' = [owned |-> "fw", pending |-> FALSE]
      BY <1>1, <2>1 DEF Lock!FwTry
    <3>2. \A t \in Lock!Clients : Lock!Holds(t) => at[t] \in {"notify", "unlock"}
      BY <2>1
    <3> QED BY <1>1, <2>1, <3>1, <3>2 DEF Lock!FwTry
  <2>2. CASE facs.owned # Lock!None
    <3>1. fw' = "waiting" /\ facs' = [facs EXCEPT !.pending = TRUE] /\ facs.owned = "os"
      BY <1>1, <2>2 DEF Lock!FwTry
    <3>2. facs'.owned = "os" /\ facs'.pending
      BY <3>1, SMTT(30)
    <3> QED BY <1>1, <2>2, <3>1, <3>2, Zenon DEF Lock!FwTry
  <2> QED BY <2>1, <2>2
<1>2. CASE Lock!FwRelease
  BY <1>2 DEF Lock!FwRelease
<1>3. CASE Lock!HandleGlobalLock
  BY <1>3 DEF Lock!HandleGlobalLock
<1> QED BY <1>1, <1>2, <1>3, Zenon

LEMMA LockStep == ASSUME LockInv, [Lock!Next]_(Lock!vars) PROVE LockInv'
<1>1. ASSUME NEW t \in Lock!Clients, Lock!Steps(t) \/ Lock!Begin(t) PROVE LockInv'
  BY <1>1, QuietSteps, WordSteps, SMTT(30) DEF Lock!Steps, Lock!Begin
<1>2. CASE UNCHANGED Lock!vars
  BY <1>2 DEF Lock!vars, Lock!lock, Lock!aml, Lock!api, LockInv, LockType, MutexInv, Lock!OneHolder, Lock!Holds,
              Lock!FirmwareIsTold
<1> QED BY <1>1, <1>2, FirmwareSteps DEF Lock!Next

\* At most one thread is inside the global lock, never together with the firmware, and the lock
\* word says who (uacpi_acquire_global_lock_from_firmware, uacpi_release_global_lock_to_firmware); a
\* firmware that waits is told of the release, whoever passes the lock on; and a thread that waits
\* for the mutex or the firmware does not hold the namespace lock
\* (uacpi_acquire_native_mutex_with_timeout's callers give it up).
THEOREM GlobalLockSafe == SyncSpec => []LockSafe
<1> DEFINE Inv == part = "lock" => LockInv
<1>1. SyncInit => Inv
  BY LockInit, Zenon DEF SyncInit
<1>2. ASSUME Inv, [SyncNext]_<<part, xs>> PROVE Inv'
  <2>1. part' = part
    BY <1>2 DEF SyncNext
  <2>2. part = "lock" => [Lock!Next]_(Lock!vars)
    <3>1. CASE SyncNext
      BY <3>1, Zenon DEF SyncNext
    <3>2. CASE UNCHANGED xs
      BY <3>2 DEF xs, Lock!vars, Lock!lock, Lock!aml, Lock!api
    <3> QED BY <1>2, <3>1, <3>2
  <2> QED BY <1>2, <2>1, <2>2, LockStep
<1>3. Inv => LockSafe
  BY DEF LockInv, LockSafe, Lock!LockSafe, MutexInv, Lock!WaitsWithoutNamespace
<1> QED BY <1>1, <1>2, <1>3, PTL DEF SyncSpec
=============================================================================
