---------------------------- MODULE DriverProofs ----------------------------
(***************************************************************************)
(* The kernel's drivers keep their promises for every value of their        *)
(* constants.  Each is a part of the composition in Drivers, which says      *)
(* what is assumed of the constants.                                         *)
(***************************************************************************)
EXTENDS Drivers, WellFoundedInduction, TLAPS

\* The part that runs stays the same, and takes its own steps.
LEMMA PartStarts ==
    ASSUME DriversInit
    PROVE  /\ part = "timer" => Tick!Init
           /\ part = "nvme" => Disk!Init
           /\ part = "interrupts" => Irq!Init
           /\ part = "pci" => Bus!Init
  BY Zenon DEF DriversInit

LEMMA PartSteps ==
    ASSUME [DriversNext]_<<part, s>>
    PROVE  /\ part' = part
           /\ part = "timer" => [Tick!Next]_s
           /\ part = "nvme" => [Disk!Next]_s
           /\ part = "interrupts" => [Irq!Next]_s
           /\ part = "pci" => [Bus!Next]_s
  BY Zenon DEF DriversNext

-----------------------------------------------------------------------------
(* The timer *)

TickPlaces == {"boot", "idle", "test", "halt", "halted", "slept",
               "save", "mask", "load", "count", "restore", "restart", "waited"}
TickType ==
    s \in [lvt : {"masked", "periodic"}, initial : Nat, count : Nat, ticks : Nat, period : Nat,
           irq : BOOLEAN, pc : TickPlaces, start : Nat, target : Nat, saved : {"masked", "periodic"},
           missed : BOOLEAN, passed : Nat]

\* The counter belongs to the periodic timer, is on loan to a busy wait, or on its way back.
Periodic == s.lvt = "periodic" /\ s.initial = s.period /\ s.count \in 1 .. s.period
OnLoan == s.lvt = "masked" /\ s.saved = "periodic"
TickInv ==
    /\ TickType
    /\ s.pc # "boot" => s.period > 0
    /\ s.pc \in {"idle", "test", "halt", "halted", "slept", "save", "mask", "waited"} => Periodic
    /\ s.pc = "mask" => s.saved = "periodic"
    /\ s.pc \in {"load", "count", "restore"} => OnLoan
    /\ s.pc \in {"save", "mask", "load"} => s.passed = 0
    /\ s.pc \in {"save", "mask", "load", "count"} => s.target \in 1 .. MaxWait
    /\ s.pc = "count" => s.passed + s.count >= s.target
    /\ s.pc = "restart" => s.lvt = "periodic" /\ s.count = 0
    /\ s.pc = "restore" => s.count = 0
    /\ s.pc \in {"restore", "restart", "waited"} => s.passed >= s.target
    /\ s.start <= s.ticks
    /\ s.pc = "slept" => s.ticks >= s.start + s.target

LEMMA TickStep ==
    ASSUME TickInv, [Tick!Next]_s
    PROVE  TickInv'
<1> USE TimerAssumption DEF TickInv, TickType, TickPlaces, Periodic, OnLoan
<1>1. CASE Tick!init_apic_timer
  <2>1. PICK t \in Periods :
           s' = [s EXCEPT !.pc = "idle", !.period = t, !.lvt = "periodic", !.initial = t, !.count = t]
    BY <1>1, Zenon DEF Tick!init_apic_timer
  <2>2. TickType'
    BY <2>1, Zenon
  <2> QED BY <2>1, <2>2
<1>2. CASE Tick!Clock
  <2> DEFINE c == IF s.count > 1 THEN s.count - 1 ELSE IF s.lvt = "periodic" THEN s.initial ELSE 0
             i == s.irq \/ (s.count = 1 /\ s.lvt = "periodic")
             m == s.missed \/ (s.irq /\ s.count = 1 /\ s.lvt = "periodic")
             p == IF s.pc \in {"count", "spin", "restore", "restart"} /\ s.passed < MaxWait
                  THEN s.passed + 1 ELSE s.passed
  <2>1. s' = [s EXCEPT !.count = c, !.irq = i, !.missed = m, !.passed = p]
    BY <1>2 DEF Tick!Clock
  <2>2. c \in Nat /\ i \in BOOLEAN /\ m \in BOOLEAN /\ p \in Nat
    OBVIOUS
  <2>3. TickType'
    <3> HIDE DEF c, i, m, p
    <3> QED BY <2>1, <2>2, ZenonT(60)
  <2>4. s'.count = c /\ s'.passed = p /\ s' = [s EXCEPT !.count = s'.count, !.irq = s'.irq, !.missed = s'.missed, !.passed = s'.passed]
    <3> HIDE DEF c, i, m, p
    <3> QED BY <2>1
  <2> QED BY <1>2, <2>3, <2>4 DEF Tick!Clock
<1>3. CASE Tick!apic_timer_handler
  <2>1. PICK to \in TickPlaces :
           /\ s' = [s EXCEPT !.irq = FALSE, !.ticks = @ + 1, !.pc = to]
           /\ to = IF s.pc = "halted" THEN "test" ELSE s.pc
    BY <1>3, Zenon DEF Tick!apic_timer_handler
  <2>2. TickType'
    <3> HIDE DEF TickPlaces
    <3>1. s' = [s EXCEPT !.irq = FALSE, !.ticks = s.ticks + 1, !.pc = to] /\ s.ticks + 1 \in Nat
      BY <2>1
    <3> QED BY <3>1, Zenon
  <2> QED BY <2>1, <2>2
<1>4. ASSUME NEW n \in 0 .. MaxSleep, Tick!Sleep(n) PROVE TickInv'
  <2>1. n \in Nat /\ s.pc = "idle" /\ s' = [s EXCEPT !.pc = "test", !.start = s.ticks, !.target = n]
    BY <1>4 DEF Tick!Sleep
  <2>2. TickType'
    BY <2>1, Zenon
  <2> QED BY <2>1, <2>2
<1>5. CASE Tick!Test
  <2>1. TickType'
    BY <1>5 DEF Tick!Test
  <2> QED BY <1>5, <2>1 DEF Tick!Test
<1>6. CASE Tick!Halt
  <2>1. TickType'
    BY <1>6 DEF Tick!Halt
  <2> QED BY <1>6, <2>1 DEF Tick!Halt
<1>7. CASE Tick!Slept
  <2>1. TickType'
    BY <1>7, Zenon DEF Tick!Slept
  <2> QED BY <1>7, <2>1 DEF Tick!Slept
<1>8. ASSUME NEW n \in 0 .. MaxWait, Tick!Wait(n) PROVE TickInv'
  <2> DEFINE m == IF n = 0 THEN 1 ELSE n
  <2>1. m \in 1 .. MaxWait /\ m \in Nat
    OBVIOUS
  <2> HIDE DEF m
  <2>2. s.pc = "idle" /\ s' = [s EXCEPT !.pc = "save", !.target = m, !.passed = 0]
    BY <1>8 DEF Tick!Wait, m
  <2>3. TickType'
    BY <2>1, <2>2, Zenon
  <2> QED BY <2>1, <2>2, <2>3
<1>9. CASE Tick!Save
  <2>1. TickType'
    BY <1>9, Zenon DEF Tick!Save
  <2> QED BY <1>9, <2>1 DEF Tick!Save
<1>10. CASE Tick!Mask
  <2>1. TickType'
    BY <1>10, Zenon DEF Tick!Mask
  <2> QED BY <1>10, <2>1 DEF Tick!Mask
<1>11. CASE Tick!Load
  <2>1. TickType'
    BY <1>11, Zenon DEF Tick!Load
  <2> QED BY <1>11, <2>1 DEF Tick!Load
<1>12. CASE Tick!Spin
  <2>1. TickType'
    BY <1>12 DEF Tick!Spin
  <2> QED BY <1>12, <2>1 DEF Tick!Spin
<1>13. CASE Tick!Restore
  <2>1. TickType'
    BY <1>13, Zenon DEF Tick!Restore
  <2> QED BY <1>13, <2>1 DEF Tick!Restore
<1>14. CASE Tick!Restart
  <2>1. TickType'
    BY <1>14, Zenon DEF Tick!Restart
  <2> QED BY <1>14, <2>1 DEF Tick!Restart
<1>15. CASE Tick!Waited
  <2>1. TickType'
    BY <1>15, Zenon DEF Tick!Waited
  <2> QED BY <1>15, <2>1 DEF Tick!Waited
<1>16. CASE UNCHANGED s
  BY <1>16
<1> QED
  BY <1>1, <1>2, <1>3, <1>4, <1>5, <1>6, <1>7, <1>8, <1>9, <1>10, <1>11, <1>12, <1>13, <1>14, <1>15, <1>16, ZenonT(60) DEF Tick!Next

\* For every period that calibration finds and every wait: lapic_busy_wait_ticks gives the counter
\* back as it was, and takes at least its time; sleep returns after its ticks.
THEOREM TimerIsRestored == DriversSpec => []TimerRestored
<1> DEFINE Inv == part = "timer" => TickInv
<1>1. Tick!Init => TickInv
  BY TimerAssumption DEF TickInv, TickType, TickPlaces, Tick!Init
<1>2. DriversInit => Inv
  BY <1>1, PartStarts
<1>3. Inv /\ [DriversNext]_<<part, s>> => Inv'
  BY PartSteps, TickStep
<1>4. Inv => TimerRestored
  BY DEF TickInv, TickType, Periodic, TimerRestored, Tick!TimerRestored
<1> QED BY <1>2, <1>3, <1>4, PTL DEF DriversSpec

-----------------------------------------------------------------------------
(* The NVMe driver *)

Places == 0 .. N - 1
RingType(r) ==
    /\ r = [sq |-> r.sq, tail |-> r.tail, head |-> r.head, phase |-> r.phase, cq |-> r.cq,
            fetch |-> r.fetch, post |-> r.post, bit |-> r.bit, unread |-> r.unread]
    /\ r.sq = [i \in Places |-> r.sq[i]]
    /\ r.tail \in Places /\ r.head \in Places /\ r.phase \in 0 .. 1
    /\ r.cq = [i \in Places |-> r.cq[i]]
    /\ r.fetch \in Places /\ r.post \in Places /\ r.bit \in 0 .. 1 /\ r.unread \in Places

\* Entries before the controller's index bear the phase of this lap, the others that of the last;
\* the driver's index is behind it by the entries not taken, in the same lap or one behind.
InLap(r) ==
    /\ \A i \in Places : r.cq[i].phase = IF i < r.post THEN r.bit ELSE 1 - r.bit
    /\ \/ r.head <= r.post /\ r.phase = r.bit /\ r.unread = r.post - r.head
       \/ r.head > r.post /\ r.phase = 1 - r.bit /\ r.unread = r.post - r.head + N

LEMMA NextPlace ==
    ASSUME NEW i \in Places
    PROVE  (i + 1) % N \in Places /\ (i + 1) % N = IF i = N - 1 THEN 0 ELSE i + 1
  BY NvmeAssumption DEF Places

\* What AdminDone and IoDone do to a ring, Execute, and a new command
Taken(r) ==
    [r EXCEPT !.head = (@ + 1) % N, !.phase = IF r.head = N - 1 THEN 1 - @ ELSE @,
              !.unread = IF @ = 0 THEN 0 ELSE @ - 1]
Posted(r, ok) ==
    [r EXCEPT !.fetch = (@ + 1) % N, !.post = (@ + 1) % N, !.unread = @ + 1,
              !.bit = IF r.post = N - 1 THEN 1 - @ ELSE @,
              !.cq = [@ EXCEPT ![r.post] = [ok |-> ok, phase |-> r.bit]]]
Submitted(r, cmd) == [r EXCEPT !.sq = [@ EXCEPT ![r.tail] = cmd], !.tail = (@ + 1) % N]

\* An entry that looks new is one that the driver has not taken.
LEMMA NewIsUnread ==
    ASSUME NEW r, RingType(r), InLap(r), r.cq[r.head].phase = r.phase
    PROVE  r.unread > 0
  BY NvmeAssumption, SMTT(30) DEF Places, RingType, InLap

LEMMA TakenOK ==
    ASSUME NEW r, RingType(r)
    PROVE  /\ RingType(Taken(r))
           /\ Taken(r).sq = r.sq /\ Taken(r).tail = r.tail /\ Taken(r).fetch = r.fetch
           /\ Taken(r).unread = IF r.unread = 0 THEN 0 ELSE r.unread - 1
           /\ InLap(r) /\ r.unread > 0 => InLap(Taken(r))
<1>1. (r.head + 1) % N \in Places /\ (r.head + 1) % N = IF r.head = N - 1 THEN 0 ELSE r.head + 1
  BY NextPlace DEF RingType
<1> DEFINE h == (r.head + 1) % N
           p == IF r.head = N - 1 THEN 1 - r.phase ELSE r.phase
           u == IF r.unread = 0 THEN 0 ELSE r.unread - 1
<1>2. Taken(r) = [r EXCEPT !.head = h, !.phase = p, !.unread = u]
  BY DEF Taken
<1>3. /\ h \in Places /\ p \in 0 .. 1 /\ u \in Places
      /\ h = IF r.head = N - 1 THEN 0 ELSE r.head + 1
      /\ p = IF r.head = N - 1 THEN 1 - r.phase ELSE r.phase
      /\ u = IF r.unread = 0 THEN 0 ELSE r.unread - 1
  <2>1. p \in 0 .. 1 /\ u \in Places
    BY NvmeAssumption DEF RingType, Places
  <2> QED BY <1>1, <2>1, Zenon
<1> HIDE DEF h, p, u
<1>4. Taken(r) = [sq |-> r.sq, tail |-> r.tail, head |-> h, phase |-> p, cq |-> r.cq,
            fetch |-> r.fetch, post |-> r.post, bit |-> r.bit, unread |-> u]
  BY <1>2, Zenon DEF RingType
<1>5. RingType(Taken(r))
  BY <1>3, <1>4 DEF RingType
<1>6. ASSUME InLap(r), r.unread > 0 PROVE InLap(Taken(r))
  <2>1. Taken(r).cq = r.cq /\ Taken(r).post = r.post /\ Taken(r).bit = r.bit
    BY <1>4
  <2>2. Taken(r).head = h /\ Taken(r).phase = p /\ Taken(r).unread = u
    BY <1>4
  <2>3. /\ N \in Nat /\ r.head \in 0 .. N - 1 /\ r.post \in 0 .. N - 1 /\ r.unread \in Nat
        /\ r.bit \in 0 .. 1 /\ r.phase \in 0 .. 1
    BY NvmeAssumption DEF RingType, Places
  <2>4. \/ h <= r.post /\ p = r.bit /\ u = r.post - h
        \/ h > r.post /\ p = 1 - r.bit /\ u = r.post - h + N
    BY <1>3, <1>6, <2>3 DEF InLap
  <2> QED BY <1>6, <2>1, <2>2, <2>4 DEF InLap
<1> QED BY <1>3, <1>4, <1>5, <1>6

LEMMA PostedOK ==
    ASSUME NEW r, RingType(r), r.unread < N - 1, NEW ok \in BOOLEAN
    PROVE  /\ RingType(Posted(r, ok))
           /\ Posted(r, ok).tail = r.tail /\ Posted(r, ok).fetch = (r.fetch + 1) % N
           /\ Posted(r, ok).unread = r.unread + 1
           /\ InLap(r) => InLap(Posted(r, ok))
           /\ InLap(r) /\ r.unread = 0 => Posted(r, ok).cq[Posted(r, ok).head].ok = ok
<1>1. /\ (r.post + 1) % N \in Places /\ (r.post + 1) % N = IF r.post = N - 1 THEN 0 ELSE r.post + 1
      /\ (r.fetch + 1) % N \in Places
  BY NextPlace DEF RingType
<1> DEFINE f == (r.fetch + 1) % N
           p == (r.post + 1) % N
           b == IF r.post = N - 1 THEN 1 - r.bit ELSE r.bit
           c == [r.cq EXCEPT ![r.post] = [ok |-> ok, phase |-> r.bit]]
           u == r.unread + 1
<1>2. Posted(r, ok) = [r EXCEPT !.fetch = f, !.post = p, !.unread = u, !.bit = b, !.cq = c]
  BY DEF Posted
<1>3. /\ f \in Places /\ p \in Places /\ b \in 0 .. 1 /\ u \in Places /\ u = r.unread + 1
      /\ p = IF r.post = N - 1 THEN 0 ELSE r.post + 1
      /\ b = IF r.post = N - 1 THEN 1 - r.bit ELSE r.bit
  <2>1. b \in 0 .. 1 /\ u \in Places
    BY NvmeAssumption DEF RingType, Places
  <2> QED BY <1>1, <2>1, Zenon
<1>4. /\ c = [i \in Places |-> c[i]] /\ c[r.post].phase = r.bit /\ c[r.post].ok = ok
      /\ \A i \in Places \ {r.post} : c[i] = r.cq[i]
  BY DEF RingType
<1>8. f = (r.fetch + 1) % N
  OBVIOUS
<1> HIDE DEF f, p, b, c, u
<1>5. Posted(r, ok) = [sq |-> r.sq, tail |-> r.tail, head |-> r.head, phase |-> r.phase, cq |-> c,
            fetch |-> f, post |-> p, bit |-> b, unread |-> u]
  BY <1>2, ZenonT(60) DEF RingType
<1>6. RingType(Posted(r, ok))
  BY <1>3, <1>4, <1>5 DEF RingType
<1>7. ASSUME InLap(r) PROVE InLap(Posted(r, ok))
  <2>1. /\ Posted(r, ok).cq = c /\ Posted(r, ok).post = p /\ Posted(r, ok).bit = b
        /\ Posted(r, ok).head = r.head /\ Posted(r, ok).phase = r.phase /\ Posted(r, ok).unread = u
    BY <1>5
  <2>2. /\ N \in Nat /\ r.head \in 0 .. N - 1 /\ r.post \in 0 .. N - 1 /\ r.unread \in Nat
        /\ r.bit \in 0 .. 1 /\ r.phase \in 0 .. 1
    BY NvmeAssumption DEF RingType, Places
  <2>3. \/ r.head <= p /\ r.phase = b /\ u = p - r.head
        \/ r.head > p /\ r.phase = 1 - b /\ u = p - r.head + N
    BY <1>3, <1>7, <2>2 DEF InLap
  <2>4. ASSUME NEW i \in Places PROVE c[i].phase = IF i < p THEN b ELSE 1 - b
    <3>1. i \in 0 .. N - 1 /\ r.cq[i].phase = IF i < r.post THEN r.bit ELSE 1 - r.bit
      BY <1>7, <2>4 DEF InLap, Places
    <3>2. c[i].phase = IF i = r.post THEN r.bit ELSE r.cq[i].phase
      BY <1>4, <2>4
    <3> QED BY <1>3, <2>2, <3>1, <3>2
  <2> QED BY <2>1, <2>3, <2>4 DEF InLap
<1>9. ASSUME InLap(r), r.unread = 0 PROVE r.head = r.post
  BY <1>9, NvmeAssumption DEF InLap, RingType, Places
<1> QED BY <1>3, <1>4, <1>5, <1>6, <1>7, <1>8, <1>9

LEMMA SubmittedOK ==
    ASSUME NEW r, RingType(r), NEW cmd
    PROVE  /\ RingType(Submitted(r, cmd))
           /\ Submitted(r, cmd).tail = (r.tail + 1) % N /\ Submitted(r, cmd).fetch = r.fetch
           /\ Submitted(r, cmd).unread = r.unread /\ Submitted(r, cmd).sq[r.tail] = cmd
           /\ InLap(r) => InLap(Submitted(r, cmd))
<1> DEFINE q == [r.sq EXCEPT ![r.tail] = cmd]
           t == (r.tail + 1) % N
<1>1. Submitted(r, cmd) = [r EXCEPT !.sq = q, !.tail = t]
  BY DEF Submitted
<1>2. t \in Places /\ t = (r.tail + 1) % N
  BY NextPlace DEF RingType
<1>3. q = [i \in Places |-> q[i]] /\ q[r.tail] = cmd
  BY DEF RingType
<1> HIDE DEF q, t
<1>4. Submitted(r, cmd) = [sq |-> q, tail |-> t, head |-> r.head, phase |-> r.phase, cq |-> r.cq,
            fetch |-> r.fetch, post |-> r.post, bit |-> r.bit, unread |-> r.unread]
  BY <1>1, Zenon DEF RingType
<1>5. RingType(Submitted(r, cmd))
  BY <1>2, <1>3, <1>4, SMTT(30) DEF RingType
<1> QED BY <1>2, <1>3, <1>4, <1>5 DEF InLap

DiskType ==
    /\ s = [pc |-> s.pc, ready |-> s.ready, todo |-> s.todo, q |-> s.q, dirty |-> s.dirty,
            invented |-> s.invented, disk |-> s.disk, buf |-> s.buf, pages |-> s.pages,
            late |-> s.late, result |-> s.result]
    /\ s.q = [admin |-> s.q.admin, io |-> s.q.io]
    /\ RingType(s.q.admin) /\ RingType(s.q.io)
    /\ s.disk = [l \in Lbas |-> s.disk[l]]

Laps ==
    /\ "admin" \notin s.dirty => InLap(s.q.admin)
    /\ "io" \notin s.dirty => InLap(s.q.io)

\* With one command at a time, the queue is empty between calls; during a call nothing was sent,
\* or the command waits in the ring, or its completion does and what it says is true.
Empty(r) == r.fetch = r.tail /\ r.unread = 0
Waiting(r) ==
    /\ r.tail = (r.fetch + 1) % N /\ r.unread = 0
    /\ r.sq[r.fetch] = [op |-> s.result.op, lba |-> s.result.lba]
Answered(r) ==
    /\ r.fetch = r.tail /\ r.unread = 1
    /\ r.cq[r.head].ok => s.buf = s.disk[s.result.lba]
OneCommand ==
    "io" \notin s.dirty /\ ~s.late =>
        /\ s.pc # "io" => Empty(s.q.io)
        /\ s.pc = "ready" /\ s.result # Disk!NoCommand /\ s.result.ok => s.buf = s.disk[s.result.lba]
        /\ s.pc = "io" => Empty(s.q.io) \/ Waiting(s.q.io) \/ Answered(s.q.io)

InCall ==
    /\ s.pc = "io" =>
           /\ s.result = [op |-> s.result.op, lba |-> s.result.lba, ok |-> s.result.ok, done |-> s.result.done]
           /\ s.result.op \in {"read", "write"} /\ s.result.lba \in Lbas
    /\ s.pc \notin {"ready", "io"} => s.result = Disk!NoCommand
    /\ s.pc \in {"ready", "io"} => s.q.admin.fetch = s.q.admin.tail

DiskInv == DiskType /\ Laps /\ OneCommand /\ InCall /\ Disk!TakesOnlyPosted

LEMMA RingOK ==
    ASSUME NEW stale \in 0 .. 1
    PROVE  /\ RingType(Disk!Ring(stale)) /\ Empty(Disk!Ring(stale))
           /\ stale = 0 => InLap(Disk!Ring(stale))
  BY NvmeAssumption DEF Disk!Ring, RingType, Empty, InLap, Places

LEMMA DiskInit == ASSUME Disk!Init PROVE DiskInv
<1>1. PICK stale \in 0 .. 1, old \in Places, d \in [Lbas -> Data], b \in Data :
        s = [pc |-> "off", ready |-> TRUE, todo |-> <<>>,
             q |-> [admin |-> Disk!Ring(stale), io |-> [Disk!Ring(0) EXCEPT !.tail = old, !.head = old]],
             dirty |-> (IF stale = 0 THEN {} ELSE {"admin"}) \cup (IF old = 0 THEN {} ELSE {"io"}),
             invented |-> {}, disk |-> d, buf |-> b, pages |-> MaxPages,
             late |-> FALSE, result |-> Disk!NoCommand]
  BY Zenon DEF Disk!Init, Places
<1> DEFINE io == [Disk!Ring(0) EXCEPT !.tail = old, !.head = old]
<1>2. RingType(io) /\ (old = 0 => InLap(io) /\ Empty(io))
  <2> DEFINE r == Disk!Ring(0)
  <2>3. RingType(r) /\ InLap(r) /\ r.tail = 0 /\ r.head = 0
    BY RingOK DEF Disk!Ring
  <2> HIDE DEF r
  <2>1. io = [r EXCEPT !.tail = old, !.head = old]
    BY DEF r
  <2> HIDE DEF io
  <2>2. io = [sq |-> r.sq, tail |-> old, head |-> old, phase |-> r.phase, cq |-> r.cq,
              fetch |-> r.fetch, post |-> r.post, bit |-> r.bit, unread |-> r.unread]
    BY <2>1, <2>3, Zenon DEF RingType
  <2>4. RingType(io)
    BY <2>2, <2>3 DEF RingType
  <2>5. ASSUME old = 0 PROVE io = Disk!Ring(0)
    BY <2>2, <2>3, <2>5 DEF RingType, r
  <2> QED BY <2>3, <2>4, <2>5, RingOK
<1> HIDE DEF io
<1>3. RingType(Disk!Ring(stale)) /\ (stale = 0 => InLap(Disk!Ring(stale)))
  BY RingOK
<1>4. s.q = [admin |-> Disk!Ring(stale), io |-> io]
  BY <1>1 DEF io
<1>5. /\ s.pc = "off" /\ s.disk = d /\ s.result = Disk!NoCommand /\ s.invented = {}
      /\ "admin" \notin s.dirty => stale = 0
      /\ "io" \notin s.dirty => old = 0
  BY <1>1
<1>6. DiskType
  BY <1>1, <1>2, <1>3, <1>4 DEF DiskType
<1> QED BY <1>2, <1>3, <1>4, <1>5, <1>6 DEF DiskInv, Laps, OneCommand, InCall, Disk!TakesOnlyPosted

LEMMA OneQueue ==
    ASSUME NEW q, q = [admin |-> q.admin, io |-> q.io], NEW r
    PROVE  /\ [q EXCEPT !["admin"] = r] = [admin |-> r, io |-> q.io]
           /\ [q EXCEPT !["io"] = r] = [admin |-> q.admin, io |-> r]
<1>1. PICK p : p = [q EXCEPT !["admin"] = r]
  BY Zenon
<1>2. PICK p2 : p2 = [q EXCEPT !["io"] = r]
  BY Zenon
<1>3. p = [admin |-> r, io |-> q.io]
  BY <1>1, Zenon
<1>4. p2 = [admin |-> q.admin, io |-> r]
  BY <1>2, ZenonT(60)
<1> QED BY <1>1, <1>2, <1>3, <1>4, Zenon

\* The driver's changes to its rings, one ring at a time
LEMMA QueueSteps ==
    ASSUME DiskType, NEW k \in {"admin", "io"}, NEW cmd
    PROVE  /\ Disk!Submit(k, cmd) = [s.q EXCEPT ![k] = Submitted(s.q[k], cmd)]
           /\ Disk!Take(k) = [s.q EXCEPT ![k] = Taken(s.q[k])]
<1> DEFINE q == s.q
<1>1. q = [admin |-> q.admin, io |-> q.io] /\ RingType(q[k])
  BY DEF DiskType
<1> HIDE DEF q
<1>2. [q EXCEPT ![k].sq = [@ EXCEPT ![q[k].tail] = cmd], ![k].tail = (@ + 1) % N]
        = [q EXCEPT ![k] = Submitted(q[k], cmd)]
  BY <1>1, Zenon DEF Submitted, RingType
<1>3. [q EXCEPT ![k].head = (@ + 1) % N, ![k].phase = IF q[k].head = N - 1 THEN 1 - @ ELSE @,
                ![k].unread = IF @ = 0 THEN 0 ELSE @ - 1]
        = [q EXCEPT ![k] = Taken(q[k])]
  BY <1>1, Zenon DEF Taken, RingType
<1> QED BY <1>2, <1>3 DEF q, Disk!Submit, Disk!Take

\* Steps that leave the rings, the disk and the calls alone
LEMMA DiskBringUp ==
    ASSUME DiskInv, Disk!Start \/ Disk!WaitDisabled \/ Disk!Reset \/ Disk!AdminTimeout
    PROVE  DiskInv'
<1> DEFINE frame == /\ s'.q = s.q /\ s'.dirty = s.dirty /\ s'.invented = s.invented /\ s'.disk = s.disk
                    /\ s'.late = s.late /\ s'.result = s.result /\ s'.buf = s.buf
<1>1. ASSUME NEW pc, s' = [s EXCEPT !.pc = pc], pc \notin {"ready", "io"}, s.pc \notin {"ready", "io"}
      PROVE  DiskInv'
  <2>1. frame /\ s'.pc = pc
    BY <1>1 DEF DiskInv, DiskType
  <2>2. DiskType'
    BY <1>1, <2>1 DEF DiskInv, DiskType
  <2> QED BY <1>1, <2>1, <2>2 DEF DiskInv, Laps, OneCommand, InCall, Disk!TakesOnlyPosted, Empty
<1>2. CASE Disk!Reset
  <2>1. frame /\ s'.pc = s.pc /\ s.pc \notin {"ready", "io"} /\ s' = [s EXCEPT !.ready = s'.ready]
    BY <1>2 DEF DiskInv, DiskType, Disk!Reset
  <2>2. DiskType'
    BY <2>1 DEF DiskInv, DiskType
  <2> QED BY <2>1, <2>2 DEF DiskInv, Laps, OneCommand, InCall, Disk!TakesOnlyPosted, Empty
<1>3. CASE Disk!Start
  BY <1>1, <1>3 DEF Disk!Start
<1>4. CASE Disk!WaitDisabled
  BY <1>1, <1>4 DEF Disk!WaitDisabled
<1>5. CASE Disk!AdminTimeout
  <2>1. s.pc = "admin" /\ (s' = [s EXCEPT !.pc = "no disk"] \/ s' = [s EXCEPT !.pc = "failed"])
    BY <1>5, Zenon DEF Disk!AdminTimeout
  <2> QED BY <1>1, <2>1, Zenon
<1> QED BY <1>2, <1>3, <1>4, <1>5, SMTT(30)

\* What becomes of the admin rings
LEMMA DiskAdmin ==
    ASSUME DiskInv, Disk!WaitEnabled \/ Disk!AdminDone
    PROVE  DiskInv'
<1> DEFINE r == s.q.admin
<1>1. RingType(r) /\ ("admin" \notin s.dirty => InLap(r))
  BY DEF DiskInv, DiskType, Laps
<1> HIDE DEF r
\* Either way only the admin rings, the command to come and the place change.
<1>2. ASSUME NEW a, RingType(a), "admin" \notin s.dirty => InLap(a), NEW i \in SUBSET {"admin"},
             i \subseteq s.dirty, NEW to, to # "io", to = "ready" => a.fetch = a.tail,
             s.pc \notin {"ready", "io"}, NEW todo,
             s' = [s EXCEPT !.pc = to, !.todo = todo, !.q = [admin |-> a, io |-> s.q.io],
                            !.invented = s.invented \cup i]
      PROVE  DiskInv'
  <2>1. /\ s'.pc = to /\ s'.q = [admin |-> a, io |-> s.q.io] /\ s'.dirty = s.dirty /\ s'.disk = s.disk
        /\ s'.invented = s.invented \cup i /\ s'.late = s.late /\ s'.result = s.result /\ s'.buf = s.buf
    BY <1>2 DEF DiskInv, DiskType
  <2>2. s'.q.admin = a /\ s'.q.io = s.q.io
    BY <2>1
  <2>3. DiskType'
    BY <1>2, <2>1, <2>2, Zenon DEF DiskInv, DiskType
  <2> QED BY <1>2, <2>1, <2>2, <2>3 DEF DiskInv, Laps, OneCommand, InCall, Disk!TakesOnlyPosted, Empty
<1>3. CASE Disk!WaitEnabled
  <2> DEFINE cmd == [op |-> Head(Disk!Commands)]
             todo == Tail(Disk!Commands)
  <2>1. Disk!Submit("admin", cmd) = [admin |-> Submitted(r, cmd), io |-> s.q.io]
    BY QueueSteps, OneQueue, SMTT(30) DEF DiskInv, DiskType, r
  <2>2. s.pc = "enabling" /\ s' = [s EXCEPT !.pc = "admin", !.q = Disk!Submit("admin", cmd), !.todo = todo]
    BY <1>3 DEF Disk!WaitEnabled
  <2> HIDE DEF cmd, todo
  <2>3. s' = [s EXCEPT !.pc = "admin", !.todo = todo, !.q = [admin |-> Submitted(r, cmd), io |-> s.q.io],
                       !.invented = s.invented \cup {}]
    BY <2>1, <2>2, Zenon DEF DiskInv, DiskType
  <2>4. RingType(Submitted(r, cmd)) /\ ("admin" \notin s.dirty => InLap(Submitted(r, cmd)))
    BY <1>1, SubmittedOK
  <2> QED BY <1>2, <2>2, <2>3, <2>4, ZenonT(60)
<1>4. CASE Disk!AdminDone
  <2> DEFINE ok == r.cq[r.head].ok
             on == ok /\ s.todo # <<>>
             to == IF on THEN "admin" ELSE IF ok THEN "ready" ELSE IF s.todo = <<>> THEN "no disk" ELSE "failed"
             todo == IF on THEN Tail(s.todo) ELSE s.todo
             cmd == [op |-> Head(s.todo)]
             a == IF on THEN Submitted(Taken(r), cmd) ELSE Disk!Ring(0)
             i == Disk!Invented("admin")
  <2>1. s.pc = "admin" /\ r.cq[r.head].phase = r.phase
    BY <1>4, Zenon DEF Disk!AdminDone, Disk!Arrived, r
  <2>2. Disk!Take("admin") = [admin |-> Taken(r), io |-> s.q.io] /\ Taken(r).tail = r.tail
    <3>1. Disk!Take("admin") = [admin |-> Taken(r), io |-> s.q.io]
      BY QueueSteps, OneQueue DEF DiskInv, DiskType, r
    <3> QED BY <1>1, <3>1, TakenOK, SMTT(30)
  <2> DEFINE q2 == Disk!Take("admin")
             tl == q2.admin.tail
             q3 == IF on THEN [q2 EXCEPT !.admin.sq = [@ EXCEPT ![tl] = cmd], !.admin.tail = (tl + 1) % N]
                   ELSE [q2 EXCEPT !.admin = Disk!Ring(0)]
  <2>3. q3 = [admin |-> a, io |-> s.q.io]
    <3>1. q2 = [admin |-> q2.admin, io |-> s.q.io] /\ q2.admin = Taken(r) /\ tl = Taken(r).tail
      BY <2>2
    <3>2. q2 = [admin |-> q2.admin, io |-> q2.io] /\ q2.io = s.q.io
      BY <2>2
    <3> HIDE DEF q2, ok
    <3>3. [q2 EXCEPT !.admin.sq = [@ EXCEPT ![tl] = cmd], !.admin.tail = (tl + 1) % N]
             = [q2 EXCEPT !["admin"] = Submitted(q2.admin, cmd)]
      BY <3>2, Zenon DEF Submitted
    <3> QED BY <3>1, <3>2, <3>3, OneQueue, ZenonT(60)
  <2>4. s' = [s EXCEPT !.invented = s.invented \cup i, !.pc = to, !.todo = todo, !.q = q3]
    BY <1>4 DEF Disk!AdminDone, r
  <2>5. i \in SUBSET {"admin"} /\ i \subseteq s.dirty
    BY <1>1, <2>1, NewIsUnread DEF Disk!Invented, r
  <2>6. RingType(Taken(r)) /\ ("admin" \notin s.dirty => InLap(Taken(r)))
    BY <1>1, <2>1, NewIsUnread, TakenOK, SMTT(30)
  <2>7. /\ RingType(a) /\ ("admin" \notin s.dirty => InLap(a))
        /\ to = "ready" => a.fetch = a.tail
        /\ to # "io"
    BY <2>6, SubmittedOK, RingOK DEF Empty
  <2> HIDE DEF a, i, to, todo, q3
  <2>8. s' = [s EXCEPT !.pc = to, !.todo = todo, !.q = [admin |-> a, io |-> s.q.io],
                       !.invented = s.invented \cup i]
    BY <2>3, <2>4, Zenon DEF DiskInv, DiskType
  <2> QED BY <1>2, <2>1, <2>5, <2>7, <2>8, Zenon
<1> QED BY <1>3, <1>4

\* The controller's step
LEMMA DiskExecute ==
    ASSUME DiskInv, NEW k \in Disk!Queues, NEW ok \in BOOLEAN, Disk!Execute(k, ok)
    PROVE  DiskInv'
<1> DEFINE r == s.q[k]
           cmd == r.sq[r.fetch]
           d == IF ok /\ cmd.op = "write" THEN [s.disk EXCEPT ![cmd.lba] = s.buf] ELSE s.disk
           b == IF ok /\ cmd.op = "read" THEN s.disk[cmd.lba] ELSE s.buf
<1>1. r.fetch # r.tail /\ r.unread < N - 1 /\ (k = "io" => s.pc \in {"ready", "io"})
  BY Zenon DEF Disk!Execute
<1>2. s' = [s EXCEPT !.q[k] = Posted(r, ok), !.disk = d, !.buf = b]
  BY ZenonT(60) DEF Disk!Execute, Posted
<1>3. RingType(r) /\ k \in {"admin", "io"} /\ d = [l \in Lbas |-> d[l]]
  BY Zenon DEF DiskInv, DiskType, Disk!Queues
<1>4. /\ RingType(Posted(r, ok)) /\ (InLap(r) => InLap(Posted(r, ok)))
      /\ Posted(r, ok).tail = r.tail /\ Posted(r, ok).fetch = (r.fetch + 1) % N
      /\ Posted(r, ok).unread = r.unread + 1
      /\ InLap(r) /\ r.unread = 0 => Posted(r, ok).cq[Posted(r, ok).head].ok = ok
  BY <1>1, <1>3, PostedOK, Zenon
<1> DEFINE p == Posted(r, ok)
<1> HIDE DEF d, b, p
<1>5. s' = [s EXCEPT !.q = [s.q EXCEPT ![k] = p], !.disk = d, !.buf = b]
  BY <1>2 DEF p, DiskInv, DiskType
<1>6. /\ s'.q = [s.q EXCEPT ![k] = p] /\ s'.disk = d /\ s'.buf = b
      /\ s'.pc = s.pc /\ s'.dirty = s.dirty /\ s'.invented = s.invented /\ s'.late = s.late /\ s'.result = s.result
  BY <1>5 DEF DiskInv, DiskType
<1>7. /\ k = "admin" => s'.q = [admin |-> p, io |-> s.q.io] /\ s'.q.admin = p /\ s'.q.io = s.q.io
      /\ k = "io" => s'.q = [admin |-> s.q.admin, io |-> p] /\ s'.q.io = p /\ s'.q.admin = s.q.admin
  BY <1>6, OneQueue, SMTT(30) DEF DiskInv, DiskType
<1>8. DiskType'
  <2>1. s' = [pc |-> s'.pc, ready |-> s'.ready, todo |-> s'.todo, q |-> s'.q, dirty |-> s'.dirty,
            invented |-> s'.invented, disk |-> s'.disk, buf |-> s'.buf, pages |-> s'.pages,
            late |-> s'.late, result |-> s'.result]
    BY <1>5, Zenon DEF DiskInv, DiskType
  <2> QED BY <1>3, <1>4, <1>6, <1>7, <2>1 DEF DiskInv, DiskType, p
<1>9. Laps' /\ Disk!TakesOnlyPosted'
  BY <1>3, <1>4, <1>6, <1>7, Zenon DEF DiskInv, Laps, Disk!TakesOnlyPosted, p
<1>10. CASE k = "admin"
  <2>1. s.pc \notin {"ready", "io"}
    BY <1>1, <1>10 DEF DiskInv, InCall
  <2> QED BY <1>6, <1>7, <1>8, <1>9, <1>10, <2>1, ZenonT(60) DEF DiskInv, OneCommand, InCall, Empty
<1>11. CASE k = "io"
  <2>1. InCall'
    BY <1>6, <1>7, <1>11, SMTT(30) DEF DiskInv, InCall
  <2>2. ASSUME "io" \notin s.dirty, ~s.late PROVE s.pc = "io" /\ Answered(s.q.io)'
    <3>1. s.pc = "io" /\ Waiting(r)
      BY <1>1, <1>11, <2>2, Zenon DEF DiskInv, OneCommand, Empty, Answered
    <3>2. /\ cmd = [op |-> s.result.op, lba |-> s.result.lba] /\ r.unread = 0 /\ r.tail = (r.fetch + 1) % N
          /\ s.result.op \in {"read", "write"} /\ s.result.lba \in Lbas
      BY <3>1 DEF Waiting, DiskInv, InCall
    <3>3. cmd.op \in {"read", "write"} /\ cmd.lba = s.result.lba
      BY <3>2, SMTT(30)
    <3>4. ok => b = d[s.result.lba]
      BY <3>2, <3>3, SMTT(30) DEF d, b, DiskInv, DiskType
    <3>5. p.cq[p.head].ok = ok /\ p.unread = 1 /\ p.fetch = p.tail
      BY <1>4, <1>11, <2>2, <3>2, SMTT(30) DEF p, DiskInv, Laps
    <3> QED BY <1>6, <1>7, <1>11, <3>1, <3>4, <3>5, ZenonT(60) DEF Answered
  <2>3. OneCommand'
    BY <1>6, <2>2 DEF OneCommand
  <2> QED BY <1>8, <1>9, <2>1, <2>3, SMTT(30) DEF DiskInv
<1> QED BY <1>3, <1>10, <1>11

\* A call begins
LEMMA DiskSend ==
    ASSUME DiskInv, s.pc = "ready", NEW op \in {"read", "write"}, NEW lba \in Lbas,
           NEW size \in {1, 3}, NEW mapped \in BOOLEAN, Disk!nvme_send_io(op, lba, size, mapped)
    PROVE  DiskInv'
<1> DEFINE cmd == [op |-> op, lba |-> lba]
           r == s.q.io
           r2 == IF mapped THEN Submitted(r, cmd) ELSE r
           q2 == IF mapped THEN Disk!Submit("io", cmd) ELSE s.q
           call == [op |-> op, lba |-> lba, ok |-> FALSE, done |-> FALSE]
           left == IF mapped /\ size > 2 /\ s.pages > 0 THEN s.pages - 1 ELSE s.pages
<1>1. s' = [s EXCEPT !.pc = "io", !.result = call, !.q = q2, !.pages = left]
  BY DEF Disk!nvme_send_io
<1>2. q2 = [admin |-> s.q.admin, io |-> r2]
  BY QueueSteps, OneQueue, SMTT(30) DEF DiskInv, DiskType
<1> HIDE DEF q2, r2, left, call
<1>3. /\ s'.pc = "io" /\ s'.result = call /\ s'.q = q2 /\ s'.disk = s.disk /\ s'.buf = s.buf
      /\ s'.dirty = s.dirty /\ s'.invented = s.invented /\ s'.late = s.late
  BY <1>1 DEF DiskInv, DiskType
<1>4. s'.q.admin = s.q.admin /\ s'.q.io = r2
  BY <1>2, <1>3
<1>5. RingType(r) /\ ("io" \notin s.dirty => InLap(r)) /\ ("io" \notin s.dirty /\ ~s.late => Empty(r))
  BY DEF DiskInv, DiskType, Laps, OneCommand
<1>6. RingType(r2) /\ ("io" \notin s.dirty => InLap(r2))
  BY <1>5, SubmittedOK DEF r2
<1>7. call.op = op /\ call.lba = lba
  BY DEF call
<1>8. Empty(r) => Empty(r2) \/ (r2.tail = (r2.fetch + 1) % N /\ r2.unread = 0 /\ r2.sq[r2.fetch] = cmd)
  <2>1. CASE mapped
    BY <1>5, <2>1, SubmittedOK, SMTT(30) DEF Empty, r2
  <2>2. CASE ~mapped
    BY <2>2, SMTT(30) DEF r2
  <2> QED BY <2>1, <2>2, SMTT(30)
<1>9. DiskType'
  <2>1. s' = [pc |-> s'.pc, ready |-> s'.ready, todo |-> s'.todo, q |-> s'.q, dirty |-> s'.dirty,
            invented |-> s'.invented, disk |-> s'.disk, buf |-> s'.buf, pages |-> s'.pages,
            late |-> s'.late, result |-> s'.result]
    BY <1>1, Zenon DEF DiskInv, DiskType
  <2> QED BY <1>2, <1>3, <1>4, <1>6, <2>1 DEF DiskInv, DiskType
<1>10. Laps' /\ InCall' /\ Disk!TakesOnlyPosted'
  BY <1>3, <1>4, <1>6, <1>7, SMTT(30) DEF DiskInv, Laps, InCall, Disk!TakesOnlyPosted, call
<1>11. OneCommand'
  BY <1>3, <1>4, <1>5, <1>7, <1>8, Zenon DEF OneCommand, Waiting, Empty
<1> QED BY <1>9, <1>10, <1>11 DEF DiskInv

\* A call ends, or the caller has its buffer to itself.
LEMMA DiskReturn ==
    ASSUME DiskInv,
           Disk!IoDone \/ Disk!IoTimeout \/ Disk!Refuse \/ \E v \in Data : Disk!Fill(v)
    PROVE  DiskInv'
<1>1. CASE Disk!IoDone
  <2> DEFINE r == s.q.io
             i == Disk!Invented("io")
             q2 == Disk!Take("io")
             ok == r.cq[r.head].ok
             res == [s.result EXCEPT !.ok = ok, !.done = TRUE]
  <2>1. s.pc = "io" /\ r.cq[r.head].phase = r.phase
    BY <1>1, Zenon DEF Disk!IoDone, Disk!Arrived
  <2>2. s' = [s EXCEPT !.pc = "ready", !.q = q2, !.invented = s.invented \cup i, !.result = res]
    BY <1>1, Zenon DEF Disk!IoDone, DiskInv, DiskType
  <2>3. RingType(r) /\ ("io" \notin s.dirty => InLap(r) /\ r.unread > 0)
    BY <2>1, NewIsUnread DEF DiskInv, DiskType, Laps
  <2>4. i \subseteq {"io"} /\ i \subseteq s.dirty
    BY <2>3, SMTT(30) DEF Disk!Invented
  <2>5. q2 = [admin |-> s.q.admin, io |-> Taken(r)]
    BY QueueSteps, OneQueue, SMTT(30) DEF DiskInv, DiskType
  <2>6. res.ok = ok /\ res.lba = s.result.lba
    BY <2>1 DEF DiskInv, InCall
  <2> HIDE DEF q2, i, res
  <2>7. /\ s'.pc = "ready" /\ s'.result = res /\ s'.q = q2 /\ s'.disk = s.disk /\ s'.buf = s.buf
        /\ s'.dirty = s.dirty /\ s'.invented = s.invented \cup i /\ s'.late = s.late
    BY <2>2 DEF DiskInv, DiskType
  <2>8. s'.q.admin = s.q.admin /\ s'.q.io = Taken(r)
    BY <2>5, <2>7, SMTT(30)
  <2>9. /\ RingType(Taken(r)) /\ ("io" \notin s.dirty => InLap(Taken(r)))
        /\ Taken(r).tail = r.tail /\ Taken(r).fetch = r.fetch
        /\ Taken(r).unread = IF r.unread = 0 THEN 0 ELSE r.unread - 1
    BY <2>3, TakenOK, SMTT(30)
  <2>10. ASSUME "io" \notin s.dirty, ~s.late PROVE Answered(r)
    BY <2>1, <2>3, <2>10, SMTT(30) DEF DiskInv, OneCommand, Empty, Waiting
  <2>11. DiskType'
    <3>1. s' = [pc |-> s'.pc, ready |-> s'.ready, todo |-> s'.todo, q |-> s'.q, dirty |-> s'.dirty,
            invented |-> s'.invented, disk |-> s'.disk, buf |-> s'.buf, pages |-> s'.pages,
            late |-> s'.late, result |-> s'.result]
      BY <2>2, Zenon DEF DiskInv, DiskType
    <3> QED BY <2>5, <2>7, <2>8, <2>9, <3>1 DEF DiskInv, DiskType
  <2>12. Laps' /\ InCall' /\ Disk!TakesOnlyPosted'
    BY <2>1, <2>4, <2>7, <2>8, <2>9, ZenonT(60) DEF DiskInv, Laps, InCall, Disk!TakesOnlyPosted
  <2>13. OneCommand'
    BY <2>6, <2>7, <2>8, <2>9, <2>10, SMTT(30) DEF OneCommand, Empty, Answered
  <2> QED BY <2>11, <2>12, <2>13, SMTT(30) DEF DiskInv
<1>2. CASE Disk!IoTimeout
  <2> DEFINE res == [s.result EXCEPT !.done = TRUE]
  <2>1. s' = [s EXCEPT !.pc = "ready", !.late = TRUE, !.result = res] /\ s.pc = "io"
    BY <1>2 DEF Disk!IoTimeout, DiskInv, DiskType
  <2> HIDE DEF res
  <2>2. /\ s'.pc = "ready" /\ s'.q = s.q /\ s'.disk = s.disk /\ s'.dirty = s.dirty
        /\ s'.invented = s.invented /\ s'.late = TRUE
    BY <2>1 DEF DiskInv, DiskType
  <2>3. DiskType'
    BY <2>1, <2>2, Zenon DEF DiskInv, DiskType
  <2> QED BY <2>1, <2>2, <2>3 DEF DiskInv, Laps, OneCommand, InCall, Disk!TakesOnlyPosted
<1>3. ASSUME NEW v, s.pc = "ready", s' = [s EXCEPT !.buf = v, !.result = Disk!NoCommand] PROVE DiskInv'
  <2>1. /\ s'.pc = "ready" /\ s'.q = s.q /\ s'.disk = s.disk /\ s'.dirty = s.dirty
        /\ s'.invented = s.invented /\ s'.late = s.late /\ s'.result = Disk!NoCommand
    BY <1>3 DEF DiskInv, DiskType
  <2>2. DiskType'
    BY <1>3, <2>1, Zenon DEF DiskInv, DiskType
  <2> QED BY <1>3, <2>1, <2>2 DEF DiskInv, Laps, OneCommand, InCall, Disk!TakesOnlyPosted, Empty
<1>4. CASE Disk!Refuse
  <2>1. s.pc = "ready" /\ s' = [s EXCEPT !.buf = s.buf, !.result = Disk!NoCommand]
    BY <1>4, Zenon DEF Disk!Refuse, DiskInv, DiskType
  <2> QED BY <1>3, <2>1, Zenon
<1>5. ASSUME NEW v \in Data, Disk!Fill(v) PROVE DiskInv'
  BY <1>3, <1>5, Zenon DEF Disk!Fill
<1> QED BY <1>1, <1>2, <1>4, <1>5

\* For a ring of any size and any disk: the driver takes no completion that the controller has not
\* posted, however late it answers, and a read or write that reports success has done its work.
THEOREM DiskIsTrue == DriversSpec => []SuccessIsTrue
<1> DEFINE Inv == part = "nvme" => DiskInv
<1>1. DriversInit => Inv
  BY DiskInit, PartStarts
<1>2. DiskInv /\ [Disk!Next]_s => DiskInv'
  <2> SUFFICES ASSUME DiskInv, [Disk!Next]_s PROVE DiskInv'
    BY SMTT(30)
  <2>1. CASE UNCHANGED s
    BY <2>1 DEF DiskInv, DiskType, Laps, OneCommand, InCall, Disk!TakesOnlyPosted, Empty, Waiting, Answered
  <2>2. ASSUME NEW lba \in Lbas, NEW size \in {1, 3}, NEW mapped \in BOOLEAN,
               Disk!nvme_read(lba, size, mapped) \/ Disk!nvme_write(lba, size, mapped)
        PROVE  DiskInv'
    BY <2>2, DiskSend DEF Disk!nvme_read, Disk!nvme_write
  <2> QED BY <2>1, <2>2, DiskBringUp, DiskAdmin, DiskExecute, DiskReturn, SMTT(30) DEF Disk!Next
<1>3. Inv /\ [DriversNext]_<<part, s>> => Inv'
  BY <1>2, PartSteps, SMTT(30)
<1>4. Inv => SuccessIsTrue
  BY SMTT(30) DEF DiskInv, OneCommand, SuccessIsTrue, Disk!SuccessIsTrue
<1> QED BY <1>1, <1>3, <1>4, PTL DEF DriversSpec

-----------------------------------------------------------------------------
(* Interrupts *)

\* A MADT has records up to its length, unless one of them is too short to be a record.
Offsets(m) ==
    {off \in [1 .. Len(m.entries) + 1 -> Nat] :
        /\ off[1] = 0
        /\ \A i \in 1 .. Len(m.entries) : off[i + 1] = off[i] + m.entries[i].len
        /\ off[Len(m.entries) + 1] >= m.length \/ \E i \in 1 .. Len(m.entries) : m.entries[i].len < 2}
MadtOK(m) ==
    /\ m.length \in Nat /\ Len(m.entries) \in Nat /\ Offsets(m) # {}
    /\ \A i \in 1 .. Len(m.entries) :
           /\ m.entries[i].len \in Nat
           /\ m.entries[i].type = "override" => m.entries[i].gsi \in Nat
IrqConstants ==
    /\ IrqSlots \subseteq Nat /\ Pins \subseteq Nat
    /\ \A m \in Madts : MadtOK(m)

Owner == Handlers \cup {Irq!None}
Writes ==
    [op : {"used", "free", "gate"}, k : IrqSlots] \cup [op : {"func", "arg"}, k : IrqSlots, v : Owner]
    \cup [op : {"pin", "unmask"}, k : IrqSlots, gsi : Int]
IrqType ==
    /\ s = [madt |-> s.madt, at |-> s.at, offset |-> s.offset, phase |-> s.phase, base |-> s.base,
            chips |-> s.chips, overrides |-> s.overrides, pins |-> s.pins, gates |-> s.gates,
            table |-> s.table, todo |-> s.todo, lines |-> s.lines, reused |-> s.reused, called |-> s.called]
    /\ s.madt \in Madts
    /\ s.overrides \in [Irq!Legacy -> Int]
    /\ s.pins \in [Pins -> [vector : Nat, masked : BOOLEAN]]
    /\ s.table \in [IrqSlots -> [used : BOOLEAN, func : Owner, arg : Owner]]
    /\ s.lines \in [IrqSlots -> Pins \cup {-1}]
    /\ s.todo \in Seq(Writes)

\* The walk is where the lengths say, and every record it passed had a length.
WalkInv ==
    /\ s.offset \in Nat /\ s.offset <= s.madt.length
    /\ s.phase = "walk" =>
           /\ s.at \in 1 .. Len(s.madt.entries) + 1
           /\ \A off \in Offsets(s.madt) : s.offset = off[s.at]
           /\ \A i \in 1 .. s.at - 1 : s.madt.entries[i].len >= 2

BootInv ==
    s.phase # "on" =>
        /\ s.todo = <<>> /\ s.reused = {}
        /\ \A k \in IrqSlots : ~s.table[k].used /\ s.lines[k] = -1
        /\ \A p \in Pins : s.pins[p].vector = 0

\* What irq_create(h, irq) has stored in slot k when n stores are left
Creating(k, h, irq, n) ==
    /\ Len(s.todo) = n /\ \A i \in 1 .. n : s.todo[i] = Irq!Stores(k, h, irq)[6 - n + i]
    /\ s.lines[k] = irq /\ s.table[k].used = (n < 6)
    /\ n <= 4 => s.table[k].func = h
    /\ n <= 3 => s.table[k].arg = h
    /\ n <= 2 => Irq!First + k \in s.gates
    /\ n = 1 /\ s.base = 0 /\ Irq!Gsi(irq) \in Pins =>
           s.pins[Irq!Gsi(irq)] = [vector |-> Irq!First + k, masked |-> FALSE]
    /\ n > 1 /\ k \notin s.reused => \A p \in Pins : s.pins[p].vector # Irq!First + k
Destroying(k) ==
    /\ k \in s.reused
    /\ \A i \in 1 .. Len(s.todo) : s.todo[i].k = k /\ s.todo[i].op \in {"free", "func", "arg"}
InProgress ==
    \/ s.todo = <<>>
    \/ \E k \in IrqSlots, h \in Handlers, irq \in Pins, n \in 1 .. 6 : Creating(k, h, irq, n)
    \/ \E k \in IrqSlots : Destroying(k)

Busy(k) == s.todo # <<>> /\ s.todo[1].k = k

\* A vector in a pin is that of a slot that is complete, and of one that was never freed only if it
\* has its argument.
PinsOK ==
    \A p \in Pins :
        /\ s.pins[p].vector < Irq!First \/ s.pins[p].vector - Irq!First \in IrqSlots
        /\ \A k \in IrqSlots \ s.reused : s.pins[p].vector = Irq!First + k => s.table[k].arg = s.table[k].func
FreshOK ==
    \A k \in IrqSlots \ s.reused :
        ~s.table[k].used /\ ~Busy(k) =>
            s.lines[k] = -1 /\ \A p \in Pins : s.pins[p].vector # Irq!First + k
LinesOK ==
    s.base = 0 /\ s.reused = {} =>
        \A k \in IrqSlots :
            /\ s.table[k].used /\ ~Busy(k) /\ Irq!Gsi(s.lines[k]) \in Pins
            /\ \A j \in IrqSlots \ {k} : Irq!Gsi(s.lines[j]) # Irq!Gsi(s.lines[k])
            => /\ s.pins[Irq!Gsi(s.lines[k])] = [vector |-> Irq!First + k, masked |-> FALSE]
               /\ Irq!First + k \in s.gates

IrqInv ==
    IrqType /\ WalkInv /\ BootInv /\ InProgress /\ PinsOK /\ FreshOK /\ LinesOK /\ Irq!OwnArgument

LEMMA IrqInit == ASSUME IrqConstants, Irq!Init PROVE IrqInv
<1>1. PICK m \in Madts :
        s = [madt |-> m, at |-> 1, offset |-> 0, phase |-> "walk", base |-> 0, chips |-> 0,
             overrides |-> [i \in Irq!Legacy |-> i],
             pins |-> [p \in Pins |-> [vector |-> 0, masked |-> TRUE]],
             gates |-> {32, Irq!Keyboard}, table |-> [k \in IrqSlots |-> Irq!Free], todo |-> <<>>,
             lines |-> [k \in IrqSlots |-> -1], reused |-> {}, called |-> {}]
  BY Zenon DEF Irq!Init
<1>2. /\ s.madt = m /\ s.at = 1 /\ s.offset = 0 /\ s.phase = "walk" /\ s.todo = <<>> /\ s.reused = {}
      /\ s.overrides = [i \in Irq!Legacy |-> i] /\ s.called = {}
      /\ s.pins = [p \in Pins |-> [vector |-> 0, masked |-> TRUE]]
      /\ s.table = [k \in IrqSlots |-> Irq!Free] /\ s.lines = [k \in IrqSlots |-> -1]
  BY <1>1, SMTT(30)
<1>3. IrqType
  <2>1. Irq!Free \in [used : BOOLEAN, func : Owner, arg : Owner]
    BY SMTT(30) DEF Irq!Free, Owner
  <2>2. s.overrides \in [Irq!Legacy -> Int]
    BY <1>2, SMTT(30) DEF Irq!Legacy
  <2> QED BY <1>1, <1>2, <2>1, <2>2, SMTT(30) DEF IrqType
<1>4. WalkInv
  BY <1>2, SMTT(30) DEF WalkInv, IrqConstants, MadtOK, Offsets
<1>5. \A k \in IrqSlots : ~s.table[k].used
  BY <1>2, SMTT(30) DEF Irq!Free
<1>6. BootInv /\ PinsOK /\ FreshOK
  BY <1>2, <1>5, SMTT(30) DEF BootInv, PinsOK, FreshOK, Irq!First, IrqConstants
<1> QED BY <1>2, <1>3, <1>4, <1>5, <1>6, SMTT(30) DEF IrqInv, InProgress, LinesOK, Irq!OwnArgument

LEMMA IrqWalk == ASSUME IrqConstants, IrqInv, Irq!Walk PROVE IrqInv'
<1> DEFINE m == s.madt
           e == m.entries[s.at]
<1>1. s.phase = "walk" /\ s.offset < m.length /\ m \in Madts /\ MadtOK(m)
  BY DEF Irq!Walk, IrqInv, IrqType, IrqConstants
<1>2. PICK off \in Offsets(m) : TRUE
  BY <1>1 DEF MadtOK
<1>3. s.at \in 1 .. Len(m.entries)
  <2>1. /\ s.at \in 1 .. Len(m.entries) + 1 /\ s.offset = off[s.at]
        /\ \A i \in 1 .. s.at - 1 : m.entries[i].len >= 2
    BY <1>1, <1>2, SMTT(30) DEF IrqInv, WalkInv
  <2>2. off[Len(m.entries) + 1] >= m.length \/ \E i \in 1 .. Len(m.entries) : m.entries[i].len < 2
    BY <1>2 DEF Offsets
  <2>3. Len(m.entries) \in Nat /\ \A i \in 1 .. Len(m.entries) : m.entries[i].len \in Nat
    BY <1>1, SMTT(30) DEF MadtOK
  <2>4. s.offset \in Nat /\ m.length \in Nat
    BY <1>1 DEF IrqInv, WalkInv, MadtOK
  <2>5. ASSUME s.at = Len(m.entries) + 1 PROVE FALSE
    <3>1. \A i \in 1 .. Len(m.entries) : ~(m.entries[i].len < 2)
      BY <2>1, <2>3, <2>5, SMTT(30)
    <3>2. s.offset >= m.length
      BY <2>1, <2>2, <2>5, <3>1, SMTT(30)
    <3> QED BY <1>1, <2>4, <3>2, SMTT(30)
  <2> QED BY <2>1, <2>3, <2>5, SMTT(30)
<1>4. e.len \in Nat /\ (e.type = "override" => e.gsi \in Nat)
  BY <1>1, <1>3, Zenon DEF MadtOK
\* The slots and the pins stay as they were.
<1>5. ASSUME /\ s'.madt = m /\ s'.pins = s.pins /\ s'.table = s.table /\ s'.todo = s.todo
             /\ s'.lines = s.lines /\ s'.reused = s.reused /\ s'.called = s.called,
             s'.phase # "on", IrqType', WalkInv'
      PROVE  IrqInv'
  BY <1>1, <1>5, ZenonT(60) DEF IrqInv, BootInv, InProgress, PinsOK, FreshOK, LinesOK, Busy, Irq!OwnArgument
<1>6. CASE Irq!Malformed(e.len)
  <2>1. s' = [s EXCEPT !.phase = "halted"]
    BY <1>6 DEF Irq!Walk
  <2>2. /\ s'.madt = m /\ s'.pins = s.pins /\ s'.table = s.table /\ s'.todo = s.todo /\ s'.lines = s.lines
        /\ s'.reused = s.reused /\ s'.called = s.called /\ s'.phase = "halted" /\ s'.offset = s.offset
        /\ s'.overrides = s.overrides
    BY <2>1 DEF IrqInv, IrqType
  <2>3. IrqType'
    BY <2>1, <2>2, Zenon DEF IrqInv, IrqType
  <2>4. WalkInv'
    BY <2>2, Zenon DEF IrqInv, WalkInv
  <2> QED BY <1>5, <2>2, <2>3, <2>4
<1>7. CASE ~Irq!Malformed(e.len)
  <2> DEFINE ph == IF s.at > MaxEntries THEN "halted" ELSE s.phase
             ba == IF e.type = "io" THEN e.base ELSE s.base
             ch == IF e.type = "io" THEN s.chips + 1 ELSE s.chips
             ov == IF e.type = "override" /\ e.irq \in Irq!Legacy
                   THEN [s.overrides EXCEPT ![e.irq] = e.gsi] ELSE s.overrides
  <2>1. s' = [s EXCEPT !.phase = ph, !.at = s.at + 1, !.offset = s.offset + e.len, !.base = ba,
                       !.chips = ch, !.overrides = ov]
    BY <1>7, ZenonT(60) DEF Irq!Walk
  <2>2. ph \in {"walk", "halted"} /\ ov \in [Irq!Legacy -> Int]
    BY <1>1, <1>4 DEF IrqInv, IrqType
  <2> HIDE DEF ph, ba, ch, ov
  <2>3. /\ s'.madt = m /\ s'.pins = s.pins /\ s'.table = s.table /\ s'.todo = s.todo /\ s'.lines = s.lines
        /\ s'.reused = s.reused /\ s'.called = s.called /\ s'.phase = ph /\ s'.offset = s.offset + e.len
        /\ s'.at = s.at + 1 /\ s'.overrides = ov
    BY <2>1, SMTT(30) DEF IrqInv, IrqType
  <2>4. IrqType'
    <3>1. s' = [madt |-> s'.madt, at |-> s'.at, offset |-> s'.offset, phase |-> s'.phase, base |-> s'.base,
            chips |-> s'.chips, overrides |-> s'.overrides, pins |-> s'.pins, gates |-> s'.gates,
            table |-> s'.table, todo |-> s'.todo, lines |-> s'.lines, reused |-> s'.reused, called |-> s'.called]
      BY <2>1, ZenonT(60) DEF IrqInv, IrqType
    <3> QED BY <2>2, <2>3, <3>1, Zenon DEF IrqInv, IrqType
  <2>5. e.len >= 2 /\ s.offset + e.len <= m.length
    BY <1>1, <1>4, <1>7, SMTT(90) DEF Irq!Malformed, IrqInv, WalkInv, MadtOK
  <2>6. WalkInv'
    <3>1. s.offset + e.len \in Nat /\ s.at + 1 \in 1 .. Len(m.entries) + 1
      <4>1. s.offset \in Nat /\ Len(m.entries) \in Nat
        BY <1>1 DEF IrqInv, WalkInv, MadtOK
      <4> HIDE DEF m
      <4> QED BY <1>3, <1>4, <4>1, SMTT(90)
    <3>2. \A o \in Offsets(m) : s.offset + e.len = o[s.at + 1]
      BY <1>1, <1>3, ZenonT(60) DEF IrqInv, WalkInv, Offsets
    <3>3. \A i \in 1 .. s.at : m.entries[i].len >= 2
      BY <1>1, <1>3, <2>5, SMTT(30) DEF IrqInv, WalkInv
    <3>4. s'.at - 1 = s.at
      BY <1>3, <2>3
    <3>5. s'.offset \in Nat /\ s'.offset <= s'.madt.length
      BY ONLY <2>3, <2>5, <3>1, Zenon
    <3>6. /\ s'.at \in 1 .. Len(s'.madt.entries) + 1
          /\ \A o \in Offsets(s'.madt) : s'.offset = o[s'.at]
          /\ \A i \in 1 .. s'.at - 1 : s'.madt.entries[i].len >= 2
      BY ONLY <2>3, <3>1, <3>2, <3>3, <3>4, Zenon
    <3> QED BY ONLY <3>5, <3>6, Zenon DEF WalkInv, Offsets
  <2> QED BY <1>5, <2>2, <2>3, <2>4, <2>6, ZenonT(60)
<1> QED BY <1>6, <1>7, SMTT(30)

\* The pins that Set and Unmask leave alone
LEMMA PinStores ==
    ASSUME NEW pins \in [Pins -> [vector : Nat, masked : BOOLEAN]], NEW v \in Nat, NEW g
    PROVE  /\ Irq!Set(pins, v, g) \in [Pins -> [vector : Nat, masked : BOOLEAN]]
           /\ \A p \in Pins : IF p = g - s.base THEN Irq!Set(pins, v, g)[p] = [vector |-> v, masked |-> FALSE]
                              ELSE Irq!Set(pins, v, g)[p] = pins[p]
           /\ Irq!Unmask(pins, g) \in [Pins -> [vector : Nat, masked : BOOLEAN]]
           /\ \A p \in Pins : IF p = g THEN Irq!Unmask(pins, g)[p] = [pins[p] EXCEPT !.masked = FALSE]
                              ELSE Irq!Unmask(pins, g)[p] = pins[p]
           /\ \A p \in Pins : Irq!Unmask(pins, g)[p].vector = pins[p].vector
  BY ZenonT(60) DEF Irq!Set, Irq!Unmask

\* Neither a store to a pin nor its mask brings a dynamic vector.
LEMMA LowVectors ==
    ASSUME NEW pins \in [Pins -> [vector : Nat, masked : BOOLEAN]], NEW g,
           \A p \in Pins : pins[p].vector < Irq!First
    PROVE  /\ \A p \in Pins : Irq!Set(pins, Irq!Keyboard, g)[p].vector < Irq!First
           /\ \A p \in Pins : Irq!Unmask(pins, g)[p].vector < Irq!First
<1>1. Irq!Keyboard \in Nat /\ Irq!Keyboard < Irq!First
  BY DEF Irq!Keyboard, Irq!First
<1>2. ASSUME NEW p \in Pins PROVE Irq!Set(pins, Irq!Keyboard, g)[p].vector < Irq!First
  BY <1>1, PinStores DEF Irq!Set
<1>3. ASSUME NEW p \in Pins PROVE Irq!Unmask(pins, g)[p].vector < Irq!First
  <2>1. Irq!Unmask(pins, g)[p].vector = pins[p].vector
    BY DEF Irq!Unmask
  <2> QED BY <2>1
<1> QED BY <1>2, <1>3

LEMMA IrqBoot == ASSUME IrqConstants, IrqInv, Irq!Boot PROVE IrqInv'
<1> DEFINE p1 == Irq!Set(s.pins, Irq!Keyboard, 0)
           p2 == Irq!Unmask(p1, s.overrides[0])
           p3 == Irq!Set(p2, Irq!Keyboard, 1)
           p4 == Irq!Unmask(p3, s.overrides[1])
           T == [Pins -> [vector : Nat, masked : BOOLEAN]]
<1>1. s.phase = "walk" /\ s' = [s EXCEPT !.phase = "on", !.pins = p4]
  BY SMTT(30) DEF Irq!Boot
<1>2. s.pins \in T /\ Irq!Keyboard \in Nat /\ Irq!Keyboard < Irq!First /\ 0 < Irq!First
  BY DEF IrqInv, IrqType, Irq!Keyboard, Irq!First
<1>3. s.pins \in T /\ \A p \in Pins : s.pins[p].vector < Irq!First
  BY <1>1, <1>2 DEF IrqInv, BootInv
<1>6. p4 \in T /\ \A p \in Pins : p4[p].vector < Irq!First
  <2>1. p1 \in T /\ \A p \in Pins : p1[p].vector < Irq!First
    BY <1>2, <1>3, PinStores, LowVectors, Zenon
  <2> HIDE DEF p1
  <2>2. p2 \in T /\ \A p \in Pins : p2[p].vector < Irq!First
    BY <1>2, <2>1, PinStores, LowVectors, ZenonT(60)
  <2> HIDE DEF p2
  <2>3. p3 \in T /\ \A p \in Pins : p3[p].vector < Irq!First
    BY <1>2, <2>2, PinStores, LowVectors, Zenon
  <2> HIDE DEF p3
  <2> QED BY <1>2, <2>3, PinStores, LowVectors, ZenonT(60)
<1> HIDE DEF p4
<1>7. /\ s'.madt = s.madt /\ s'.pins = p4 /\ s'.table = s.table /\ s'.todo = s.todo /\ s'.lines = s.lines
      /\ s'.reused = s.reused /\ s'.called = s.called /\ s'.phase = "on" /\ s'.offset = s.offset
      /\ s'.overrides = s.overrides
  BY <1>1 DEF IrqInv, IrqType
<1>8. IrqType'
  BY <1>1, <1>6, <1>7, Zenon DEF IrqInv, IrqType
<1>9. WalkInv' /\ BootInv' /\ InProgress' /\ Irq!OwnArgument'
  BY <1>1, <1>7, SMTT(30) DEF IrqInv, WalkInv, BootInv, InProgress, Irq!OwnArgument
<1>10. PinsOK' /\ FreshOK' /\ LinesOK'
  <2>1. \A k \in IrqSlots, p \in Pins : p4[p].vector # Irq!First + k
    BY <1>6 DEF IrqConstants, Irq!First
  <2> QED BY <1>1, <1>6, <1>7, <2>1, SMTT(30) DEF IrqInv, BootInv, PinsOK, FreshOK, LinesOK, Busy
<1> QED BY <1>8, <1>9, <1>10 DEF IrqInv

LEMMA IrqFire == ASSUME IrqConstants, IrqInv, NEW p \in Pins, Irq!Fire(p) PROVE IrqInv'
<1> DEFINE k == s.pins[p].vector - Irq!First
           c == [slot |-> k, func |-> s.table[k].func, arg |-> s.table[k].arg, pin |-> p]
<1>1. s.pins[p].vector >= Irq!First /\ s' = [s EXCEPT !.called = {c}]
  BY Zenon DEF Irq!Fire
<1>2. s.pins[p].vector \in Nat /\ k \in IrqSlots /\ s.pins[p].vector = Irq!First + k
  <2>1. s.pins[p].vector \in Nat
    BY Zenon DEF IrqInv, IrqType
  <2> QED BY <1>1, <2>1, SMTT(30) DEF IrqInv, PinsOK, Irq!First
<1>3. k \in s.reused \/ s.table[k].arg = s.table[k].func
  BY <1>2, Zenon DEF IrqInv, PinsOK
<1>4. c.slot \in s.reused \/ c.arg = c.func
  BY <1>3, Zenon
<1> HIDE DEF c
<1>5. /\ s'.madt = s.madt /\ s'.pins = s.pins /\ s'.table = s.table /\ s'.todo = s.todo /\ s'.lines = s.lines
      /\ s'.reused = s.reused /\ s'.called = {c} /\ s'.phase = s.phase /\ s'.offset = s.offset
      /\ s'.overrides = s.overrides /\ s'.gates = s.gates /\ s'.base = s.base /\ s'.at = s.at
  BY <1>1 DEF IrqInv, IrqType
<1>6. IrqType'
  BY <1>1, <1>5, ZenonT(60) DEF IrqInv, IrqType
<1>7. WalkInv' /\ BootInv' /\ Irq!OwnArgument'
  BY <1>4, <1>5, ZenonT(60) DEF IrqInv, WalkInv, BootInv, Irq!OwnArgument
<1>8. InProgress'
  <2>1. \A h, i, j : Irq!Stores(j, h, i)' = Irq!Stores(j, h, i) /\ Irq!Gsi(i)' = Irq!Gsi(i)
    BY <1>5, ZenonT(60) DEF Irq!Stores, Irq!Gsi
  <2>2. ASSUME NEW h, NEW i, NEW j, NEW n, Creating(j, h, i, n) PROVE Creating(j, h, i, n)'
    BY <1>5, <2>1, <2>2, ZenonT(60) DEF Creating
  <2>3. \A j : Destroying(j) => Destroying(j)'
    BY <1>5, Zenon DEF Destroying
  <2> QED BY <1>5, <2>2, <2>3, Zenon DEF IrqInv, InProgress
<1>9. (\A j : Busy(j)' <=> Busy(j)) /\ \A i : Irq!Gsi(i)' = Irq!Gsi(i)
  BY <1>5, SMTT(30) DEF Busy, Irq!Gsi
<1>10. PinsOK' /\ FreshOK'
  BY <1>5, <1>9, ZenonT(60) DEF IrqInv, PinsOK, FreshOK
<1>11. LinesOK'
  BY <1>5, <1>9, ZenonT(60) DEF IrqInv, LinesOK
<1> QED BY <1>6, <1>7, <1>8, <1>10, <1>11, SMTT(30) DEF IrqInv

\* Every non-empty set of natural numbers has a least element: irq_create finds a free slot.
LEMMA LeastByOrder ==
    ASSUME NEW R, \A x, y \in Nat : x < y => <<x, y>> \in R, IsWellFoundedOn(R, Nat),
           NEW S \in SUBSET Nat, S # {}
    PROVE  \E m \in S : \A k \in S : m <= k
<1>1. S \subseteq Nat /\ IsWellFoundedOn(R, Nat) /\ S # {}
  OBVIOUS
<1>2. \E m \in S : \A k \in S : ~(<<k, m>> \in R)
  <2> HIDE DEF IsWellFoundedOn
  <2> QED BY ONLY <1>1, WFMin, Zenon
<1>3. PICK m \in S : \A k \in S : ~(<<k, m>> \in R)
  BY <1>2
<1>4. ASSUME NEW k \in S PROVE m <= k
  <2>1. ~(<<k, m>> \in R)
    BY <1>3
  <2>2. ~(k < m)
    BY <1>1, <2>1
  <2> QED BY <1>1, <2>2
<1> QED BY <1>4, SMTT(30)

LEMMA LeastExists ==
    ASSUME NEW S \in SUBSET Nat, S # {}
    PROVE  \E m \in S : \A k \in S : m <= k
<1>1. \A x, y \in Nat : x < y => <<x, y>> \in OpToRel(<, Nat)
  BY SMTT(30) DEF OpToRel
<1> QED BY <1>1, NatLessThanWellFounded, LeastByOrder, Zenon

LEMMA IrqCreate ==
    ASSUME IrqConstants, IrqInv, NEW h \in Handlers, NEW irq \in Pins, Irq!irq_create(h, irq)
    PROVE  IrqInv'
<1>1. PICK k \in IrqSlots : ~s.table[k].used /\ s' = [s EXCEPT !.todo = Irq!Stores(k, h, irq), !.lines[k] = irq]
  <2> DEFINE least == CHOOSE k \in Irq!FreeSlots : \A j \in Irq!FreeSlots : k <= j
  <2>1. Irq!FreeSlots # {} /\ Irq!FreeSlots \in SUBSET Nat
    BY DEF Irq!irq_create, Irq!FreeSlots, IrqConstants
  <2>2. least \in Irq!FreeSlots
    BY <2>1, LeastExists, Zenon
  <2>3. s' = [s EXCEPT !.todo = Irq!Stores(least, h, irq), !.lines[least] = irq]
    BY DEF Irq!irq_create
  <2> HIDE DEF least
  <2> QED BY <2>2, <2>3, Zenon DEF Irq!FreeSlots
<1> DEFINE todo == Irq!Stores(k, h, irq)
<1>2. s.phase = "on" /\ s.todo = <<>> /\ s' = [s EXCEPT !.todo = todo, !.lines[k] = irq]
  BY <1>1, SMTT(30) DEF Irq!irq_create
<1>3. Irq!Gsi(irq) \in Int /\ (Irq!Gsi(-1) = -1) /\ irq \in Nat
  BY SMTT(30) DEF Irq!Gsi, Irq!Legacy, IrqInv, IrqType, IrqConstants
<1>4. /\ Len(todo) = 6 /\ todo[1].k = k /\ todo # <<>> /\ todo \in Seq(Writes)
  <2>2. /\ [op |-> "used", k |-> k] \in Writes /\ [op |-> "func", k |-> k, v |-> h] \in Writes
        /\ [op |-> "arg", k |-> k, v |-> h] \in Writes /\ [op |-> "gate", k |-> k] \in Writes
        /\ [op |-> "pin", k |-> k, gsi |-> Irq!Gsi(irq)] \in Writes
        /\ [op |-> "unmask", k |-> k, gsi |-> Irq!Gsi(irq)] \in Writes
    BY <1>1, <1>3, SMTT(30) DEF Writes, Owner
  <2>3. PICK a1, a2, a3, a4, a5, a6 :
            /\ a1 = [op |-> "used", k |-> k] /\ a2 = [op |-> "func", k |-> k, v |-> h]
            /\ a3 = [op |-> "arg", k |-> k, v |-> h] /\ a4 = [op |-> "gate", k |-> k]
            /\ a5 = [op |-> "pin", k |-> k, gsi |-> Irq!Gsi(irq)]
            /\ a6 = [op |-> "unmask", k |-> k, gsi |-> Irq!Gsi(irq)]
    BY ZenonT(60)
  <2>4. todo = <<a1, a2, a3, a4, a5, a6>> /\ a1.k = k
    BY <2>3, Zenon DEF Irq!Stores
  <2>5. {a1, a2, a3, a4, a5, a6} \subseteq Writes
    BY <2>2, <2>3
  <2> HIDE DEF todo
  <2> QED BY ONLY <2>4, <2>5
<1> HIDE DEF todo
<1> DEFINE lines == [s.lines EXCEPT ![k] = irq]
<1>5. lines \in [IrqSlots -> Pins \cup {-1}] /\ lines[k] = irq /\ \A j \in IrqSlots \ {k} : lines[j] = s.lines[j]
  BY <1>1 DEF IrqInv, IrqType
<1>6. s' = [s EXCEPT !.todo = todo, !.lines = lines]
  BY <1>2 DEF IrqInv, IrqType
<1> HIDE DEF lines
<1>7. /\ s'.madt = s.madt /\ s'.pins = s.pins /\ s'.table = s.table /\ s'.todo = todo /\ s'.lines = lines
      /\ s'.reused = s.reused /\ s'.called = s.called /\ s'.phase = s.phase /\ s'.offset = s.offset
      /\ s'.overrides = s.overrides /\ s'.gates = s.gates /\ s'.base = s.base /\ s'.at = s.at
  BY <1>6 DEF IrqInv, IrqType
<1>8. IrqType'
  BY <1>4, <1>5, <1>6, <1>7, ZenonT(60) DEF IrqInv, IrqType
<1>9. \A i : Irq!Gsi(i)' = Irq!Gsi(i)
  BY <1>7, SMTT(30) DEF Irq!Gsi
<1>10. WalkInv' /\ BootInv' /\ Irq!OwnArgument' /\ PinsOK'
  BY <1>2, <1>7 DEF IrqInv, WalkInv, BootInv, Irq!OwnArgument, PinsOK
<1>11. InProgress'
  <2>1. Creating(k, h, irq, 6)'
    <3>1. Irq!Stores(k, h, irq)' = todo
      BY <1>7, <1>9, Zenon DEF todo, Irq!Stores
    <3>2. k \notin s.reused => \A p \in Pins : s.pins[p].vector # Irq!First + k
      BY <1>1, <1>2 DEF IrqInv, FreshOK, Busy
    <3>3. s.table[k].used = (6 < 6)
      BY <1>1 DEF IrqInv, IrqType
    <3>4. \A i \in 1 .. 6 : 6 - 6 + i = i
      OBVIOUS
    <3> QED BY <1>4, <1>5, <1>7, <3>1, <3>2, <3>3, <3>4, SMTT(30) DEF Creating
  <2> QED BY <1>1, <2>1, SMTT(30) DEF InProgress
<1>12. FreshOK'
  BY <1>2, <1>4, <1>5, <1>7, SMTT(30) DEF IrqInv, FreshOK, Busy
<1>13. LinesOK'
  <2> SUFFICES ASSUME s.base = 0, s.reused = {}, NEW j \in IrqSlots, s.table[j].used, j # k,
                      Irq!Gsi(s.lines[j]) \in Pins,
                      \A i \in IrqSlots \ {j} : Irq!Gsi(lines[i]) # Irq!Gsi(s.lines[j])
               PROVE  /\ s.pins[Irq!Gsi(s.lines[j])] = [vector |-> Irq!First + j, masked |-> FALSE]
                      /\ Irq!First + j \in s.gates
    BY <1>1, <1>4, <1>5, <1>7, <1>9, SMTT(30) DEF LinesOK, Busy
  <2>1. s.lines[k] = -1
    BY <1>1, <1>2, SMTT(30) DEF IrqInv, FreshOK, Busy
  <2>2. ASSUME NEW i \in IrqSlots \ {j} PROVE Irq!Gsi(s.lines[i]) # Irq!Gsi(s.lines[j])
    <3>1. CASE i = k
      <4>1. -1 \notin Pins
        BY SMTT(30) DEF IrqConstants
      <4> QED BY <1>3, <2>1, <3>1, <4>1, SMTT(30)
    <3>2. CASE i # k
      BY <1>5, <3>2, SMTT(30)
    <3> QED BY <3>1, <3>2, Zenon
  <2> QED BY <1>2, <2>2, SMTT(30) DEF IrqInv, LinesOK, Busy
<1> QED BY <1>8, <1>10, <1>11, <1>12, <1>13, SMTT(30) DEF IrqInv

LEMMA IrqDestroy ==
    ASSUME IrqConstants, IrqInv, NEW k \in IrqSlots, Irq!irq_destroy(k)
    PROVE  IrqInv'
<1> DEFINE todo == <<[op |-> "free", k |-> k], [op |-> "func", k |-> k, v |-> Irq!None],
                     [op |-> "arg", k |-> k, v |-> Irq!None]>>
<1>1. s.phase = "on" /\ s.todo = <<>> /\ s' = [s EXCEPT !.reused = s.reused \cup {k}, !.todo = todo]
  BY SMTT(30) DEF Irq!irq_destroy
<1>2. /\ todo # <<>> /\ todo[1].k = k /\ todo \in Seq(Writes)
      /\ \A i \in 1 .. Len(todo) : todo[i].k = k /\ todo[i].op \in {"free", "func", "arg"}
  <2>1. /\ [op |-> "free", k |-> k] \in Writes /\ [op |-> "func", k |-> k, v |-> Irq!None] \in Writes
        /\ [op |-> "arg", k |-> k, v |-> Irq!None] \in Writes
    BY SMTT(30) DEF Writes, Owner
  <2>2. todo \in Seq(Writes)
    <3> HIDE DEF Writes
    <3> QED BY <2>1
  <2> QED BY <2>2, SMTT(30)
<1> HIDE DEF todo
<1>3. /\ s'.madt = s.madt /\ s'.pins = s.pins /\ s'.table = s.table /\ s'.todo = todo /\ s'.lines = s.lines
      /\ s'.reused = s.reused \cup {k} /\ s'.called = s.called /\ s'.phase = s.phase /\ s'.offset = s.offset
      /\ s'.overrides = s.overrides /\ s'.at = s.at
  BY <1>1 DEF IrqInv, IrqType
<1>4. IrqType'
  BY <1>1, <1>2, <1>3, Zenon DEF IrqInv, IrqType
<1>5. WalkInv' /\ BootInv' /\ Irq!OwnArgument' /\ PinsOK'
  BY <1>1, <1>3, SMTT(30) DEF IrqInv, WalkInv, BootInv, Irq!OwnArgument, PinsOK
<1>6. InProgress'
  BY <1>2, <1>3, SMTT(30) DEF InProgress, Destroying
<1>7. FreshOK' /\ LinesOK'
  BY <1>1, <1>2, <1>3, SMTT(30) DEF IrqInv, FreshOK, LinesOK, Busy
<1> QED BY <1>4, <1>5, <1>6, <1>7, SMTT(30) DEF IrqInv

LEMMA TailOf ==
    ASSUME NEW S, NEW q \in Seq(S), q # <<>>
    PROVE  /\ Tail(q) \in Seq(S) /\ Len(q) \in Nat \ {0} /\ Len(Tail(q)) = Len(q) - 1
           /\ \A i \in 1 .. Len(q) - 1 : Tail(q)[i] = q[i + 1] /\ i + 1 \in 1 .. Len(q)
           /\ Len(q) > 1 => Tail(q) # <<>>
           /\ Len(q) = 1 => Tail(q) = <<>>
<1>1. Tail(q) \in Seq(S) /\ Len(q) \in Nat \ {0} /\ Len(Tail(q)) = Len(q) - 1
  OBVIOUS
<1>2. PICK tl \in Seq(S) : tl = Tail(q)
  BY <1>1, Zenon
<1>3. (Len(tl) > 0 => tl # <<>>) /\ (Len(tl) = 0 => tl = <<>>)
  OBVIOUS
<1> QED BY <1>1, <1>2, <1>3, SMTT(30)

LEMMA SameEntry ==
    ASSUME NEW e, NEW v, e = [vector |-> v, masked |-> FALSE]
    PROVE  [e EXCEPT !.masked = FALSE] = e
<1>1. PICK f : f = [e EXCEPT !.masked = FALSE]
  OBVIOUS
<1>2. f = [vector |-> v, masked |-> FALSE]
  BY <1>1, ZenonT(60)
<1> QED BY <1>1, <1>2, Zenon

\* The last two stores open the pin, and no other when the lines of the chip start at 0.
LEMMA PinOpened ==
    ASSUME NEW old \in [Pins -> [vector : Nat, masked : BOOLEAN]], NEW v \in Nat, NEW g \in Int
    PROVE  /\ \A p \in Pins : Irq!Set(old, v, g)[p].vector \in {old[p].vector, v}
           /\ \A p \in Pins : Irq!Unmask(old, g)[p].vector = old[p].vector
           /\ \A p \in Pins \ {g} : Irq!Unmask(old, g)[p] = old[p]
           /\ g \in Pins /\ old[g] = [vector |-> v, masked |-> FALSE] => Irq!Unmask(old, g)[g] = old[g]
           /\ s.base = 0 => /\ \A p \in Pins \ {g} : Irq!Set(old, v, g)[p] = old[p]
                            /\ g \in Pins => Irq!Set(old, v, g)[g] = [vector |-> v, masked |-> FALSE]
<1>1. \A p \in Pins : Irq!Set(old, v, g)[p].vector \in {old[p].vector, v}
  BY DEF Irq!Set
<1>2. \A p \in Pins : Irq!Unmask(old, g)[p].vector = old[p].vector
  BY DEF Irq!Unmask
<1>3. \A p \in Pins \ {g} : Irq!Unmask(old, g)[p] = old[p]
  BY DEF Irq!Unmask
<1>4. ASSUME g \in Pins, old[g] = [vector |-> v, masked |-> FALSE] PROVE Irq!Unmask(old, g)[g] = old[g]
  <2>1. Irq!Unmask(old, g)[g] = [old[g] EXCEPT !.masked = FALSE]
    BY <1>4, SMTT(30) DEF Irq!Unmask
  <2> QED BY ONLY <1>4, <2>1, SameEntry, Zenon
<1>5. ASSUME s.base = 0
      PROVE  /\ \A p \in Pins \ {g} : Irq!Set(old, v, g)[p] = old[p]
             /\ g \in Pins => Irq!Set(old, v, g)[g] = [vector |-> v, masked |-> FALSE]
  <2>1. g - s.base = g
    BY <1>5
  <2> QED BY <2>1 DEF Irq!Set
<1> QED BY <1>1, <1>2, <1>3, <1>4, <1>5, ZenonT(60)

LEMMA SlotVectors ==
    ASSUME IrqConstants, NEW k \in IrqSlots
    PROVE  /\ Irq!First + k \in Nat /\ (Irq!First + k) - Irq!First = k
           /\ \A j \in IrqSlots : Irq!First + k = Irq!First + j => j = k
  BY DEF IrqConstants, Irq!First

\* What a store of irq_create leaves behind, when n are left before it
Stored(k, h, irq, n, table, pins, gates) ==
    /\ s' = [s EXCEPT !.todo = Tail(s.todo), !.table = table, !.pins = pins, !.gates = gates]
    /\ table \in [IrqSlots -> [used : BOOLEAN, func : Owner, arg : Owner]]
    /\ \A j \in IrqSlots \ {k} : table[j] = s.table[j]
    /\ table[k].used = TRUE
    /\ table[k].func = IF n = 5 THEN h ELSE s.table[k].func
    /\ table[k].arg = IF n = 4 THEN h ELSE s.table[k].arg
    /\ gates = IF n = 3 THEN s.gates \cup {Irq!First + k} ELSE s.gates
    /\ pins \in [Pins -> [vector : Nat, masked : BOOLEAN]]
    /\ n > 2 => pins = s.pins
    /\ n = 2 => pins = Irq!Set(s.pins, Irq!First + k, Irq!Gsi(irq))
    /\ n = 1 => pins = Irq!Unmask(s.pins, Irq!Gsi(irq))

LEMMA IrqStoreCreate ==
    ASSUME IrqConstants, IrqInv, NEW k \in IrqSlots, NEW h \in Handlers, NEW irq \in Pins, NEW n \in 1 .. 6,
           Creating(k, h, irq, n), NEW table, NEW pins, NEW gates,
           Stored(k, h, irq, n, table, pins, gates)
    PROVE  IrqInv'
<1> USE DEF Stored
<1> DEFINE g == Irq!Gsi(irq)
           v == Irq!First + k
<1>1. /\ s'.madt = s.madt /\ s'.pins = pins /\ s'.table = table /\ s'.todo = Tail(s.todo) /\ s'.lines = s.lines
      /\ s'.reused = s.reused /\ s'.called = s.called /\ s'.phase = s.phase /\ s'.offset = s.offset
      /\ s'.overrides = s.overrides /\ s'.gates = gates /\ s'.base = s.base /\ s'.at = s.at
  BY DEF IrqInv, IrqType
<1>2. /\ s.todo \in Seq(Writes) /\ Len(s.todo) = n /\ s.todo # <<>> /\ s.phase = "on"
      /\ s.todo[1] = Irq!Stores(k, h, irq)[7 - n]
  <2>1. s.todo \in Seq(Writes) /\ Len(s.todo) = n /\ n \in Nat /\ 1 \in 1 .. n /\ 6 - n + 1 = 7 - n
    BY DEF IrqInv, IrqType, Creating
  <2>2. s.todo # <<>>
    BY <2>1, SMTT(30)
  <2> QED BY <2>1, <2>2, ZenonT(60) DEF Creating, IrqInv, BootInv
<1>3. /\ Tail(s.todo) \in Seq(Writes) /\ Len(Tail(s.todo)) = n - 1
      /\ \A i \in 1 .. n - 1 : Tail(s.todo)[i] = s.todo[i + 1] /\ i + 1 \in 1 .. n
      /\ (n > 1 => Tail(s.todo) # <<>>) /\ (n = 1 => Tail(s.todo) = <<>>)
  BY ONLY <1>2, TailOf, SMTT(30)
<1>4. \A i \in 1 .. 6 : Irq!Stores(k, h, irq)[i].k = k
  BY DEF Irq!Stores
<1>5. s.todo[1].k = k /\ (n > 1 => Tail(s.todo) # <<>> /\ Tail(s.todo)[1].k = k) /\ (n = 1 => Tail(s.todo) = <<>>)
  <2>1. s.todo[1].k = k
    BY <1>2, <1>4, SMTT(30)
  <2>2. ASSUME n > 1 PROVE Tail(s.todo) # <<>> /\ Tail(s.todo)[1].k = k
    <3>1. /\ n \in 1 .. 6 /\ 1 \in 1 .. n - 1 /\ 1 + 1 = 2 /\ 2 \in 1 .. n /\ 6 - n + 2 \in 1 .. 6
          /\ \A i \in 1 .. n : s.todo[i] = Irq!Stores(k, h, irq)[6 - n + i]
      BY <2>2, SMTT(30) DEF Creating
    <3>2. Tail(s.todo)[1] = s.todo[2] /\ s.todo[2] = Irq!Stores(k, h, irq)[6 - n + 2]
      BY ONLY <1>3, <3>1, SMTT(30)
    <3> QED BY ONLY <1>4, <1>3, <2>2, <3>1, <3>2, ZenonT(60)
  <2> QED BY <1>3, <2>1, <2>2, SMTT(30)
<1>6. \A i : Irq!Gsi(i)' = Irq!Gsi(i)
  BY <1>1 DEF Irq!Gsi
<1>7. /\ g \in Int /\ s.lines[k] = irq /\ v \in Nat /\ v - Irq!First = k
      /\ \A j \in IrqSlots : v = Irq!First + j => j = k
  <2>1. irq \in Nat /\ s.overrides \in [Irq!Legacy -> Int]
    BY DEF IrqConstants, IrqInv, IrqType
  <2>2. g \in Int
    BY <2>1, SMTT(30) DEF Irq!Gsi
  <2>3. s.lines[k] = irq
    BY DEF Creating
  <2>4. IrqConstants /\ k \in IrqSlots
    OBVIOUS
  <2>5. /\ Irq!First + k \in Nat /\ (Irq!First + k) - Irq!First = k
        /\ \A j \in IrqSlots : Irq!First + k = Irq!First + j => j = k
    BY ONLY <2>4, SlotVectors, SMTT(30)
  <2> QED BY <2>2, <2>3, <2>5, SMTT(30)
<1>8. /\ \A p \in Pins : pins[p].vector = s.pins[p].vector \/ (n = 2 /\ pins[p].vector = v)
      /\ s.base = 0 => \A p \in Pins \ {g} : pins[p] = s.pins[p]
      /\ s.base = 0 /\ n = 2 /\ g \in Pins => pins[g] = [vector |-> v, masked |-> FALSE]
      /\ n = 1 /\ g \in Pins /\ s.pins[g] = [vector |-> v, masked |-> FALSE] => pins[g] = s.pins[g]
  <2>1. s.pins \in [Pins -> [vector : Nat, masked : BOOLEAN]] /\ v \in Nat /\ g \in Int
    BY <1>7, SMTT(30) DEF IrqInv, IrqType
  <2>2. n \in 1 .. 6 /\ (n > 2 => pins = s.pins) /\ (n = 2 => pins = Irq!Set(s.pins, v, g))
        /\ (n = 1 => pins = Irq!Unmask(s.pins, g))
    BY SMTT(30)
  <2> HIDE DEF v, g
  <2>3. CASE n > 2
    BY ONLY <2>2, <2>3, SMTT(30)
  <2> DEFINE set == Irq!Set(s.pins, v, g)
             open == Irq!Unmask(s.pins, g)
  <2>4. /\ \A p \in Pins : set[p].vector \in {s.pins[p].vector, v}
        /\ \A p \in Pins : open[p].vector = s.pins[p].vector
        /\ \A p \in Pins \ {g} : open[p] = s.pins[p]
        /\ g \in Pins /\ s.pins[g] = [vector |-> v, masked |-> FALSE] => open[g] = s.pins[g]
        /\ s.base = 0 => /\ \A p \in Pins \ {g} : set[p] = s.pins[p]
                         /\ g \in Pins => set[g] = [vector |-> v, masked |-> FALSE]
    BY ONLY <2>1, PinOpened, ZenonT(60)
  <2>5. CASE n = 2
    <3>1. pins = set
      BY ONLY <2>2, <2>5, Zenon
    <3>2. /\ \A p \in Pins : pins[p].vector \in {s.pins[p].vector, v}
          /\ s.base = 0 => /\ \A p \in Pins \ {g} : pins[p] = s.pins[p]
                           /\ g \in Pins => pins[g] = [vector |-> v, masked |-> FALSE]
      BY ONLY <2>4, <3>1, Zenon
    <3>3. n # 1
      BY ONLY <2>5
    <3> QED BY ONLY <2>5, <3>2, <3>3, Zenon
  <2>6. CASE n = 1
    <3>1. pins = open
      BY ONLY <2>2, <2>6, Zenon
    <3>2. /\ \A p \in Pins : pins[p].vector = s.pins[p].vector
          /\ \A p \in Pins \ {g} : pins[p] = s.pins[p]
          /\ g \in Pins /\ s.pins[g] = [vector |-> v, masked |-> FALSE] => pins[g] = s.pins[g]
      BY ONLY <2>4, <3>1, Zenon
    <3>3. n # 2
      BY ONLY <2>6
    <3> QED BY ONLY <2>6, <3>2, <3>3, Zenon
  <2>7. n > 2 \/ n = 2 \/ n = 1
    BY ONLY <2>2, SMTT(30)
  <2> QED BY ONLY <2>3, <2>5, <2>6, <2>7, ZenonT(60)
<1>9. IrqType'
  <2>1. s' = [madt |-> s'.madt, at |-> s'.at, offset |-> s'.offset, phase |-> s'.phase, base |-> s'.base,
            chips |-> s'.chips, overrides |-> s'.overrides, pins |-> s'.pins, gates |-> s'.gates,
            table |-> s'.table, todo |-> s'.todo, lines |-> s'.lines, reused |-> s'.reused, called |-> s'.called]
    BY Zenon DEF IrqInv, IrqType
  <2> QED BY <1>1, <1>3, <2>1, SMTT(30) DEF IrqInv, IrqType
<1>10. WalkInv' /\ BootInv' /\ Irq!OwnArgument'
  BY <1>1, <1>2 DEF IrqInv, WalkInv, BootInv, Irq!OwnArgument
<1>11. InProgress'
  <2>1. ASSUME n > 1 PROVE Creating(k, h, irq, n - 1)'
    <3>1. Irq!Stores(k, h, irq)' = Irq!Stores(k, h, irq)
      BY <1>6, SMTT(30) DEF Irq!Stores
    <3>2. \A i \in 1 .. n - 1 : Tail(s.todo)[i] = Irq!Stores(k, h, irq)[6 - (n - 1) + i]
      <4> TAKE i \in 1 .. n - 1
      <4>1. Tail(s.todo)[i] = Irq!Stores(k, h, irq)[6 - n + (i + 1)]
        BY <1>3 DEF Creating
      <4>2. 6 - n + (i + 1) = 6 - (n - 1) + i
        OBVIOUS
      <4> QED BY <4>1, <4>2, ZenonT(60)
    <3>3. table[k].used = (n - 1 < 6)
      OBVIOUS
    <3>4. (n - 1 <= 4 => table[k].func = h) /\ (n - 1 <= 3 => table[k].arg = h)
      BY SMTT(30) DEF Creating
    <3>5. n - 1 <= 2 => Irq!First + k \in gates
      BY SMTT(30) DEF Creating
    <3>6. n - 1 = 1 /\ s.base = 0 /\ g \in Pins => pins[g] = [vector |-> v, masked |-> FALSE]
      BY <1>8, SMTT(30)
    <3>7. n - 1 > 1 /\ k \notin s.reused => \A p \in Pins : pins[p].vector # v
      BY <1>8 DEF Creating
    <3>8. Irq!Gsi(irq)' = Irq!Gsi(irq)
      BY <1>6
    <3>9. s.lines[k] = irq
      BY <1>7
    <3>10. /\ Len(s'.todo) = n - 1
           /\ \A i \in 1 .. n - 1 : s'.todo[i] = Irq!Stores(k, h, irq)'[6 - (n - 1) + i]
      BY ONLY <1>1, <1>3, <3>1, <3>2, Zenon
    <3>11. /\ s'.lines[k] = irq /\ s'.table[k].used = (n - 1 < 6)
           /\ n - 1 <= 4 => s'.table[k].func = h
           /\ n - 1 <= 3 => s'.table[k].arg = h
           /\ n - 1 <= 2 => Irq!First + k \in s'.gates
      BY ONLY <1>1, <3>3, <3>4, <3>5, <3>9, Zenon
    <3>12. /\ n - 1 = 1 /\ s'.base = 0 /\ Irq!Gsi(irq)' \in Pins =>
                 s'.pins[Irq!Gsi(irq)'] = [vector |-> Irq!First + k, masked |-> FALSE]
           /\ n - 1 > 1 /\ k \notin s'.reused => \A p \in Pins : s'.pins[p].vector # Irq!First + k
      BY ONLY <1>1, <3>6, <3>7, <3>8, Zenon DEF v, g
    <3> QED BY ONLY <3>10, <3>11, <3>12, Zenon DEF Creating
  <2>2. n > 1 => n - 1 \in 1 .. 6
    OBVIOUS
  <2>3. n > 1 \/ Tail(s.todo) = <<>>
    BY <1>5
  <2> QED BY <1>1, <2>1, <2>2, <2>3, SMTT(30) DEF InProgress
<1>12. PinsOK'
  <2> SUFFICES ASSUME NEW p \in Pins
               PROVE  /\ pins[p].vector < Irq!First \/ pins[p].vector - Irq!First \in IrqSlots
                      /\ \A j \in IrqSlots \ s.reused : pins[p].vector = Irq!First + j => table[j].arg = table[j].func
    BY <1>1, SMTT(30) DEF PinsOK
  <2>2. pins[p].vector < Irq!First \/ pins[p].vector - Irq!First \in IrqSlots
    BY <1>7, <1>8, SMTT(30) DEF IrqInv, PinsOK
  <2>3. ASSUME NEW j \in IrqSlots \ s.reused, pins[p].vector = Irq!First + j PROVE table[j].arg = table[j].func
    <3>1. CASE j # k
      BY <1>7, <1>8, <2>3, <3>1, SMTT(30) DEF IrqInv, PinsOK
    <3>2. CASE j = k /\ n > 2
      BY <1>8, <2>3, <3>2, SMTT(30) DEF Creating
    <3>3. CASE j = k /\ n <= 2
      BY <3>3, SMTT(30) DEF Creating
    <3> QED BY <3>1, <3>2, <3>3, SMTT(30)
  <2> QED BY <2>2, <2>3, SMTT(30)
<1>13. FreshOK'
  <2> SUFFICES ASSUME NEW j \in IrqSlots \ s.reused, ~table[j].used, ~Busy(j)'
               PROVE  s.lines[j] = -1 /\ \A p \in Pins : pins[p].vector # Irq!First + j
    BY <1>1 DEF FreshOK
  <2>1. j # k /\ ~s.table[j].used /\ ~Busy(j)
    BY <1>5 DEF Busy
  <2>2. s.lines[j] = -1 /\ \A p \in Pins : s.pins[p].vector # Irq!First + j
    BY <2>1 DEF IrqInv, FreshOK
  <2> QED BY <1>7, <1>8, <2>1, <2>2, SMTT(30)
<1>14. LinesOK'
  <2> SUFFICES ASSUME s.base = 0, s.reused = {}, NEW j \in IrqSlots, table[j].used, ~Busy(j)',
                      Irq!Gsi(s.lines[j]) \in Pins,
                      \A i \in IrqSlots \ {j} : Irq!Gsi(s.lines[i]) # Irq!Gsi(s.lines[j])
               PROVE  /\ pins[Irq!Gsi(s.lines[j])] = [vector |-> Irq!First + j, masked |-> FALSE]
                      /\ Irq!First + j \in gates
    BY <1>1, <1>6, SMTT(30) DEF LinesOK
  <2>1. CASE j = k
    <3>1. n = 1
      BY <1>1, <1>5, <2>1, SMTT(30) DEF Busy
    <3> QED BY <1>7, <1>8, <2>1, <3>1, SMTT(30) DEF Creating
  <2>2. CASE j # k
    <3>1. ~Busy(j) /\ s.table[j].used /\ Irq!Gsi(s.lines[j]) # g
      BY <1>2, <1>5, <1>7, <2>2, ZenonT(60) DEF Busy
    <3>2. /\ s.pins[Irq!Gsi(s.lines[j])] = [vector |-> Irq!First + j, masked |-> FALSE]
          /\ Irq!First + j \in s.gates
      BY <3>1, SMTT(30) DEF IrqInv, LinesOK
    <3> QED BY <1>8, <3>1, <3>2, SMTT(30)
  <2> QED BY <2>1, <2>2, SMTT(30)
<1> QED BY <1>9, <1>10, <1>11, <1>12, <1>13, <1>14, SMTT(30) DEF IrqInv

\* The store to come, and what it leaves of the others
Now == Head(s.todo)
Rest == [s EXCEPT !.todo = Tail(@)]
LEMMA StoreIs ==
    ASSUME Irq!Store
    PROVE  /\ Now.op = "used" => s' = [Rest EXCEPT !.table[Now.k].used = TRUE]
           /\ Now.op = "free" => s' = [Rest EXCEPT !.table[Now.k].used = FALSE]
           /\ Now.op = "func" => s' = [Rest EXCEPT !.table[Now.k].func = Now.v]
           /\ Now.op = "arg" => s' = [Rest EXCEPT !.table[Now.k].arg = Now.v]
           /\ Now.op = "gate" => s' = [Rest EXCEPT !.gates = @ \cup {Irq!First + Now.k}]
           /\ Now.op = "pin" => s' = [Rest EXCEPT !.pins = Irq!Set(@, Irq!First + Now.k, Now.gsi)]
           /\ Now.op = "unmask" => s' = [Rest EXCEPT !.pins = Irq!Unmask(@, Now.gsi)]
<1>1. s' = CASE Now.op = "used" -> [Rest EXCEPT !.table[Now.k].used = TRUE]
              [] Now.op = "free" -> [Rest EXCEPT !.table[Now.k].used = FALSE]
              [] Now.op = "func" -> [Rest EXCEPT !.table[Now.k].func = Now.v]
              [] Now.op = "arg" -> [Rest EXCEPT !.table[Now.k].arg = Now.v]
              [] Now.op = "gate" -> [Rest EXCEPT !.gates = @ \cup {Irq!First + Now.k}]
              [] Now.op = "pin" -> [Rest EXCEPT !.pins = Irq!Set(@, Irq!First + Now.k, Now.gsi)]
              [] Now.op = "unmask" -> [Rest EXCEPT !.pins = Irq!Unmask(@, Now.gsi)]
  BY DEF Irq!Store, Now, Rest
<1> QED BY ONLY <1>1, SMTT(30)

\* The next store is that of irq_create.
LEMMA IrqCreateStep ==
    ASSUME IrqConstants, IrqInv, Irq!Store, NEW k \in IrqSlots, NEW h \in Handlers, NEW irq \in Pins,
           NEW n \in 1 .. 6, Creating(k, h, irq, n)
    PROVE  IrqInv'
<1> DEFINE T == [IrqSlots -> [used : BOOLEAN, func : Owner, arg : Owner]]
           g == Irq!Gsi(irq)
<1>1. /\ s.todo \in Seq(Writes) /\ Len(s.todo) = n /\ s.todo # <<>>
      /\ Head(s.todo) = Irq!Stores(k, h, irq)[7 - n]
  <2>1. s.todo \in Seq(Writes) /\ Len(s.todo) = n /\ n \in Nat /\ 1 \in 1 .. n /\ 6 - n + 1 = 7 - n
    BY SMTT(30) DEF IrqInv, IrqType, Creating
  <2>2. s.todo # <<>> /\ Head(s.todo) = s.todo[1]
    BY <2>1, SMTT(30)
  <2> QED BY <2>1, <2>2, Zenon DEF Creating
<1>2. /\ s.table \in T /\ s.table[k] \in [used : BOOLEAN, func : Owner, arg : Owner]
      /\ s.pins \in [Pins -> [vector : Nat, masked : BOOLEAN]] /\ h \in Owner
      /\ n < 6 => s.table[k].used = TRUE
  BY DEF IrqInv, IrqType, Owner, Creating
<1>10. Rest.pins = s.pins
  BY DEF IrqInv, IrqType, Rest
<1>11. Irq!Store
  OBVIOUS
<1>3. CASE n = 6
  <2>1. Head(s.todo) = [op |-> "used", k |-> k]
    <3>1. Head(s.todo) = Irq!Stores(k, h, irq)[1]
      BY <1>1, <1>3, SMTT(30)
    <3>2. Irq!Stores(k, h, irq)[1] = [op |-> "used", k |-> k]
      BY DEF Irq!Stores
    <3> QED BY <3>1, <3>2, SMTT(30)
  <2>6. Now.op = "used" /\ Now.k = k
    BY <2>1 DEF Now
  <2>2. s' = [Rest EXCEPT !.table[k].used = TRUE]
    BY ONLY <1>11, <2>6, StoreIs, SMTT(30)
  <2> DEFINE table == [s.table EXCEPT ![k].used = TRUE]
  <2>3. /\ table \in T /\ (\A j \in IrqSlots \ {k} : table[j] = s.table[j])
        /\ table[k].used = TRUE /\ table[k].func = s.table[k].func /\ table[k].arg = s.table[k].arg
    BY <1>2, Zenon
  <2>4. s' = [s EXCEPT !.todo = Tail(s.todo), !.table = table, !.pins = s.pins, !.gates = s.gates]
    BY <2>2, Zenon DEF IrqInv, IrqType, Rest
  <2> HIDE DEF table
  <2>5. Stored(k, h, irq, n, table, s.pins, s.gates)
    BY <1>2, <1>3, <2>3, <2>4, SMTT(30) DEF Stored
  <2> QED BY <2>5, IrqStoreCreate, SMTT(30)
<1>4. CASE n = 5
  <2>1. Head(s.todo) = [op |-> "func", k |-> k, v |-> h]
    BY <1>1, <1>4, SMTT(30) DEF Irq!Stores
  <2>6. Now.op = "func" /\ Now.k = k /\ Now.v = h
    BY <2>1 DEF Now
  <2>2. s' = [Rest EXCEPT !.table[k].func = h]
    BY ONLY <1>11, <2>6, StoreIs, SMTT(30)
  <2> DEFINE table == [s.table EXCEPT ![k].func = h]
  <2>3. /\ table \in T /\ (\A j \in IrqSlots \ {k} : table[j] = s.table[j])
        /\ table[k].used = s.table[k].used /\ table[k].func = h /\ table[k].arg = s.table[k].arg
    BY <1>2
  <2>4. s' = [s EXCEPT !.todo = Tail(s.todo), !.table = table, !.pins = s.pins, !.gates = s.gates]
    BY <2>2, Zenon DEF IrqInv, IrqType, Rest
  <2> HIDE DEF table
  <2>5. Stored(k, h, irq, n, table, s.pins, s.gates)
    BY <1>2, <1>4, <2>3, <2>4, SMTT(30) DEF Stored
  <2> QED BY <2>5, IrqStoreCreate
<1>5. CASE n = 4
  <2>1. Head(s.todo) = [op |-> "arg", k |-> k, v |-> h]
    BY <1>1, <1>5, SMTT(30) DEF Irq!Stores
  <2>6. Now.op = "arg" /\ Now.k = k /\ Now.v = h
    BY <2>1 DEF Now
  <2>2. s' = [Rest EXCEPT !.table[k].arg = h]
    BY ONLY <1>11, <2>6, StoreIs, SMTT(30)
  <2> DEFINE table == [s.table EXCEPT ![k].arg = h]
  <2>3. /\ table \in T /\ (\A j \in IrqSlots \ {k} : table[j] = s.table[j])
        /\ table[k].used = s.table[k].used /\ table[k].func = s.table[k].func /\ table[k].arg = h
    BY <1>2
  <2>4. s' = [s EXCEPT !.todo = Tail(s.todo), !.table = table, !.pins = s.pins, !.gates = s.gates]
    BY <2>2, Zenon DEF IrqInv, IrqType, Rest
  <2> HIDE DEF table
  <2>5. Stored(k, h, irq, n, table, s.pins, s.gates)
    BY <1>2, <1>5, <2>3, <2>4, SMTT(30) DEF Stored
  <2> QED BY <2>5, IrqStoreCreate
<1>6. CASE n = 3
  <2>1. Head(s.todo) = [op |-> "gate", k |-> k]
    BY <1>1, <1>6, SMTT(30) DEF Irq!Stores
  <2>6. Now.op = "gate" /\ Now.k = k
    BY <2>1 DEF Now
  <2>2. s' = [Rest EXCEPT !.gates = @ \cup {Irq!First + k}]
    BY ONLY <1>11, <2>6, StoreIs, SMTT(30)
  <2>3. s' = [s EXCEPT !.todo = Tail(s.todo), !.table = s.table, !.pins = s.pins,
                       !.gates = s.gates \cup {Irq!First + k}]
    BY <2>2, Zenon DEF IrqInv, IrqType, Rest
  <2>5. Stored(k, h, irq, n, s.table, s.pins, s.gates \cup {Irq!First + k})
    BY <1>2, <1>6, <2>3, SMTT(30) DEF Stored
  <2> QED BY <2>5, IrqStoreCreate, SMTT(30)
<1>7. g \in Int /\ Irq!First + k \in Nat
  <2>1. irq \in Nat /\ s.overrides \in [Irq!Legacy -> Int]
    BY SMTT(30) DEF IrqConstants, IrqInv, IrqType
  <2>2. g \in Int
    BY <2>1, SMTT(30) DEF Irq!Gsi
  <2> QED BY <2>2, SlotVectors, SMTT(30)
<1>8. CASE n = 2
  <2>1. Head(s.todo) = [op |-> "pin", k |-> k, gsi |-> g]
    BY <1>1, <1>8, SMTT(30) DEF Irq!Stores
  <2>6. Now.op = "pin" /\ Now.k = k /\ Now.gsi = g
    BY <2>1 DEF Now
  <2> DEFINE pins == Irq!Set(s.pins, Irq!First + k, g)
  <2>2. s' = [Rest EXCEPT !.pins = pins]
    BY ONLY <1>10, <1>11, <2>6, StoreIs, SMTT(30) DEF pins
  <2>3. pins \in [Pins -> [vector : Nat, masked : BOOLEAN]]
    BY <1>2, <1>7, PinStores, Zenon
  <2>4. s' = [s EXCEPT !.todo = Tail(s.todo), !.table = s.table, !.pins = pins, !.gates = s.gates]
    BY <2>2, Zenon DEF IrqInv, IrqType, Rest
  <2>5. Stored(k, h, irq, n, s.table, pins, s.gates)
    BY <1>2, <1>8, <2>3, <2>4, SMTT(30) DEF Stored
  <2> QED BY <2>5, IrqStoreCreate, SMTT(30)
<1>9. CASE n = 1
  <2>1. Head(s.todo) = [op |-> "unmask", k |-> k, gsi |-> g]
    BY <1>1, <1>9, SMTT(30) DEF Irq!Stores
  <2>6. Now.op = "unmask" /\ Now.k = k /\ Now.gsi = g
    BY <2>1 DEF Now
  <2> DEFINE pins == Irq!Unmask(s.pins, g)
  <2>2. s' = [Rest EXCEPT !.pins = pins]
    BY ONLY <1>10, <1>11, <2>6, StoreIs, SMTT(30) DEF pins
  <2>3. pins \in [Pins -> [vector : Nat, masked : BOOLEAN]]
    BY <1>2, <1>7, PinStores, Zenon
  <2>4. s' = [s EXCEPT !.todo = Tail(s.todo), !.table = s.table, !.pins = pins, !.gates = s.gates]
    BY <2>2, Zenon DEF IrqInv, IrqType, Rest
  <2>5. Stored(k, h, irq, n, s.table, pins, s.gates)
    BY <1>2, <1>9, <2>3, <2>4, SMTT(30) DEF Stored
  <2> QED BY <2>5, IrqStoreCreate, SMTT(30)
<1> QED BY <1>3, <1>4, <1>5, <1>6, <1>8, <1>9, SMTT(30)

\* The next store is that of irq_destroy.
LEMMA IrqDestroyStep ==
    ASSUME IrqConstants, IrqInv, Irq!Store, NEW k \in IrqSlots, Destroying(k)
    PROVE  IrqInv'
<1> DEFINE Entry == [used : BOOLEAN, func : Owner, arg : Owner]
<1>1. /\ s.todo \in Seq(Writes) /\ s.todo # <<>> /\ Now \in Writes /\ Now = s.todo[1]
      /\ Now.k = k /\ Now.op \in {"free", "func", "arg"}
  <2>1. s.todo \in Seq(Writes) /\ s.todo # <<>>
    BY SMTT(30) DEF IrqInv, IrqType, Irq!Store
  <2>2. Now = s.todo[1] /\ s.todo[1] \in Writes /\ 1 \in 1 .. Len(s.todo)
    BY <2>1, SMTT(30) DEF Now
  <2> QED BY <2>1, <2>2, SMTT(30) DEF Destroying
<1>2. Now.op \in {"func", "arg"} => Now.v \in Owner
  BY <1>1, SMTT(30) DEF Writes
<1>3. s.table[k] \in Entry /\ s.table \in [IrqSlots -> Entry]
  BY DEF IrqInv, IrqType
<1>4. PICK e \in Entry : s' = [Rest EXCEPT !.table[k] = e]
  <2>1. CASE Now.op = "free"
    <3>1. s' = [Rest EXCEPT !.table[k].used = FALSE]
      BY <1>1, <2>1, StoreIs, SMTT(30)
    <3>2. PICK e : e = [s.table[k] EXCEPT !.used = FALSE]
      BY Zenon
    <3>3. e \in Entry
      BY <1>3, <3>2, Zenon
    <3>4. s' = [Rest EXCEPT !.table[k] = e]
      BY <3>1, <3>2, SMTT(30) DEF Rest, IrqInv, IrqType
    <3> QED BY <3>3, <3>4, Zenon
  <2>2. CASE Now.op = "func"
    <3>1. s' = [Rest EXCEPT !.table[k].func = Now.v]
      BY <1>1, <2>2, StoreIs, SMTT(30)
    <3>2. PICK e : e = [s.table[k] EXCEPT !.func = Now.v]
      BY Zenon
    <3>3. e \in Entry
      BY <1>2, <1>3, <2>2, <3>2, SMTT(30)
    <3>4. s' = [Rest EXCEPT !.table[k] = e]
      BY <3>1, <3>2, SMTT(30) DEF Rest, IrqInv, IrqType
    <3> QED BY <3>3, <3>4, Zenon
  <2>3. CASE Now.op = "arg"
    <3>1. s' = [Rest EXCEPT !.table[k].arg = Now.v]
      BY <1>1, <2>3, StoreIs, SMTT(30)
    <3>2. PICK e : e = [s.table[k] EXCEPT !.arg = Now.v]
      BY Zenon
    <3>3. e \in Entry
      BY <1>2, <1>3, <2>3, <3>2, SMTT(30)
    <3>4. s' = [Rest EXCEPT !.table[k] = e]
      BY <3>1, <3>2, SMTT(30) DEF Rest, IrqInv, IrqType
    <3> QED BY <3>3, <3>4, Zenon
  <2> QED BY <1>1, <2>1, <2>2, <2>3, SMTT(30)
<1> DEFINE table == [s.table EXCEPT ![k] = e]
<1>5. table \in [IrqSlots -> Entry] /\ \A j \in IrqSlots \ {k} : table[j] = s.table[j]
  BY <1>3, SMTT(30)
<1>6. s' = [s EXCEPT !.todo = Tail(s.todo), !.table = table]
  BY <1>4, SMTT(30) DEF Rest, IrqInv, IrqType
<1> HIDE DEF table
<1>7. /\ s'.madt = s.madt /\ s'.pins = s.pins /\ s'.table = table /\ s'.todo = Tail(s.todo) /\ s'.lines = s.lines
      /\ s'.reused = s.reused /\ s'.called = s.called /\ s'.phase = s.phase /\ s'.offset = s.offset
      /\ s'.overrides = s.overrides /\ s'.at = s.at
  BY <1>6, SMTT(30) DEF IrqInv, IrqType
<1>8. /\ Tail(s.todo) \in Seq(Writes) /\ Len(Tail(s.todo)) = Len(s.todo) - 1 /\ Len(s.todo) \in Nat
      /\ \A i \in 1 .. Len(s.todo) - 1 : Tail(s.todo)[i] = s.todo[i + 1] /\ i + 1 \in 1 .. Len(s.todo)
      /\ Tail(s.todo) # <<>> => 1 \in 1 .. Len(s.todo) - 1
  BY <1>1, TailOf, SMTT(30)
<1>9. IrqType'
  <2>1. s' = [madt |-> s'.madt, at |-> s'.at, offset |-> s'.offset, phase |-> s'.phase, base |-> s'.base,
            chips |-> s'.chips, overrides |-> s'.overrides, pins |-> s'.pins, gates |-> s'.gates,
            table |-> s'.table, todo |-> s'.todo, lines |-> s'.lines, reused |-> s'.reused, called |-> s'.called]
    BY <1>6, Zenon DEF IrqInv, IrqType
  <2> QED BY <1>5, <1>7, <1>8, <2>1, ZenonT(60) DEF IrqInv, IrqType
<1>10. k \in s.reused /\ s.phase = "on"
  BY <1>1 DEF Destroying, IrqInv, BootInv
<1>11. WalkInv' /\ BootInv' /\ Irq!OwnArgument' /\ PinsOK' /\ LinesOK'
  <2>1. s'.phase = "on" /\ k \in s'.reused
    BY <1>7, <1>10, SMTT(30)
  <2>2. WalkInv'
    BY <1>7, <2>1, SMTT(30) DEF IrqInv, WalkInv
  <2>3. BootInv' /\ LinesOK'
    BY <2>1, SMTT(30) DEF BootInv, LinesOK
  <2>4. Irq!OwnArgument'
    BY <1>7, SMTT(30) DEF IrqInv, Irq!OwnArgument
  <2>5. PinsOK'
    BY <1>5, <1>7, <1>10, SMTT(30) DEF IrqInv, PinsOK
  <2> QED BY <2>2, <2>3, <2>4, <2>5, SMTT(30)
<1>12. Destroying(k)'
  <2>1. \A i \in 1 .. Len(s.todo) : s.todo[i].k = k /\ s.todo[i].op \in {"free", "func", "arg"}
    BY DEF Destroying
  <2>2. PICK rest : rest = Tail(s.todo)
    BY ZenonT(60)
  <2>3. /\ s'.todo = rest /\ Len(rest) = Len(s.todo) - 1 /\ k \in s'.reused
        /\ \A i \in 1 .. Len(s.todo) - 1 : rest[i] = s.todo[i + 1] /\ i + 1 \in 1 .. Len(s.todo)
    BY <1>7, <1>8, <1>10, <2>2, SMTT(30)
  <2>4. \A i \in 1 .. Len(rest) : rest[i].k = k /\ rest[i].op \in {"free", "func", "arg"}
    BY <2>1, <2>3, SMTT(30)
  <2> QED BY <2>3, <2>4, SMTT(30) DEF Destroying
<1>13. \A j \in IrqSlots \ {k} : ~Busy(j) /\ ~Busy(j)'
  <2>1. Tail(s.todo) # <<>> => Tail(s.todo)[1].k = k
    BY <1>8, SMTT(30) DEF Destroying
  <2> QED BY <1>1, <1>7, <2>1, SMTT(30) DEF Busy
<1>14. FreshOK'
  BY <1>5, <1>7, <1>10, <1>13, SMTT(30) DEF IrqInv, FreshOK
<1> QED BY <1>9, <1>11, <1>12, <1>14, ZenonT(60) DEF IrqInv, InProgress

\* For any MADT, slots and pins: a handler never runs with the argument of another, wherever the
\* interrupt cuts into irq_create; its line is open when irq_create returns; the walk ends in the table.
THEOREM HandlersAreReached ==
    ASSUME IrqConstants
    PROVE  DriversSpec => []InterruptsSafe
<1> DEFINE Inv == part = "interrupts" => IrqInv
<1>1. DriversInit => Inv
  BY IrqInit, PartStarts, SMTT(30)
<1>2. IrqInv /\ [Irq!Next]_s => IrqInv'
  <2> SUFFICES ASSUME IrqInv, [Irq!Next]_s PROVE IrqInv'
    OBVIOUS
  <2>1. CASE UNCHANGED s
    <3>1. \A i, j, h : Irq!Gsi(i)' = Irq!Gsi(i) /\ Irq!Stores(j, h, i)' = Irq!Stores(j, h, i)
      BY <2>1, SMTT(30) DEF Irq!Gsi, Irq!Stores
    <3>2. IrqType' /\ WalkInv' /\ BootInv' /\ PinsOK' /\ FreshOK' /\ LinesOK' /\ Irq!OwnArgument'
      <4>1. IrqType' /\ WalkInv' /\ BootInv' /\ Irq!OwnArgument'
        BY <2>1, Zenon DEF IrqInv, IrqType, WalkInv, BootInv, Irq!OwnArgument
      <4>2. \A k : Busy(k)' <=> Busy(k)
        BY <2>1, SMTT(30) DEF Busy
      <4>3. PinsOK' /\ FreshOK'
        BY <2>1, <4>2, SMTT(30) DEF IrqInv, PinsOK, FreshOK
      <4>4. LinesOK'
        BY <2>1, <3>1, <4>2, ZenonT(60) DEF IrqInv, LinesOK
      <4> QED BY <4>1, <4>3, <4>4, SMTT(30)
    <3>3. \A k, h, i, n : (Creating(k, h, i, n) => Creating(k, h, i, n)') /\ (Destroying(k) => Destroying(k)')
      <4>1. ASSUME NEW k, NEW h, NEW i, NEW n, Creating(k, h, i, n) PROVE Creating(k, h, i, n)'
        <5>1. s' = s /\ Irq!Gsi(i)' = Irq!Gsi(i) /\ Irq!Stores(k, h, i)' = Irq!Stores(k, h, i)
          BY <2>1, <3>1, SMTT(30)
        <5> QED BY ONLY <4>1, <5>1, ZenonT(60) DEF Creating
      <4>2. \A k : Destroying(k) => Destroying(k)'
        BY <2>1, SMTT(30) DEF Destroying
      <4> QED BY <4>1, <4>2, SMTT(30)
    <3>4. InProgress'
      BY <2>1, <3>3, SMTT(30) DEF IrqInv, InProgress
    <3> QED BY <3>2, <3>4, SMTT(30) DEF IrqInv
  <2>2. CASE Irq!Store
    <3>1. s.todo # <<>>
      BY <2>2, SMTT(30) DEF Irq!Store
    <3> QED BY <2>2, <3>1, IrqCreateStep, IrqDestroyStep, ZenonT(60) DEF IrqInv, InProgress
  <2> QED BY <2>1, <2>2, IrqWalk, IrqBoot, IrqCreate, IrqDestroy, IrqFire, SMTT(30) DEF Irq!Next
<1>3. Inv /\ [DriversNext]_<<part, s>> => Inv'
  BY <1>2, PartSteps, SMTT(30)
<1>4. Inv => InterruptsSafe
  BY Zenon DEF IrqInv, WalkInv, LinesOK, Busy, InterruptsSafe, Irq!InterruptsSafe, Irq!WalkStaysInside, Irq!LineIsOpen
<1> QED BY <1>1, <1>3, <1>4, PTL DEF DriversSpec

-----------------------------------------------------------------------------
(* The PCI scan *)

\* The loops have left a function behind; a driver is meant for it; what was started so far.
Passed(f, at) ==
    \/ f[1] < at[1]
    \/ f[1] = at[1] /\ f[2] < at[2]
    \/ f[1] = at[1] /\ f[2] = at[2] /\ f[3] < at[3]
Meant(i, f) ==
    /\ i \in DOMAIN s.drivers
    /\ {f, <<f[1], f[2], 0>>} \subseteq s.present
    /\ s.class[f] = s.drivers[i]
BusFields == {"present", "class", "drivers", "devices", "at", "scanning", "dropped", "started"}
BusType ==
    /\ DOMAIN s = BusFields
    /\ s.present \subseteq Bus!Places
    /\ s.drivers \in Seq(Classes) /\ Len(s.drivers) <= MaxDrivers
    /\ s.at \in Nat \X (0 .. Devices - 1) \X (0 .. Functions - 1)
    /\ s.at[1] <= Buses
    /\ s.started \in [(1 .. MaxDrivers) \X Bus!Places -> Nat]
StartedSoFar ==
    \A i \in 1 .. MaxDrivers, f \in Bus!Places :
        s.started[<<i, f>>] = IF Passed(f, s.at) /\ Meant(i, f) THEN 1 ELSE 0
BusInv ==
    /\ BusType
    /\ s.at[3] > 0 => <<s.at[1], s.at[2], 0>> \in s.present
    /\ StartedSoFar

LEMMA BusInit == ASSUME Bus!Init PROVE BusInv
<1> USE PciAssumption
<1>1. PICK present \in SUBSET Bus!Places, class \in [Bus!Places -> Classes] :
        s = [present |-> present, class |-> class, drivers |-> <<>>, devices |-> <<>>,
             at |-> <<0, 0, 0>>, scanning |-> FALSE, dropped |-> FALSE,
             started |-> [c \in (1 .. MaxDrivers) \X Bus!Places |-> 0]]
  BY Zenon DEF Bus!Init
<1>2. BusType
  <2>1. /\ s.present = present /\ s.drivers = <<>> /\ s.at = <<0, 0, 0>>
        /\ s.started = [c \in (1 .. MaxDrivers) \X Bus!Places |-> 0]
    BY <1>1, ZenonT(60)
  <2>2. DOMAIN s = BusFields
    BY <1>1, SMTT(30) DEF BusFields
  <2>3. s.drivers \in Seq(Classes) /\ Len(s.drivers) <= MaxDrivers
    BY <2>1, SMTT(30)
  <2>4. s.at \in Nat \X (0 .. Devices - 1) \X (0 .. Functions - 1) /\ s.at[1] <= Buses
    BY <2>1, SMTT(30)
  <2>5. s.started \in [(1 .. MaxDrivers) \X Bus!Places -> Nat]
    BY <2>1, SMTT(30)
  <2> QED BY <2>1, <2>2, <2>3, <2>4, <2>5, Zenon DEF BusType
<1>3. \A f \in Bus!Places : ~Passed(f, s.at)
  <2>1. s.at = <<0, 0, 0>>
    BY <1>1, ZenonT(60)
  <2> QED BY ONLY PciAssumption, <2>1, SMTT(30) DEF Passed, Bus!Places
<1>4. StartedSoFar
  BY <1>1, <1>3, SMTT(30) DEF StartedSoFar
<1>5. s.at = <<0, 0, 0>>
  BY <1>1, Zenon
<1>6. ~(s.at[3] > 0)
  BY <1>5
<1> QED BY <1>2, <1>4, <1>6, Zenon DEF BusInv

\* A registration comes before the first function is looked at.
LEMMA BusReg == ASSUME BusInv, NEW c \in Classes, Bus!reg(c) PROVE BusInv'
<1> USE PciAssumption
<1>1. s.at = <<0, 0, 0>> /\ s'.at = s.at /\ s'.started = s.started /\ s'.present = s.present
      /\ DOMAIN s' = BusFields
  BY DEF Bus!reg, BusInv, BusType, BusFields
<1>2. s'.drivers \in Seq(Classes) /\ Len(s'.drivers) <= MaxDrivers
  BY SMTT(30) DEF Bus!reg, BusInv, BusType, BusFields
<1>3. BusType'
  BY <1>1, <1>2, SMTT(30) DEF BusInv, BusType
<1>4. \A f \in Bus!Places : ~Passed(f, s.at)
  BY <1>1 DEF Passed, Bus!Places
<1>5. StartedSoFar'
  BY <1>1, <1>4, Zenon DEF StartedSoFar, BusInv
<1>6. ~(s'.at[3] > 0)
  BY <1>1, SMTT(30)
<1> QED BY <1>3, <1>5, <1>6, Zenon DEF BusInv

\* What one step of the loops leaves behind: the function it looks at and, where function 0 is
\* absent, the other functions of the device.
LEMMA BusAfter ==
    ASSUME BusInv, s.at[1] < Buses
    PROVE  /\ Bus!After(s.at) \in Nat \X (0 .. Devices - 1) \X (0 .. Functions - 1)
           /\ Bus!After(s.at)[1] <= Buses
           /\ Bus!After(s.at)[3] > 0 =>
                <<Bus!After(s.at)[1], Bus!After(s.at)[2], 0>> \in s.present
           /\ s.at \in Bus!Places /\ ~Passed(s.at, s.at)
           /\ \A f \in Bus!Places :
                {f, <<f[1], f[2], 0>>} \subseteq s.present =>
                  (Passed(f, Bus!After(s.at)) <=> (Passed(f, s.at) \/ f = s.at))
           /\ s.at \in s.present => <<s.at[1], s.at[2], 0>> \in s.present
<1> USE PciAssumption
<1>1. PICK x \in Nat, y \in 0 .. Devices - 1, z \in 0 .. Functions - 1 : s.at = <<x, y, z>>
  <2>1. s.at \in Nat \X (0 .. Devices - 1) \X (0 .. Functions - 1)
    BY SMTT(30) DEF BusInv, BusType
  <2>2. /\ s.at = <<s.at[1], s.at[2], s.at[3]>>
        /\ s.at[1] \in Nat /\ s.at[2] \in 0 .. Devices - 1 /\ s.at[3] \in 0 .. Functions - 1
    BY <2>1, SMTT(30)
  <2> QED BY <2>2, ZenonT(60)
<1>2. x < Buses /\ (z > 0 => <<x, y, 0>> \in s.present)
  BY <1>1, SMTT(30) DEF BusInv
<1>3. s.at \in Bus!Places /\ ~Passed(s.at, s.at) /\ (s.at \in s.present => <<x, y, 0>> \in s.present)
  BY <1>1, <1>2, SMTT(30) DEF Bus!Places, Passed
<1>4. ASSUME NEW f \in Bus!Places
      PROVE  \E a \in 0 .. Buses - 1, b \in 0 .. Devices - 1, c \in 0 .. Functions - 1 : f = <<a, b, c>>
  BY SMTT(30) DEF Bus!Places
<1>5. CASE z + 1 < Functions /\ <<x, y, 0>> \in s.present
  <2>1. Bus!After(s.at) = <<x, y, z + 1>>
    BY <1>1, <1>5, SMTT(30) DEF Bus!After
  <2>2. ASSUME NEW f \in Bus!Places PROVE Passed(f, <<x, y, z + 1>>) <=> (Passed(f, s.at) \/ f = s.at)
    BY <1>1, <1>4, SMTT(30) DEF Passed
  <2> QED BY <1>1, <1>2, <1>3, <1>5, <2>1, <2>2, SMTT(30)
<1>6. CASE ~(z + 1 < Functions /\ <<x, y, 0>> \in s.present)
  <2>1. Bus!After(s.at) = IF y + 1 < Devices THEN <<x, y + 1, 0>> ELSE <<x + 1, 0, 0>>
    BY <1>1, <1>6, SMTT(30) DEF Bus!After
  <2>2. ASSUME NEW f \in Bus!Places, <<f[1], f[2], 0>> \in s.present
        PROVE  Passed(f, Bus!After(s.at)) <=> (Passed(f, s.at) \/ f = s.at)
    <3>1. PICK a \in 0 .. Buses - 1, b \in 0 .. Devices - 1, c \in 0 .. Functions - 1 : f = <<a, b, c>>
      BY <1>4, SMTT(30)
    <3>2. Passed(f, Bus!After(s.at)) <=> (a < x \/ (a = x /\ b <= y))
      BY <2>1, <3>1, SMTT(30) DEF Passed
    <3>3. (Passed(f, s.at) \/ f = s.at) <=> (a < x \/ (a = x /\ (b < y \/ (b = y /\ c <= z))))
      BY <1>1, <3>1, SMTT(30) DEF Passed
    <3>4. a = x /\ b = y => c <= z
      BY <1>2, <1>6, <2>2, <3>1, SMTT(30)
    <3> QED BY <3>2, <3>3, <3>4, SMTT(30)
  <2> QED BY <1>1, <1>2, <1>3, <2>1, <2>2, SMTT(30)
<1> QED BY <1>5, <1>6, Zenon

\* A step of the loops starts the drivers of the function it looks at, and no other.
LEMMA BusScan == ASSUME BusInv, Bus!initworkspace PROVE BusInv'
<1> USE PciAssumption
<1>1. s.at[1] < Buses
  BY DEF Bus!initworkspace
<1>2. /\ s'.at = Bus!After(s.at) /\ s'.present = s.present /\ s'.class = s.class /\ s'.drivers = s.drivers
      /\ DOMAIN s' = BusFields
      /\ s'.started = IF s.at \in s.present THEN Bus!Calls(s.at) ELSE s.started
  BY SMTT(30) DEF Bus!initworkspace, Bus!__pci_launch, BusInv, BusType, BusFields
<1>3. s'.started \in [(1 .. MaxDrivers) \X Bus!Places -> Nat]
  BY <1>2, SMTT(30) DEF Bus!Calls, BusInv, BusType
<1>4. BusType'
  <2>1. /\ s'.at \in Nat \X (0 .. Devices - 1) \X (0 .. Functions - 1)
        /\ s'.at[1] <= Buses
    BY <1>1, <1>2, BusAfter, ZenonT(60)
  <2> QED BY <1>2, <1>3, <2>1, Zenon DEF BusInv, BusType
<1>5. ASSUME NEW i \in 1 .. MaxDrivers, NEW f \in Bus!Places
      PROVE  s'.started[<<i, f>>] = IF Passed(f, s'.at) /\ Meant(i, f) THEN 1 ELSE 0
  <2>1. s.started[<<i, f>>] = IF Passed(f, s.at) /\ Meant(i, f) THEN 1 ELSE 0
    BY SMTT(30) DEF BusInv, StartedSoFar
  <2>2. Meant(i, f) => (Passed(f, s'.at) <=> (Passed(f, s.at) \/ f = s.at))
    BY <1>1, <1>2, BusAfter, SMTT(30) DEF Meant
  <2>3. CASE f = s.at /\ s.at \in s.present
    <3>1. s'.started[<<i, f>>] =
            s.started[<<i, f>>] + (IF i \in DOMAIN s.drivers /\ s.drivers[i] = s.class[f] THEN 1 ELSE 0)
      BY <1>2, <2>3, ZenonT(60) DEF Bus!Calls, Bus!Called, BusInv, BusType
    <3>2. Meant(i, f) <=> (i \in DOMAIN s.drivers /\ s.drivers[i] = s.class[f])
      BY <1>1, <2>3, BusAfter, ZenonT(60) DEF Meant
    <3>3. ~Passed(f, s.at)
      BY <1>1, <2>3, BusAfter, SMTT(30)
    <3> QED BY <2>1, <2>2, <2>3, <3>1, <3>2, <3>3, SMTT(30)
  <2>4. CASE ~(f = s.at /\ s.at \in s.present)
    <3>0. <<i, f>> \in DOMAIN s.started /\ s.started[<<i, f>>] \in Nat
      BY SMTT(30) DEF BusInv, BusType
    <3>1. s'.started[<<i, f>>] = s.started[<<i, f>>]
      <4>1. CASE s.at \in s.present
        <5>1. <<i, f>> \notin Bus!Called(s.at)
          BY <2>4, <4>1, SMTT(30) DEF Bus!Called
        <5> QED BY <1>2, <3>0, <4>1, <5>1, SMTT(30) DEF Bus!Calls
      <4>2. CASE s.at \notin s.present
        BY <1>2, <4>2, SMTT(30)
      <4> QED BY <4>1, <4>2, SMTT(30)
    <3>2. Meant(i, f) => f # s.at
      BY <2>4 DEF Meant
    <3> QED BY <2>1, <2>2, <3>1, <3>2, SMTT(30)
  <2> QED BY <2>3, <2>4, SMTT(30)
<1>6. \A i, f : Meant(i, f)' <=> Meant(i, f)
  BY <1>2, Zenon DEF Meant
<1>7. StartedSoFar'
  BY <1>5, <1>6, ZenonT(60) DEF StartedSoFar
<1>8. s'.at[3] > 0 => <<s'.at[1], s'.at[2], 0>> \in s'.present
  BY <1>1, <1>2, BusAfter, SMTT(30)
<1> QED BY <1>4, <1>7, <1>8, Zenon DEF BusInv

\* When the PCI scan (initworkspace) is over, every driver in the table has been called once for
\* each function of its class behind a present function 0 and for no other, however many buses,
\* devices, functions and drivers there are, and also for devices __pci_launch's table has no room for.
THEOREM DriversAreStarted == DriversSpec => []StartedOnce
<1> DEFINE Inv == part = "pci" => BusInv
<1>1. DriversInit => Inv
  BY BusInit, PartStarts, SMTT(30)
<1>2. BusInv /\ [Bus!Next]_s => BusInv'
  <2>1. CASE UNCHANGED s
    BY <2>1, SMTT(30) DEF BusInv, BusType, StartedSoFar, Meant
  <2> QED BY <2>1, BusReg, BusScan, SMTT(30) DEF Bus!Next
<1>3. Inv /\ [DriversNext]_<<part, s>> => Inv'
  BY <1>2, PartSteps
<1>4. BusInv => Bus!StartedOnce
  <2> SUFFICES ASSUME BusInv, s.at[1] = Buses, NEW i \in DOMAIN s.drivers, NEW f \in Bus!Places
               PROVE  s.started[<<i, f>>] =
                        (IF {f, <<f[1], f[2], 0>>} \subseteq s.present /\ s.class[f] = s.drivers[i] THEN 1 ELSE 0)
    BY Zenon DEF Bus!StartedOnce
  <2>1. Passed(f, s.at)
    <3>1. f[1] \in 0 .. Buses - 1
      BY Zenon DEF Bus!Places
    <3> QED BY <3>1, PciAssumption, SMTT(30) DEF Passed
  <2>2. s.drivers \in Seq(Classes) /\ Len(s.drivers) <= MaxDrivers
    BY Zenon DEF BusInv, BusType
  <2>3. i \in 1 .. MaxDrivers
    BY <2>2, PciAssumption, SMTT(30)
  <2> QED BY <2>1, <2>3, Zenon DEF BusInv, StartedSoFar, Meant
<1>5. Inv => StartedOnce
  BY <1>4 DEF StartedOnce
<1> QED BY <1>1, <1>3, <1>5, PTL DEF DriversSpec
=============================================================================
