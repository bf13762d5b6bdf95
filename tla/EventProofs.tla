----------------------------- MODULE EventProofs ----------------------------
(***************************************************************************)
(* The hardware side of ACPI events, for any number of events, registers,   *)
(* lines and devices: the SCI handler never meets an enabled fixed event    *)
(* without a handler, writes to registers disturb nothing but their field,  *)
(* and blocks of general purpose events own what is allocated.              *)
(***************************************************************************)
EXTENDS AcpiEvents, TLAPS

LEMMA PartStarts ==
    ASSUME EventsInit
    PROVE  /\ part = "fixed" => Fixed!Init
           /\ part = "registers" => Reg!Init
           /\ part = "blocks" => Blk!Init
  BY Zenon DEF EventsInit

LEMMA PartSteps ==
    ASSUME [EventsNext]_<<part, xs>>
    PROVE  /\ part' = part
           /\ part = "fixed" => [Fixed!Next]_(Fixed!vars)
           /\ part = "registers" => [Reg!Next]_(Reg!vars)
           /\ part = "blocks" => [Blk!Next]_(Blk!vars)
<1>1. CASE EventsNext
  BY <1>1, Zenon DEF EventsNext
<1>2. CASE UNCHANGED <<part, xs>>
  BY <1>2 DEF xs, Fixed!vars, Fixed!hw, Reg!vars, Blk!vars
<1> QED BY <1>1, <1>2

-----------------------------------------------------------------------------
(* Fixed events; their names for the variables *)

status == s
enable == x2
stuck == x3
facs == x4
handler == x5
has_global_lock == x6
phase == x7
todo == x8
USE DEF status, enable, stuck, facs, handler, has_global_lock, phase, todo

Steps == {"handler", "enable", "check_on", "has_lock", "disable", "check_off", "check", "wait", "forget"}
Todo == [s : Steps, e : Events]

TypeInv ==
    /\ enable \subseteq Events
    /\ handler \in [Events -> {Fixed!Null, "lock", "client"}]
    /\ phase \in {"boot", "early", "on", "off"}
    /\ todo \in Seq(Todo)

\* What a call has left to do is about one event.  It enables the event only after it has a
\* handler, and forgets the handler only after the event is disabled, never both.
InOrder ==
    \A i \in 1 .. Len(todo) :
        /\ todo[i].e = todo[1].e
        /\ todo[i].s = "enable" =>
               handler[todo[i].e] # Fixed!Null \/ \E j \in 1 .. i - 1 : todo[j].s = "handler"
        /\ todo[i].s = "forget" =>
               /\ todo[i].e \notin enable \/ \E j \in 1 .. i - 1 : todo[j].s = "disable"
               /\ \A j \in 1 .. Len(todo) : todo[j].s # "enable"
Quiet == phase \in {"boot", "early"} => todo = <<>>

FInv == TypeInv /\ InOrder /\ Quiet /\ Fixed!EnabledIsHandled

LEMMA GoOK ==
    ASSUME todo \in Seq(Todo), ~Fixed!Idle, Fixed!Go
    PROVE  /\ todo' \in Seq(Todo) /\ Len(todo) \in Nat \ {0} /\ Len(todo') = Len(todo) - 1
           /\ \A i \in 1 .. Len(todo') : i + 1 \in 1 .. Len(todo) /\ todo'[i] = todo[i + 1]
           /\ Head(todo) = todo[1] /\ todo[1] \in Todo
  BY DEF Fixed!Idle, Fixed!Go

\* The order is kept when a step does its own part of it.
LEMMA GoKeepsOrder ==
    ASSUME TypeInv, InOrder, ~Fixed!Idle, Fixed!Go,
           enable' \subseteq enable \cup {todo[1].e},
           todo[1].s = "enable" \/ enable' \subseteq enable,
           todo[1].s = "handler" => handler'[todo[1].e] # Fixed!Null,
           todo[1].s = "disable" => todo[1].e \notin enable',
           todo[1].s = "forget" \/ handler[todo[1].e] = Fixed!Null \/ handler'[todo[1].e] # Fixed!Null
    PROVE  InOrder'
<1>1. /\ Len(todo) \in Nat \ {0} /\ Len(todo') = Len(todo) - 1
      /\ \A i \in 1 .. Len(todo') : i + 1 \in 1 .. Len(todo) /\ todo'[i] = todo[i + 1]
  BY GoOK DEF TypeInv
<1>2. 1 \in 1 .. Len(todo) /\ \A i \in 1 .. Len(todo) : todo[i] \in Todo /\ todo[i].e = todo[1].e
  BY <1>1 DEF TypeInv, InOrder
<1> SUFFICES ASSUME NEW i \in 1 .. Len(todo')
             PROVE  /\ todo'[i].e = todo'[1].e
                    /\ todo'[i].s = "enable" =>
                           handler'[todo'[i].e] # Fixed!Null \/ \E j \in 1 .. i - 1 : todo'[j].s = "handler"
                    /\ todo'[i].s = "forget" =>
                           /\ todo'[i].e \notin enable' \/ \E j \in 1 .. i - 1 : todo'[j].s = "disable"
                           /\ \A j \in 1 .. Len(todo') : todo'[j].s # "enable"
  BY DEF InOrder
<1>3. /\ i \in Nat /\ i + 1 \in 1 .. Len(todo) /\ todo'[i] = todo[i + 1] /\ 1 \in 1 .. Len(todo')
      /\ todo'[1] = todo[2] /\ todo'[i].e = todo[1].e /\ todo'[1].e = todo[1].e
  BY <1>1, <1>2
<1>4. \A j \in 1 .. i : j = 1 \/ (j - 1 \in 1 .. i - 1 /\ j - 1 \in 1 .. Len(todo') /\ todo'[j - 1] = todo[j])
  BY <1>1, <1>3
<1>5. ASSUME todo'[i].s = "enable"
      PROVE  handler'[todo'[i].e] # Fixed!Null \/ \E j \in 1 .. i - 1 : todo'[j].s = "handler"
  <2>1. todo[1].s # "forget"
    BY <1>2, <1>3, <1>5 DEF InOrder
  <2>2. CASE handler[todo[1].e] # Fixed!Null
    BY <1>3, <2>1, <2>2
  <2>3. CASE \E j \in 1 .. i : todo[j].s = "handler"
    BY <1>3, <1>4, <2>3, Zenon
  <2>4. \/ handler[todo[i + 1].e] # Fixed!Null
        \/ \E j \in 1 .. i + 1 - 1 : todo[j].s = "handler"
    BY <1>3, <1>5 DEF InOrder
  <2> QED BY <1>2, <1>3, <2>2, <2>3, <2>4
<1>6. ASSUME todo'[i].s = "forget"
      PROVE  /\ todo'[i].e \notin enable' \/ \E j \in 1 .. i - 1 : todo'[j].s = "disable"
             /\ \A j \in 1 .. Len(todo') : todo'[j].s # "enable"
  <2>1. \A j \in 1 .. Len(todo) : todo[j].s # "enable"
    BY <1>3, <1>6 DEF InOrder
  <2>2. enable' \subseteq enable
    BY <1>2, <2>1
  <2>3. \/ todo[i + 1].e \notin enable
        \/ \E j \in 1 .. i + 1 - 1 : todo[j].s = "disable"
    BY <1>3, <1>6 DEF InOrder
  <2>4. \A j \in 1 .. Len(todo') : todo'[j].s # "enable"
    BY <1>1, <2>1
  <2>5. CASE \E j \in 1 .. i : todo[j].s = "disable"
    <3>1. PICK j \in 1 .. i : todo[j].s = "disable"
      BY <2>5
    <3>2. CASE j = 1
      BY <1>3, <2>4, <3>1, <3>2
    <3>3. CASE j # 1
      BY <1>4, <2>4, <3>1, <3>3
    <3> QED BY <3>2, <3>3
  <2> QED BY <1>2, <1>3, <2>2, <2>3, <2>4, <2>5
<1> QED BY <1>3, <1>5, <1>6

LEMMA FInit == Fixed!Init => FInv
  BY DEF Fixed!Init, FInv, TypeInv, InOrder, Quiet, Fixed!EnabledIsHandled

\* A call begins: nothing else has changed.
LEMMA BeginOK ==
    ASSUME FInv, UNCHANGED <<enable, handler>>, NEW e \in Events,
           phase' \in {"on", "off"}, phase # "boot",
           \/ todo' = Fixed!On(Fixed!Install, e)
           \/ todo' = Fixed!On(Fixed!InstallLock, e)
           \/ handler[e] # Fixed!Null /\ todo' = <<Fixed!Do("enable", e), Fixed!Do("check", e)>>
           \/ todo' = <<Fixed!Do("disable", e), Fixed!Do("check", e)>>
           \/ todo' = Fixed!On(Fixed!Uninstall, e)
    PROVE  FInv'
<1> DEFINE install == <<Fixed!Do("handler", e), Fixed!Do("enable", e), Fixed!Do("check_on", e)>>
           locked == <<Fixed!Do("handler", e), Fixed!Do("enable", e), Fixed!Do("check_on", e), Fixed!Do("has_lock", e)>>
           uninstall == <<Fixed!Do("disable", e), Fixed!Do("check_off", e), Fixed!Do("wait", e), Fixed!Do("forget", e)>>
<1>1. Fixed!On(Fixed!Install, e) = install /\ Fixed!On(Fixed!InstallLock, e) = locked /\ Fixed!On(Fixed!Uninstall, e) = uninstall
  BY DEF Fixed!On, Fixed!Install, Fixed!InstallLock, Fixed!Uninstall
<1>3. \A x \in Steps : Fixed!Do(x, e) \in Todo /\ Fixed!Do(x, e).s = x /\ Fixed!Do(x, e).e = e
  BY DEF Fixed!Do, Todo
<1>4. todo' \in Seq(Todo) /\ InOrder'
  <2>1. CASE todo' = install
    BY <1>3, <2>1 DEF InOrder, Steps
  <2>2. CASE todo' = locked
    BY <1>3, <2>2 DEF InOrder, Steps
  <2>3. CASE handler[e] # Fixed!Null /\ todo' = <<Fixed!Do("enable", e), Fixed!Do("check", e)>>
    BY <1>3, <2>3 DEF InOrder, Steps
  <2>4. CASE todo' = <<Fixed!Do("disable", e), Fixed!Do("check", e)>>
    BY <1>3, <2>4 DEF InOrder, Steps
  <2>5. CASE todo' = uninstall
    BY <1>3, <2>5 DEF InOrder, Steps
  <2> QED BY <1>1, <2>1, <2>2, <2>3, <2>4, <2>5
<1> QED BY <1>4 DEF FInv, TypeInv, Quiet, Fixed!EnabledIsHandled

LEMMA CallKeeps ==
    ASSUME FInv, Fixed!Call
    PROVE  FInv'
<1> USE DEF FInv, TypeInv, Quiet, Fixed!EnabledIsHandled
<1>1. CASE Fixed!InitializeEarly
  <2>1. todo = <<>> /\ todo' = <<>> /\ Fixed!Served \cap enable' = {}
    BY <1>1 DEF Fixed!InitializeEarly
  <2> QED BY <1>1, <2>1 DEF Fixed!InitializeEarly, InOrder
<1>2. CASE Fixed!Initialize
  BY <1>2, BeginOK, FixedAssumption DEF Fixed!Initialize, Fixed!Begin
<1>3. CASE Fixed!Clear
  BY <1>3 DEF Fixed!Clear, InOrder
<1>4. CASE Fixed!Deinitialize
  BY <1>4, SMTT(30) DEF Fixed!Deinitialize, InOrder
<1>5. CASE Fixed!DeinitializeNext
  BY <1>5, BeginOK DEF Fixed!DeinitializeNext, Fixed!Begin, Fixed!Served
<1>6. CASE Fixed!Restart
  BY <1>6 DEF Fixed!Restart, InOrder, Fixed!Idle
<1>7. ASSUME NEW e \in Events, Fixed!Client(e) PROVE FInv'
  BY <1>7, BeginOK DEF Fixed!Client, Fixed!Begin
<1> QED BY <1>1, <1>2, <1>3, <1>4, <1>5, <1>6, <1>7 DEF Fixed!Call

\* The steps of a call that go on to the next one
LEMMA GoKeeps ==
    ASSUME FInv, NEW e \in Events,
           Fixed!SetHandler(e) \/ Fixed!Enable(e) \/ Fixed!Disable(e) \/ Fixed!CheckOff(e) \/ Fixed!Wait(e) \/ Fixed!Forget(e)
    PROVE  FInv'
<1>1. ~Fixed!Idle /\ Fixed!Go /\ todo[1].e = e
  BY GoOK DEF Fixed!SetHandler, Fixed!Enable, Fixed!Disable, Fixed!CheckOff, Fixed!Wait, Fixed!Forget, Fixed!Now, Fixed!Do, FInv, TypeInv
<1>2. todo \in Seq(Todo) /\ 1 \in 1 .. Len(todo) /\ todo' \in Seq(Todo) /\ Head(todo) = todo[1] /\ phase' = phase
  BY <1>1, GoOK DEF FInv, TypeInv, Fixed!SetHandler, Fixed!Enable, Fixed!Disable, Fixed!CheckOff, Fixed!Wait, Fixed!Forget
<1>3. phase \notin {"boot", "early"}
  BY <1>1 DEF FInv, Quiet, Fixed!Idle
<1>4. CASE Fixed!SetHandler(e)
  <2>1. todo[1].s = "handler" /\ handler'[e] # Fixed!Null /\ enable' = enable
        /\ handler' \in [Events -> {Fixed!Null, "lock", "client"}] /\ \A d \in Events : d # e => handler'[d] = handler[d]
    BY <1>2, <1>4 DEF Fixed!SetHandler, Fixed!Now, Fixed!Do, FInv, TypeInv, Fixed!Null
  <2>2. InOrder'
    BY <1>1, <2>1, GoKeepsOrder DEF FInv
  <2> QED BY <1>2, <1>3, <2>1, <2>2 DEF FInv, TypeInv, Quiet, Fixed!EnabledIsHandled
<1>5. CASE Fixed!Enable(e)
  <2>1. todo[1].s = "enable" /\ handler' = handler /\ enable' \subseteq enable \cup {e}
    BY <1>2, <1>5 DEF Fixed!Enable, Fixed!Now, Fixed!Do
  <2>2. handler[e] # Fixed!Null
    BY <1>1, <1>2, <2>1 DEF FInv, InOrder
  <2>3. InOrder'
    BY <1>1, <2>1, GoKeepsOrder DEF FInv
  <2> QED BY <1>2, <1>3, <2>1, <2>2, <2>3 DEF FInv, TypeInv, Quiet, Fixed!EnabledIsHandled
<1>6. CASE Fixed!Disable(e)
  <2>1. todo[1].s = "disable" /\ handler' = handler /\ enable' = enable \ {e}
    BY <1>2, <1>6 DEF Fixed!Disable, Fixed!Now, Fixed!Do
  <2>2. InOrder'
    BY <1>1, <2>1, GoKeepsOrder DEF FInv
  <2> QED BY <1>2, <1>3, <2>1, <2>2 DEF FInv, TypeInv, Quiet, Fixed!EnabledIsHandled
<1>7. CASE Fixed!CheckOff(e) \/ Fixed!Wait(e)
  <2>1. todo[1].s \notin {"handler", "disable"} /\ handler' = handler /\ enable' = enable
    BY <1>2, <1>7 DEF Fixed!CheckOff, Fixed!Wait, Fixed!Now, Fixed!Do
  <2>2. InOrder'
    BY <1>1, <2>1, GoKeepsOrder DEF FInv
  <2> QED BY <1>2, <1>3, <2>1, <2>2 DEF FInv, TypeInv, Quiet, Fixed!EnabledIsHandled
<1>8. CASE Fixed!Forget(e)
  <2>1. /\ todo[1].s = "forget" /\ handler' = [handler EXCEPT ![e] = Fixed!Null] /\ enable' = enable
    BY <1>2, <1>8 DEF Fixed!Forget, Fixed!Now, Fixed!Do
  <2>2. e \notin enable
    BY <1>1, <1>2, <2>1 DEF FInv, InOrder
  <2>3. handler' \in [Events -> {Fixed!Null, "lock", "client"}] /\ \A d \in Events : d # e => handler'[d] = handler[d]
    BY <2>1 DEF FInv, TypeInv
  <2>4. InOrder'
    BY <1>1, <2>1, <2>3, GoKeepsOrder DEF FInv
  <2> QED BY <1>2, <1>3, <2>1, <2>2, <2>3, <2>4 DEF FInv, TypeInv, Quiet, Fixed!EnabledIsHandled, Fixed!Served
<1> QED BY <1>4, <1>5, <1>6, <1>7, <1>8

LEMMA EndKeeps ==
    ASSUME FInv, NEW e \in Events, Fixed!CheckOn(e) \/ Fixed!HasLock(e)
    PROVE  FInv'
<1>1. phase' = phase /\ phase \notin {"boot", "early"} /\ enable' = enable
  BY DEF Fixed!CheckOn, Fixed!HasLock, Fixed!Now, Fixed!Idle, FInv, Quiet
<1>2. CASE Fixed!CheckOn(e) /\ e \in enable
  <2>1. ~Fixed!Idle /\ Fixed!Go /\ handler' = handler /\ todo[1].e = e /\ todo[1].s = "check_on" /\ todo' \in Seq(Todo)
    BY <1>2, GoOK DEF Fixed!CheckOn, Fixed!Now, Fixed!Do, FInv, TypeInv
  <2>2. InOrder'
    BY <1>1, <2>1, GoKeepsOrder DEF FInv
  <2> QED BY <1>1, <2>1, <2>2 DEF FInv, TypeInv, Quiet, Fixed!EnabledIsHandled
<1>3. CASE Fixed!CheckOn(e) /\ e \notin enable
  BY <1>1, <1>3 DEF Fixed!CheckOn, FInv, TypeInv, InOrder, Quiet, Fixed!EnabledIsHandled, Fixed!Served
<1>4. CASE Fixed!HasLock(e) /\ facs
  BY <1>1, <1>4 DEF Fixed!HasLock, FInv, TypeInv, InOrder, Quiet, Fixed!EnabledIsHandled
<1>5. CASE Fixed!HasLock(e) /\ ~facs
  <2>1. phase' \in {"on", "off"} /\ phase # "boot"
    BY <1>1 DEF FInv, TypeInv
  <2> QED BY <1>5, <2>1, BeginOK, FixedAssumption DEF Fixed!HasLock
<1> QED BY <1>2, <1>3, <1>4, <1>5

LEMMA FStep ==
    ASSUME FInv, [Fixed!Next]_(Fixed!vars)
    PROVE  FInv'
<1>1. CASE Fixed!Continue
  BY <1>1, GoKeeps, EndKeeps DEF Fixed!Continue
<1>2. CASE Fixed!HandleSci
  BY <1>2 DEF Fixed!HandleSci, FInv, TypeInv, InOrder, Quiet, Fixed!EnabledIsHandled
<1>3. ASSUME NEW e \in Events, Fixed!Raise(e) PROVE FInv'
  BY <1>3 DEF Fixed!Raise, FInv, TypeInv, InOrder, Quiet, Fixed!EnabledIsHandled
<1>4. CASE UNCHANGED Fixed!vars
  BY <1>4 DEF Fixed!vars, FInv, TypeInv, InOrder, Quiet, Fixed!EnabledIsHandled
<1> QED BY <1>1, <1>2, <1>3, <1>4, CallKeeps DEF Fixed!Next

-----------------------------------------------------------------------------
(* The flag of the global lock. *)

\* What is left of the call that installs the lock's handler, or takes it out again, and what it
\* has achieved so far
LockCall ==
    LET d(step) == Fixed!Do(step, Fixed!GlobalLock)
    IN  \/ todo = <<d("handler"), d("enable"), d("check_on"), d("has_lock")>>
        \/ /\ handler[Fixed!GlobalLock] = "lock"
           /\ \/ todo = <<d("enable"), d("check_on"), d("has_lock")>>
              \/ todo = <<d("check_on"), d("has_lock")>>
              \/ todo = <<d("has_lock")>> /\ Fixed!GlobalLock \in enable
        \/ todo = <<d("disable"), d("check_off"), d("wait"), d("forget")>>
        \/ todo = <<d("check_off"), d("wait"), d("forget")>>
        \/ todo = <<d("wait"), d("forget")>>
        \/ todo = <<d("forget")>>

Flag == has_global_lock <=> handler[Fixed!GlobalLock] = "lock" /\ Fixed!GlobalLock \in enable

LInv ==
    /\ has_global_lock \in BOOLEAN /\ facs \in BOOLEAN
    /\ phase # "on" => ~has_global_lock
    /\ phase = "on" =>
          \/ Flag /\ \A i \in 1 .. Len(todo) : todo[i].e # Fixed!GlobalLock
          \/ ~has_global_lock /\ LockCall
    /\ \A i \in 1 .. Len(todo) : todo[i].s = "has_lock" => phase = "on" /\ todo[i].e = Fixed!GlobalLock

LEMMA LInit == Fixed!Init => LInv
<1> SUFFICES ASSUME Fixed!Init PROVE LInv
  OBVIOUS
<1>1. facs \in BOOLEAN /\ has_global_lock = FALSE /\ phase = "boot"
  BY DEF Fixed!Init
<1>2. 1 .. Len(todo) = {}
  BY DEF Fixed!Init
<1> QED BY <1>1, <1>2, Zenon DEF LInv

\* A call of a client, and the steps of the boot and of the teardown
LEMMA LCalls ==
    ASSUME FInv, LInv, Fixed!Call
    PROVE  LInv'
<1>0. facs' = facs /\ handler' = handler
  BY Zenon DEF Fixed!Call, Fixed!InitializeEarly, Fixed!Initialize, Fixed!Clear, Fixed!Deinitialize, Fixed!DeinitializeNext, Fixed!Restart, Fixed!Client, Fixed!hw
<1>1. CASE Fixed!InitializeEarly
  BY <1>1 DEF Fixed!InitializeEarly, Fixed!hw, LInv, FInv, Quiet
<1>2. CASE Fixed!Initialize
  <2>1. /\ phase # "on" /\ phase' = "on" /\ has_global_lock' = has_global_lock
        /\ todo' = <<Fixed!Do("handler", Fixed!GlobalLock), Fixed!Do("enable", Fixed!GlobalLock), Fixed!Do("check_on", Fixed!GlobalLock),
                     Fixed!Do("has_lock", Fixed!GlobalLock)>>
    BY <1>2 DEF Fixed!Initialize, Fixed!Begin, Fixed!On, Fixed!InstallLock
  <2>2. LockCall'
    BY <2>1 DEF LockCall
  <2>3. Len(todo') = 4 /\ \A i \in 1 .. Len(todo') : todo'[i].e = Fixed!GlobalLock
    BY <2>1 DEF Fixed!Do
  <2> QED BY <1>0, <2>1, <2>2, <2>3 DEF LInv
<1>3. CASE Fixed!Clear
  BY <1>3, SMTT(30) DEF Fixed!Clear, LInv, LockCall, Flag
<1>4. CASE Fixed!Deinitialize
  <2>1. has_global_lock' = FALSE /\ phase' = "off" /\ 1 .. Len(todo') = {}
    BY <1>4 DEF Fixed!Deinitialize, Fixed!Idle
  <2>2. has_global_lock' \in BOOLEAN /\ facs' \in BOOLEAN
    BY <1>0, <2>1, Zenon DEF LInv
  <2> QED BY <2>1, <2>2 DEF LInv
<1>5. CASE Fixed!DeinitializeNext
  <2>1. PICK e : todo' = Fixed!On(Fixed!Uninstall, e)
    BY <1>5 DEF Fixed!DeinitializeNext, Fixed!Begin
  <2>2. todo' = <<Fixed!Do("disable", e), Fixed!Do("check_off", e), Fixed!Do("wait", e), Fixed!Do("forget", e)>>
    BY <2>1 DEF Fixed!On, Fixed!Uninstall
  <2>3. \A i \in 1 .. Len(todo') : todo'[i].s # "has_lock"
    BY <2>2 DEF Fixed!Do
  <2> QED BY <1>0, <1>5, <2>3 DEF Fixed!DeinitializeNext, LInv
<1>6. CASE Fixed!Restart
  BY <1>6 DEF Fixed!Restart, Fixed!hw, LInv, Fixed!Idle
<1>7. ASSUME NEW e \in Events, Fixed!Client(e) PROVE LInv'
  <2>1. e # Fixed!GlobalLock /\ phase = "on" /\ phase' = "on" /\ todo = <<>> /\ has_global_lock' = has_global_lock
        /\ enable' = enable
    BY <1>7 DEF Fixed!Client, Fixed!Begin, Fixed!Idle
  <2>2. Flag /\ Flag'
    BY <1>0, <2>1 DEF LInv, LockCall, Flag
  <2>3. \/ todo' = <<Fixed!Do("handler", e), Fixed!Do("enable", e), Fixed!Do("check_on", e)>>
        \/ todo' = <<Fixed!Do("enable", e), Fixed!Do("check", e)>>
        \/ todo' = <<Fixed!Do("disable", e), Fixed!Do("check", e)>>
        \/ todo' = <<Fixed!Do("disable", e), Fixed!Do("check_off", e), Fixed!Do("wait", e), Fixed!Do("forget", e)>>
    BY <1>7 DEF Fixed!Client, Fixed!Begin, Fixed!On, Fixed!Install, Fixed!Uninstall
  <2>4. \A i \in 1 .. Len(todo') : todo'[i].e # Fixed!GlobalLock /\ todo'[i].s # "has_lock"
    BY <2>1, <2>3, SMTT(30) DEF Fixed!Do
  <2> QED BY <1>0, <2>1, <2>2, <2>4 DEF LInv
<1> QED BY <1>1, <1>2, <1>3, <1>4, <1>5, <1>6, <1>7 DEF Fixed!Call

\* A step of a call that is not about the lock leaves its handler and its bit alone.
LEMMA LOther ==
    ASSUME FInv, LInv, NEW e \in Events, e # Fixed!GlobalLock,
           \/ Fixed!SetHandler(e) \/ Fixed!Enable(e) \/ Fixed!Disable(e) \/ Fixed!CheckOn(e) \/ Fixed!CheckOff(e)
           \/ Fixed!Wait(e) \/ Fixed!Forget(e) \/ Fixed!HasLock(e)
    PROVE  LInv'
<1>1. todo \in Seq(Todo) /\ todo # <<>> /\ todo[1] = Head(todo) /\ Head(todo).e = e /\ 1 \in 1 .. Len(todo)
  BY DEF Fixed!SetHandler, Fixed!Enable, Fixed!Disable, Fixed!CheckOn, Fixed!CheckOff, Fixed!Wait, Fixed!Forget, Fixed!HasLock, Fixed!Now, Fixed!Idle, Fixed!Do, FInv, TypeInv
<1>2. ~Fixed!HasLock(e)
  BY <1>1 DEF Fixed!HasLock, Fixed!Now, Fixed!Do, LInv
<1>3. /\ todo' = Tail(todo) \/ todo' = <<>>
      /\ handler'[Fixed!GlobalLock] = handler[Fixed!GlobalLock] /\ (Fixed!GlobalLock \in enable' <=> Fixed!GlobalLock \in enable)
      /\ has_global_lock' = has_global_lock /\ facs' = facs /\ phase' = phase
  BY <1>2, FixedAssumption, SMTT(30) DEF Fixed!SetHandler, Fixed!Enable, Fixed!Disable, Fixed!CheckOn, Fixed!CheckOff, Fixed!Wait, Fixed!Forget, Fixed!Go, Fixed!hw, FInv, TypeInv
<1>4. \A i \in 1 .. Len(todo') : \E j \in 1 .. Len(todo) : todo'[i] = todo[j]
  BY <1>1, <1>3, SMTT(30)
<1>5. ~LockCall
  <2> DEFINE d(x) == Fixed!Do(x, Fixed!GlobalLock)
  <2>1. \A x : d(x).e = Fixed!GlobalLock
    BY DEF Fixed!Do
  <2> HIDE DEF d
  <2>2. LockCall => \E x : todo[1] = d(x)
    BY DEF LockCall, d
  <2> QED BY <1>1, <2>1, <2>2
<1> QED BY <1>3, <1>4, <1>5, Zenon DEF LInv, Flag

\* A step of a call about the lock
LEMMA LOwn ==
    ASSUME FInv, LInv, NEW e \in Events, e = Fixed!GlobalLock,
           \/ Fixed!SetHandler(e) \/ Fixed!Enable(e) \/ Fixed!Disable(e) \/ Fixed!CheckOn(e) \/ Fixed!CheckOff(e)
           \/ Fixed!Wait(e) \/ Fixed!Forget(e) \/ Fixed!HasLock(e)
    PROVE  LInv'
<1>1. todo \in Seq(Todo) /\ todo # <<>> /\ todo[1] = Head(todo) /\ Head(todo).e = e /\ 1 \in 1 .. Len(todo)
  BY DEF Fixed!SetHandler, Fixed!Enable, Fixed!Disable, Fixed!CheckOn, Fixed!CheckOff, Fixed!Wait, Fixed!Forget, Fixed!HasLock, Fixed!Now, Fixed!Idle, Fixed!Do, FInv, TypeInv
<1>2. CASE phase = "on"
  <2> DEFINE d(step) == Fixed!Do(step, Fixed!GlobalLock)
  <2>1. \A x : d(x).s = x
    BY DEF Fixed!Do
  <2>2. LockCall /\ has_global_lock = FALSE
    BY <1>1, <1>2 DEF LInv
  <2>3. handler' \in [Events -> {Fixed!Null, "lock", "client"}] /\ handler \in [Events -> {Fixed!Null, "lock", "client"}]
    BY SMTT(30) DEF Fixed!SetHandler, Fixed!Enable, Fixed!Disable, Fixed!CheckOn, Fixed!CheckOff, Fixed!Wait, Fixed!Forget, Fixed!HasLock, FInv, TypeInv
  <2>4. ASSUME NEW x, Head(todo) = d(x)
        PROVE  /\ Fixed!SetHandler(e) => x = "handler"
               /\ Fixed!Enable(e) => x = "enable"
               /\ Fixed!Disable(e) => x = "disable"
               /\ Fixed!CheckOn(e) => x = "check_on"
               /\ Fixed!CheckOff(e) => x \in {"check_off", "check"}
               /\ Fixed!Wait(e) => x = "wait"
               /\ Fixed!Forget(e) => x = "forget"
               /\ Fixed!HasLock(e) => x = "has_lock"
    BY <2>1, <2>4, SMTT(30) DEF Fixed!SetHandler, Fixed!Enable, Fixed!Disable, Fixed!CheckOn, Fixed!CheckOff, Fixed!Wait, Fixed!Forget, Fixed!HasLock, Fixed!Now
  <2>11. ASSUME has_global_lock' = FALSE, facs' = facs, phase' = phase, LockCall',
               \A i \in 1 .. Len(todo') : todo'[i].e = Fixed!GlobalLock
        PROVE  LInv'
    BY <1>2, <2>11, Zenon DEF LInv
  <2> HIDE DEF d
  <2>5. CASE todo = <<d("handler"), d("enable"), d("check_on"), d("has_lock")>>
    <3>1. Fixed!SetHandler(e)
      BY <2>4, <2>5
    <3>2. handler'[Fixed!GlobalLock] = "lock" /\ todo' = <<d("enable"), d("check_on"), d("has_lock")>>
      BY <2>3, <2>5, <3>1 DEF Fixed!SetHandler, Fixed!Go
    <3>3. LockCall'
      BY <3>2 DEF LockCall, d
    <3>4. \A i \in 1 .. Len(todo') : todo'[i].e = Fixed!GlobalLock
      BY <3>2, SMTT(30) DEF d, Fixed!Do
    <3>5. has_global_lock' = FALSE /\ facs' = facs /\ phase' = phase
      BY ONLY <2>2, <3>1, Zenon DEF Fixed!SetHandler, Fixed!hw
    <3> QED BY ONLY <2>11, <3>3, <3>4, <3>5, Zenon
  <2>6. CASE todo = <<d("enable"), d("check_on"), d("has_lock")>> /\ handler[Fixed!GlobalLock] = "lock"
    <3>1. Fixed!Enable(e)
      BY <2>4, <2>6
    <3>2. handler' = handler /\ todo' = <<d("check_on"), d("has_lock")>>
      BY <2>6, <3>1 DEF Fixed!Enable, Fixed!Go
    <3>3. LockCall'
      BY <2>6, <3>2 DEF LockCall, d
    <3>4. \A i \in 1 .. Len(todo') : todo'[i].e = Fixed!GlobalLock
      BY <3>2 DEF d, Fixed!Do
    <3>5. has_global_lock' = FALSE /\ facs' = facs /\ phase' = phase
      BY ONLY <2>2, <3>1, Zenon DEF Fixed!Enable, Fixed!hw
    <3> QED BY ONLY <2>11, <3>3, <3>4, <3>5, Zenon
  <2>7. CASE todo = <<d("check_on"), d("has_lock")>> /\ handler[Fixed!GlobalLock] = "lock"
    <3>1. Fixed!CheckOn(e)
      BY <2>4, <2>7, SMTT(30)
    <3>2. CASE e \in enable
      <4>1. handler' = handler /\ todo' = <<d("has_lock")>> /\ Fixed!GlobalLock \in enable'
        BY <2>7, <3>1, <3>2 DEF Fixed!CheckOn, Fixed!Go
      <4>2. LockCall'
        BY <2>7, <4>1 DEF LockCall, d
      <4>3. \A i \in 1 .. Len(todo') : todo'[i].e = Fixed!GlobalLock
        BY <4>1, SMTT(30) DEF d, Fixed!Do
      <4>4. has_global_lock' = FALSE /\ facs' = facs /\ phase' = phase
        BY ONLY <2>2, <3>1, Zenon DEF Fixed!CheckOn, Fixed!hw
      <4> QED BY ONLY <2>11, <4>2, <4>3, <4>4, Zenon
    <3>3. CASE e \notin enable
      <4>1. handler'[Fixed!GlobalLock] # "lock" /\ Len(todo') = 0
        BY <2>3, <3>1, <3>3 DEF Fixed!CheckOn, Fixed!Null
      <4>2. has_global_lock' = has_global_lock /\ phase' = phase /\ facs' = facs
        BY <3>1 DEF Fixed!CheckOn, Fixed!hw
      <4>3. 1 .. Len(todo') = {}
        BY <4>1
      <4>4. ~has_global_lock /\ Flag'
        BY <1>2, <2>2, <4>1, <4>2 DEF Flag
      <4> QED BY <4>2, <4>3, <4>4, Zenon DEF LInv
    <3> QED BY <3>2, <3>3
  <2>8. CASE todo = <<d("has_lock")>> /\ handler[Fixed!GlobalLock] = "lock" /\ Fixed!GlobalLock \in enable
    <3>1. Fixed!HasLock(e)
      BY <2>4, <2>8, SMTT(30)
    <3>2. CASE facs
      <4>1. /\ has_global_lock' = facs /\ facs' = facs /\ phase' = phase /\ todo' = <<>>
            /\ handler' = handler /\ enable' = enable
        BY ONLY <3>1, <3>2, Zenon DEF Fixed!HasLock, Fixed!hw
      <4>2. 1 .. Len(todo') = {}
        BY ONLY <4>1
      <4>3. Flag'
        BY ONLY <2>8, <3>2, <4>1, ZenonT(60) DEF Flag
      <4> QED BY <1>2, <3>2, <4>1, <4>2, <4>3, Zenon DEF LInv
    <3>3. CASE ~facs
      <4>1. todo' = <<d("disable"), d("check_off"), d("wait"), d("forget")>>
        BY <3>1, <3>3 DEF Fixed!HasLock, Fixed!On, Fixed!Uninstall, d
      <4>2. LockCall'
        BY <4>1 DEF LockCall, d
      <4>3. \A i \in 1 .. Len(todo') : todo'[i].e = Fixed!GlobalLock
        BY <4>1, SMTT(30) DEF d, Fixed!Do
      <4>4. has_global_lock' = FALSE /\ facs' = facs /\ phase' = phase
        BY <3>1, <3>3, Zenon DEF Fixed!HasLock, Fixed!hw, LInv
      <4> QED BY ONLY <2>11, <4>2, <4>3, <4>4, Zenon
    <3> QED BY <3>2, <3>3
  <2>9. CASE \/ todo = <<d("disable"), d("check_off"), d("wait"), d("forget")>>
             \/ todo = <<d("check_off"), d("wait"), d("forget")>>
             \/ todo = <<d("wait"), d("forget")>>
    <3>1. Fixed!Disable(e) \/ Fixed!CheckOff(e) \/ Fixed!Wait(e)
      BY <2>4, <2>9, SMTT(30)
    <3>2. \/ todo' = <<d("check_off"), d("wait"), d("forget")>>
          \/ todo' = <<d("wait"), d("forget")>>
          \/ todo' = <<d("forget")>>
      <4>1. todo' = Tail(todo)
        BY <3>1 DEF Fixed!Disable, Fixed!CheckOff, Fixed!Wait, Fixed!Go
      <4>2. CASE todo = <<d("disable"), d("check_off"), d("wait"), d("forget")>>
        BY <4>1, <4>2
      <4>3. CASE todo = <<d("check_off"), d("wait"), d("forget")>>
        BY <4>1, <4>3
      <4>4. CASE todo = <<d("wait"), d("forget")>>
        BY <4>1, <4>4
      <4> QED BY <2>9, <4>2, <4>3, <4>4, SMTT(30)
    <3>3. LockCall'
      BY <3>2 DEF LockCall, d
    <3>4. \A i \in 1 .. Len(todo') : todo'[i].e = Fixed!GlobalLock
      BY <3>2, SMTT(30) DEF d, Fixed!Do
    <3>5. has_global_lock' = FALSE /\ facs' = facs /\ phase' = phase
      BY ONLY <2>2, <3>1, Zenon DEF Fixed!Disable, Fixed!CheckOff, Fixed!Wait, Fixed!hw
    <3> QED BY ONLY <2>11, <3>3, <3>4, <3>5, Zenon
  <2>10. CASE todo = <<d("forget")>>
    <3>1. Fixed!Forget(e)
      BY <2>4, <2>10
    <3>2. handler'[Fixed!GlobalLock] # "lock" /\ Len(todo') = 0
      BY <2>3, <2>10, <3>1, SMTT(30) DEF Fixed!Forget, Fixed!Go, Fixed!Null
    <3>3. has_global_lock' = has_global_lock /\ phase' = phase /\ facs' = facs
      BY ONLY <3>1, Zenon DEF Fixed!Forget, Fixed!hw
    <3>4. 1 .. Len(todo') = {}
      BY ONLY <3>2
    <3>5. has_global_lock = FALSE /\ Flag'
      BY ONLY <2>2, <3>2, <3>3, Zenon DEF Flag
    <3> QED BY <3>3, <3>4, <3>5, Zenon DEF LInv
  <2> QED BY <2>2, <2>5, <2>6, <2>7, <2>8, <2>9, <2>10 DEF LockCall, d
<1>3. CASE phase # "on"
  <2>1. ~Fixed!HasLock(e)
    BY <1>1, <1>3, SMTT(30) DEF Fixed!HasLock, Fixed!Now, Fixed!Do, LInv
  <2>2. /\ todo' = Tail(todo) \/ todo' = <<>>
        /\ has_global_lock' = has_global_lock /\ facs' = facs /\ phase' = phase
    BY <2>1 DEF Fixed!SetHandler, Fixed!Enable, Fixed!Disable, Fixed!CheckOn, Fixed!CheckOff, Fixed!Wait, Fixed!Forget, Fixed!Go, Fixed!hw, FInv, TypeInv
  <2>3. \A i \in 1 .. Len(todo') : \E j \in 1 .. Len(todo) : todo'[i] = todo[j]
    BY <1>1, <2>2
  <2> QED BY <1>3, <2>2, <2>3, Zenon DEF LInv
<1> QED BY <1>2, <1>3, SMTT(30)

LEMMA LStep ==
    ASSUME FInv, LInv, [Fixed!Next]_(Fixed!vars)
    PROVE  LInv'
<1>2. CASE Fixed!Continue
  BY <1>2, LOther, LOwn, SMTT(30) DEF Fixed!Continue
<1>3. CASE Fixed!HandleSci
  <2>1. /\ handler' = handler /\ todo' = todo /\ facs' = facs /\ phase' = phase
        /\ has_global_lock' = has_global_lock
        /\ handler[Fixed!GlobalLock] # Fixed!Null => (Fixed!GlobalLock \in enable' <=> Fixed!GlobalLock \in enable)
    BY <1>3 DEF Fixed!HandleSci
  <2>2. Flag => Flag'
    BY <2>1, SMTT(30) DEF Flag, Fixed!Null
  <2>3. LockCall => LockCall'
    BY <2>1, SMTT(30) DEF LockCall, Fixed!Null
  <2> QED BY <2>1, <2>2, <2>3, Zenon DEF LInv
<1>4. ASSUME NEW e \in Events, Fixed!Raise(e) PROVE LInv'
  BY <1>4, Zenon DEF Fixed!Raise, LInv, LockCall, Flag
<1>5. CASE UNCHANGED Fixed!vars
  BY <1>5, Zenon DEF Fixed!vars, Fixed!hw, LInv, LockCall, Flag
<1> QED BY <1>2, <1>3, <1>4, <1>5, LCalls DEF Fixed!Next

\* However interrupts cut into uacpi_install_fixed_event_handler, uninstall, enable and
\* disable, an event that is enabled has its handler; and when uacpi_initialize_events is through,
\* has_global_lock is set exactly if the event that announces the lock's release is delivered.
THEOREM FixedEventsSafe == EventsSpec => []FixedSafe
<1> DEFINE Inv == part = "fixed" => FInv /\ LInv
<1>1. EventsInit => Inv
  BY PartStarts, FInit, LInit
<1>2. Inv /\ [EventsNext]_<<part, xs>> => Inv'
  BY PartSteps, FStep, LStep, SMTT(30)
<1>3. Inv => FixedSafe
  BY SMTT(30) DEF FInv, LInv, LockCall, Flag, FixedSafe, Fixed!FixedSafe, Fixed!LockFlagIsTrue, Fixed!Idle
<1> QED BY <1>1, <1>2, <1>3, PTL DEF EventsSpec

-----------------------------------------------------------------------------
(* The registers; their names for the variables *)

spec == s
present == x2
blk == x3
state == x4
maps == x5
op == x6
want == x7
asked == x8
USE DEF spec, present, blk, state, maps, op, want, asked

\* A register keeps bits either by reading them first, or keeps none, or is write-to-clear.
SpecOK == spec.access \in {"clear", "preserve"} \/ spec.preserve = {}

\* The call in progress writes no bit that software must leave alone, and has put no write-only
\* bit into what it is about to write.
OpOK ==
    /\ op.kind \in {"idle", "load", "map", "mapping", "access", "store"}
    /\ op.kind # "idle" => op.field \cap spec.preserve = {} /\ op.value \subseteq op.field
    /\ op.kind = "store" => op.data \cap spec.write_only \subseteq op.value
    /\ IrqOff => op.kind \notin {"mapping", "store"}

Held == (UNION {blk[b] : b \in present}) \ spec.write_only

RegInv ==
    /\ SpecOK /\ OpOK
    /\ present \in {{0}, {0, 1}}
    /\ blk = [b \in {0, 1} |-> blk[b]]
    /\ state \in [{0, 1} -> {"none", "mapped", "not_needed"}]
    /\ maps = [b \in {0, 1} |-> maps[b]]
    /\ asked = {}
    /\ IrqOff => /\ spec.access # "clear" => Held = want
                 /\ \A b \in {0, 1} : maps[b] = IF state[b] = "mapped" THEN 1 ELSE 0

LEMMA RegInit == Reg!Init => RegInv
<1> SUFFICES ASSUME Reg!Init PROVE RegInv
  OBVIOUS
<1>1. PICK r \in Regs : spec = Reg!g_registers[r]
  BY DEF Reg!Init
<1>2. SpecOK
  <2>1. \A x \in DOMAIN Reg!g_registers :
            \/ Reg!g_registers[x].access \in {"clear", "preserve"}
            \/ Reg!g_registers[x].preserve = {}
    <3> DEFINE g == Reg!g_registers
    <3>1. DOMAIN g = {"PM1_STS", "PM1_EN", "PM1_CNT", "PM_TMR", "PM2_CNT", "SLP_CNT", "SLP_STS", "RESET", "SMI_CMD"}
      BY Zenon DEF Reg!g_registers
    <3>2. g["PM1_STS"].access = "clear" /\ g["SLP_STS"].access = "clear"
      BY Zenon DEF Reg!g_registers
    <3>3. g["PM1_EN"].access = "preserve" /\ g["PM1_CNT"].access = "preserve" /\ g["PM_TMR"].access = "preserve"
      BY Zenon DEF Reg!g_registers
    <3>4. g["PM2_CNT"].access = "preserve" /\ g["SLP_CNT"].access = "preserve"
      BY Zenon DEF Reg!g_registers
    <3>5. g["RESET"].preserve = {} /\ g["SMI_CMD"].preserve = {}
      BY Zenon DEF Reg!g_registers
    <3> HIDE DEF g
    <3>6. ASSUME NEW x \in DOMAIN g PROVE g[x].access \in {"clear", "preserve"} \/ g[x].preserve = {}
      BY <3>1, <3>2, <3>3, <3>4, <3>5, <3>6, SMTT(30)
    <3> QED BY <3>6, SMTT(30) DEF g
  <2> QED BY <1>1, <2>1, RegistersAssumption DEF SpecOK
<1>3. PICK v : blk = [b \in {0, 1} |-> IF b = 0 THEN v ELSE {}] /\ v \cap spec.write_only = {}
  BY DEF Reg!Init, Reg!Blocks
<1>4. Held = want
  BY <1>3 DEF Reg!Init, Held
<1> QED BY <1>2, <1>3, <1>4 DEF Reg!Init, Reg!Blocks, Reg!Idle, RegInv, OpOK

\* Mapping what is not mapped yet, or a part of it
LEMMA MapsOnce ==
    ASSUME RegInv, NEW need \in SUBSET {b \in {0, 1} : state[b] = "none"}, Reg!MapBlocks(need)
    PROVE  /\ state' \in [{0, 1} -> {"none", "mapped", "not_needed"}]
           /\ maps' = [b \in {0, 1} |-> maps'[b]]
           /\ IrqOff => \A b \in {0, 1} : maps'[b] = IF state'[b] = "mapped" THEN 1 ELSE 0
<1>1. /\ state' = [b \in {0, 1} |-> IF b \in need THEN Reg!map_one(b) ELSE state[b]]
      /\ maps' = [b \in {0, 1} |-> IF b \in need \cap present THEN maps[b] + 1 ELSE maps[b]]
  BY DEF Reg!MapBlocks, Reg!Blocks
<1> QED BY <1>1 DEF Reg!map_one, RegInv

\* What a call writes: of the write-only bits only its own, and the register then holds
\* what a plain one would.
LEMMA ComposedIs ==
    ASSUME RegInv, NEW field, NEW value, NEW junk, field \cap spec.preserve = {}, value \subseteq field
    PROVE  LET w == Reg!Composed(Reg!FieldValue(field, value, junk), junk)
           IN  /\ w \cap spec.write_only \subseteq value
               /\ spec.access # "clear" => w \ spec.write_only = (Held \ field) \cup (value \ spec.write_only)
<1>1. Reg!do_read_register(junk) = Held
  BY DEF Reg!do_read_register, Held
<1> DEFINE w == Reg!Composed(Reg!FieldValue(field, value, junk), junk)
<1>2. w = ((((Held \ field) \cup (value \cap field)) \ spec.preserve)
              \cup (IF spec.access = "preserve" THEN Held \cap spec.preserve ELSE {}))
  BY <1>1 DEF Reg!Composed, Reg!FieldValue
<1>3. Held \cap spec.write_only = {}
  BY SMTT(30) DEF Held
<1> QED BY <1>2, <1>3 DEF RegInv, SpecOK

LEMMA FinishOK ==
    ASSUME RegInv, NEW w, NEW field, NEW value, Reg!Finish(w, field, value),
           UNCHANGED <<spec, present>>,
           w \cap spec.write_only \subseteq value
    PROVE  /\ asked' = {} /\ blk' = [b \in {0, 1} |-> blk'[b]]
           /\ (spec.access # "clear" /\ Held = want
                 /\ w \ spec.write_only = (Held \ field) \cup (value \ spec.write_only)) => Held' = want'
<1>1. blk' = [b \in {0, 1} |-> IF b \in present THEN Reg!HwWrite(blk[b], w) ELSE blk[b]]
  BY DEF Reg!Finish, Reg!Written, Reg!Blocks
<1>2. asked' = {}
  BY DEF Reg!Finish, RegInv
<1>3. ASSUME spec.access # "clear", Held = want, 
             w \ spec.write_only = (Held \ field) \cup (value \ spec.write_only)
      PROVE  Held' = want'
  <2>1. want' = (want \ field) \cup (value \ spec.write_only)
    BY <1>3 DEF Reg!Finish, Reg!Plain
  <2>2. \A b \in present : blk'[b] = w \ spec.write_only
    BY <1>1, <1>3 DEF Reg!HwWrite, RegInv
  <2>3. Held' = w \ spec.write_only
    BY <2>2, SMTT(30) DEF Held, RegInv
  <2> QED BY <1>3, <2>1, <2>3, SMTT(30)
<1> QED BY <1>1, <1>2, <1>3, Zenon

LEMMA RegStep == ASSUME RegInv, [Reg!Next]_(Reg!vars) PROVE RegInv'
<1> USE DEF Reg!Blocks
<1>1. ASSUME NEW field \in Reg!Fields, NEW value \in SUBSET field, Reg!Begin(field, value)
      PROVE  RegInv'
  BY <1>1 DEF Reg!Begin, Reg!Fields, RegInv, SpecOK, OpOK, Held
<1>2. CASE Reg!Load
  BY <1>2 DEF Reg!Load, RegInv, SpecOK, OpOK, Held
<1>3. CASE Reg!MapWithLock
  BY <1>3, MapsOnce, SMTT(30) DEF Reg!MapWithLock, RegInv, SpecOK, OpOK, Held
<1>4. CASE Reg!MapFails
  BY <1>4, MapsOnce, SMTT(30) DEF Reg!MapFails, Reg!Idle, RegInv, SpecOK, OpOK, Held
<1>5. CASE Reg!MapCheck
  BY <1>5, SMTT(30) DEF Reg!MapCheck, RegInv, SpecOK, OpOK, Held
<1>6. CASE Reg!MapDone
  BY <1>6 DEF Reg!MapDone, RegInv, SpecOK, OpOK, Held, Reg!MapBlocks, Reg!map_one
<1>7. CASE Reg!Access
  <2>1. PICK junk : LET w == Reg!Composed(Reg!FieldValue(op.field, op.value, junk), junk)
           IN  IF IrqOff
               THEN Reg!Finish(w, op.field, op.value) /\ op' = Reg!Idle
               ELSE /\ op' = [kind |-> "store", field |-> op.field, value |-> op.value, data |-> w]
                    /\ UNCHANGED <<blk, want, asked>>
    BY <1>7, SMTT(30) DEF Reg!Access
  <2> DEFINE w == Reg!Composed(Reg!FieldValue(op.field, op.value, junk), junk)
  <2>2. /\ w \cap spec.write_only \subseteq op.value
        /\ spec.access # "clear" => w \ spec.write_only = (Held \ op.field) \cup (op.value \ spec.write_only)
    BY <1>7, ComposedIs, ZenonT(60) DEF Reg!Access, RegInv, OpOK
  <2> HIDE DEF w
  <2>3. CASE IrqOff
    <3>1. Reg!Finish(w, op.field, op.value) /\ op' = Reg!Idle
      BY <2>1, <2>3, Zenon DEF w
    <3>2. UNCHANGED <<spec, present, state, maps>>
      BY <1>7, SMTT(30) DEF Reg!Access
    <3>3. /\ asked' = {} /\ blk' = [b \in {0, 1} |-> blk'[b]]
          /\ spec.access # "clear" => Held' = want'
      BY <2>2, <2>3, <3>1, <3>2, FinishOK, SMTT(30) DEF RegInv
    <3> QED BY <3>1, <3>2, <3>3 DEF Reg!Idle, RegInv, SpecOK, OpOK
  <2>4. CASE ~IrqOff
    BY <1>7, <2>1, <2>2, <2>4, SMTT(30) DEF Reg!Access, w, RegInv, SpecOK, OpOK
  <2> QED BY <2>3, <2>4, SMTT(30)
<1>8. CASE Reg!Store
  <2>1. ~IrqOff /\ op.data \cap spec.write_only \subseteq op.value
    BY <1>8, SMTT(30) DEF Reg!Store, RegInv, OpOK
  <2> QED BY <1>8, <2>1, FinishOK DEF Reg!Store, Reg!Idle, RegInv, SpecOK, OpOK
<1>9. ASSUME NEW value0, NEW value1, Reg!WriteRegisters(value0, value1) PROVE RegInv'
  <2>1. /\ state' \in [{0, 1} -> {"none", "mapped", "not_needed"}]
        /\ maps' = [c \in {0, 1} |-> maps'[c]]
        /\ IrqOff => \A c \in {0, 1} : maps'[c] = IF state'[c] = "mapped" THEN 1 ELSE 0
    BY <1>9, MapsOnce DEF Reg!WriteRegisters
  <2>2. /\ spec.access # "clear" /\ UNCHANGED <<spec, present, op, asked>>
        /\ want' = (value0 \cup (IF 1 \in present THEN value1 ELSE {})) \ spec.write_only
    BY <1>9 DEF Reg!WriteRegisters
  <2>3. blk' = [b \in {0, 1} |-> IF b \in present THEN (IF b = 0 THEN value0 ELSE value1) \ spec.write_only
                                                   ELSE blk[b]]
    BY <1>9, <2>2 DEF Reg!WriteRegisters, Reg!Written, Reg!HwWrite
  <2>4. Held' = want'
    <3>1. CASE present = {0}
      BY <2>2, <2>3, <3>1 DEF Held
    <3>2. CASE present = {0, 1}
      <4>1. blk'[0] = value0 \ spec.write_only /\ blk'[1] = value1 \ spec.write_only
        BY <2>3, <3>2, SMTT(30)
      <4>2. UNION {blk'[b] : b \in present} = blk'[0] \cup blk'[1]
        BY <3>2, SMTT(30)
      <4> QED BY <2>2, <3>2, <4>1, <4>2, SMTT(30) DEF Held
    <3> QED BY <3>1, <3>2 DEF RegInv
  <2> QED BY <2>1, <2>2, <2>3, <2>4 DEF RegInv, SpecOK, OpOK
<1>10. ASSUME NEW b \in Bits \ spec.preserve, NEW value \in {{}, {b}}, Reg!Interrupt({b}, value)
       PROVE  RegInv'
  <2>1. PICK junk : Reg!Finish(Reg!Composed(Reg!FieldValue({b}, value, junk), junk), {b}, value)
    BY <1>10, SMTT(30) DEF Reg!Interrupt
  <2> DEFINE w == Reg!Composed(Reg!FieldValue({b}, value, junk), junk)
  <2>2. /\ w \cap spec.write_only \subseteq value
        /\ spec.access # "clear" => w \ spec.write_only = (Held \ {b}) \cup (value \ spec.write_only)
    <3>1. {b} \cap spec.preserve = {} /\ value \subseteq {b}
      BY SMTT(30)
    <3> QED BY <3>1, ComposedIs, Zenon
  <2> HIDE DEF w
  <2>3. Reg!Finish(w, {b}, value) /\ UNCHANGED <<spec, present, op>>
    BY <1>10, <2>1, Zenon DEF Reg!Interrupt, w
  <2>4. /\ asked' = {} /\ blk' = [c \in {0, 1} |-> blk'[c]]
        /\ spec.access # "clear" /\ Held = want => Held' = want'
    BY <2>2, <2>3, FinishOK, SMTT(30)
  <2>5. /\ state' \in [{0, 1} -> {"none", "mapped", "not_needed"}]
        /\ maps' = [c \in {0, 1} |-> maps'[c]]
        /\ IrqOff => \A c \in {0, 1} : maps'[c] = IF state'[c] = "mapped" THEN 1 ELSE 0
    BY <1>10, MapsOnce, SMTT(30) DEF Reg!Interrupt
  <2> QED BY <2>3, <2>4, <2>5, SMTT(30) DEF RegInv, SpecOK, OpOK
<1>11. ASSUME NEW b, Reg!Status(b) PROVE RegInv'
  BY <1>11, ZenonT(60) DEF Reg!Status, RegInv, SpecOK, OpOK
<1>12. CASE Reg!Deinitialize
  BY <1>12, SMTT(30) DEF Reg!Deinitialize, Reg!Mapped, RegInv, SpecOK, OpOK, Held
<1>13. CASE UNCHANGED Reg!vars
  BY <1>13 DEF Reg!vars, RegInv, SpecOK, OpOK, Held
<1> QED
  BY <1>1, <1>2, <1>3, <1>4, <1>5, <1>6, <1>7, <1>8, <1>9, <1>10, <1>11, <1>12, <1>13, ZenonT(60) DEF Reg!Next

\* Whatever bits a register has, and however the interrupt handler cuts in, no write sets a
\* write-only bit (SLP_EN, GBL_RLS) that its caller did not set.  Where the spinlock keeps the
\* interrupt out, uacpi_write_register_field changes its own field only, in a register that lives in
\* two blocks, and a block is mapped exactly once while its state says so.
THEOREM RegistersAreSafe == EventsSpec => []RegistersSafe
<1> DEFINE Inv == part = "registers" => RegInv
<1>1. EventsInit => Inv
  BY PartStarts, RegInit
<1>2. Inv /\ [EventsNext]_<<part, xs>> => Inv'
  BY PartSteps, RegStep
<1>3. Inv => RegistersSafe
  BY DEF RegInv, Held, Reg!Blocks, RegistersSafe, Reg!RegistersSafe, Reg!NoSpuriousTrigger, Reg!FieldsKept,
         Reg!MappedOnce
<1> QED BY <1>1, <1>2, <1>3, PTL DEF EventsSpec

-----------------------------------------------------------------------------
(* Blocks of general purpose events; their names for the variables *)

chain == s
blocks == x2
mem == x3
sci == x4
lines == x5
runtime == x6
job == x7
up == x8
USE DEF chain, blocks, mem, sci, lines, runtime, job, up

Block == [dev : Devices \cup {Gpe}, irq : Irqs, n : {0, 1}]
Injective(q) == \A i, j \in 1 .. Len(q) : q[i] = q[j] => i = j

\* What blocks and their contexts consist of
Parts(b) == Blk!Pieces(b) \cup Blk!Maps(b)
Ctx(c) == <<"ctx", c>>
Owned(L, C) == (UNION {Parts(b) : b \in L}) \cup {Ctx(c) : c \in C}
Used == {c \in Irqs : blocks[c] # <<>>}

\* The lists hold each block once, on its own line; and memory is what they consist of, but for
\* the block that is being removed.
BlkType ==
    /\ blocks \in [Irqs -> Seq(Block)]
    /\ \A c \in Irqs : Injective(blocks[c]) /\ \A i \in 1 .. Len(blocks[c]) : blocks[c][i].irq = c
    /\ ~up => Blk!Idle /\ Blk!Linked = {}
    /\ Blk!Idle \/ \E step \in {"unmap", "unlink", "free"}, b \in Block : job = <<step, b>>
MemInv ==
    /\ Blk!Idle => mem = Owned(Blk!Linked, Used)
    /\ \A b \in Block :
          /\ job = <<"unmap", b>> => b \in Blk!Linked /\ mem = Owned(Blk!Linked, Used)
          /\ job = <<"unlink", b>> => b \in Blk!Linked /\ mem = Owned(Blk!Linked, Used) \ Blk!Maps(b)
          /\ job = <<"free", b>> => b \notin Blk!Linked /\ mem = Owned(Blk!Linked, Used) \cup Blk!Pieces(b)
BlkInv == BlkType /\ MemInv

\* Two blocks share nothing, and a block shares nothing with a context.
LEMMA PartsApart ==
    /\ \A b, c : b # c => Parts(b) \cap Parts(c) = {}
    /\ \A b, c : Ctx(c) \notin Parts(b)
    /\ \A b, c : Blk!Pieces(b) \cap Blk!Maps(c) = {}
  BY SMTT(30) DEF Parts, Blk!Pieces, Blk!Maps, Ctx

\* A list without one of its entries
LEMMA Removed ==
    ASSUME NEW q \in Seq(Block), Injective(q), NEW i \in 1 .. Len(q)
    PROVE  LET r == Blk!Without(q, i)
           IN  /\ r \in Seq(Block) /\ Injective(r)
               /\ {r[k] : k \in 1 .. Len(r)} = {q[k] : k \in 1 .. Len(q)} \ {q[i]}
<1> DEFINE r == Blk!Without(q, i)
<1>1. /\ r \in Seq(Block) /\ Len(r) = Len(q) - 1
      /\ \A k \in 1 .. Len(r) : r[k] = IF k < i THEN q[k] ELSE q[k + 1]
  <2> DEFINE a == SubSeq(q, 1, i - 1)
             z == SubSeq(q, i + 1, Len(q))
  <2>1. a \in Seq(Block) /\ Len(a) = i - 1 /\ \A k \in 1 .. i - 1 : a[k] = q[k]
    <3>1. \A k \in 1 .. i - 1 : k \in 1 .. Len(q)
      OBVIOUS
    <3> QED BY <3>1
  <2>2. z \in Seq(Block) /\ Len(z) = Len(q) - i /\ \A k \in 1 .. Len(z) : z[k] = q[i + k]
    <3>1. \A k \in (i + 1) .. Len(q) : k \in 1 .. Len(q)
      OBVIOUS
    <3>2. z \in Seq(Block)
      BY <3>1
    <3>3. Len(z) = Len(q) - i
      OBVIOUS
    <3>4. \A k \in 1 .. Len(z) : z[k] = q[i + k]
      BY <3>3
    <3> QED BY <3>2, <3>3, <3>4
  <2>3. r = a \o z
    BY DEF Blk!Without
  <2> HIDE DEF a, z, r
  <2>4. /\ r \in Seq(Block) /\ Len(r) = Len(a) + Len(z)
        /\ \A k \in 1 .. Len(r) : r[k] = IF k <= Len(a) THEN a[k] ELSE z[k - Len(a)]
    <3>1. a \in Seq(Block) /\ z \in Seq(Block)
      BY <2>1, <2>2, SMTT(30)
    <3> QED BY ONLY <2>3, <3>1
  <2>5. Len(r) = Len(q) - 1
    BY <2>1, <2>2, <2>4, SMTT(30)
  <2>6. ASSUME NEW k \in 1 .. Len(r) PROVE r[k] = IF k < i THEN q[k] ELSE q[k + 1]
    <3>1. CASE k < i
      <4>1. k \in 1 .. Len(a) /\ k <= Len(a)
        BY <2>1, <2>5, <3>1, SMTT(30)
      <4> QED BY <2>1, <2>4, <3>1, <4>1, SMTT(30)
    <3>2. CASE ~(k < i)
      <4>1. ~(k <= Len(a)) /\ k - Len(a) \in 1 .. Len(z) /\ i + (k - Len(a)) = k + 1
        BY <2>1, <2>2, <2>5, <3>2, SMTT(30)
      <4>2. r[k] = z[k - Len(a)] /\ z[k - Len(a)] = q[i + (k - Len(a))]
        BY <2>2, <2>4, <4>1, Zenon
      <4> QED BY <3>2, <4>1, <4>2, SMTT(30)
    <3> QED BY <3>1, <3>2, SMTT(30)
  <2> QED BY <2>4, <2>5, <2>6, Zenon
<1> HIDE DEF r
<1>2. Injective(r)
  <2> SUFFICES ASSUME NEW k \in 1 .. Len(r), NEW l \in 1 .. Len(r), r[k] = r[l] PROVE k = l
    BY DEF Injective
  <2>1. /\ k \in 1 .. Len(q) /\ k + 1 \in 1 .. Len(q) /\ l \in 1 .. Len(q) /\ l + 1 \in 1 .. Len(q)
    BY <1>1, SMTT(30)
  <2> QED BY <1>1, <2>1, SMTT(30) DEF Injective
<1>3. ASSUME NEW k \in 1 .. Len(r) PROVE r[k] \in {q[l] : l \in 1 .. Len(q)} \ {q[i]}
  <2>1. k \in 1 .. Len(q) /\ k + 1 \in 1 .. Len(q)
    BY <1>1
  <2> QED BY <1>1, <2>1, SMTT(90) DEF Injective
<1>4. ASSUME NEW k \in 1 .. Len(q), k # i PROVE q[k] \in {r[l] : l \in 1 .. Len(r)}
  <2>1. CASE k < i
    <3>1. k \in 1 .. Len(r) /\ r[k] = q[k]
      BY <1>1, <2>1
    <3> QED BY <3>1
  <2>2. CASE k > i
    <3>1. k - 1 \in 1 .. Len(r) /\ r[k - 1] = q[k]
      BY <1>1, <2>2, SMTT(30)
    <3> QED BY <3>1
  <2> QED BY <1>4, <2>1, <2>2, SMTT(30)
<1> QED BY <1>1, <1>2, <1>3, <1>4, ZenonT(60) DEF r

\* The blocks of a function of lists
Of(bl) == {b \in Block : \E c \in Irqs : \E i \in 1 .. Len(bl[c]) : bl[c][i] = b}

LEMMA LinkedIs ==
    ASSUME NEW bl \in [Irqs -> Seq(Block)]
    PROVE  UNION {Blk!Members(bl[c]) : c \in Irqs} = Of(bl)
<1>1. \A c \in Irqs : /\ DOMAIN bl[c] = 1 .. Len(bl[c])
                      /\ \A i \in 1 .. Len(bl[c]) : bl[c][i] \in Block
  BY SMTT(30)
<1> QED BY <1>1 DEF Blk!Members, Of

LEMMA BlkInit == Blk!Init => BlkInv
<1> SUFFICES ASSUME Blk!Init PROVE BlkInv
  OBVIOUS
<1>1. blocks \in [Irqs -> Seq(Block)] /\ \A c \in Irqs : blocks[c] = <<>> /\ Len(blocks[c]) = 0
  BY DEF Blk!Init
<1>2. Blk!Linked = {} /\ Used = {}
  <2>1. Blk!Linked = Of(blocks)
    BY <1>1, LinkedIs DEF Blk!Linked
  <2> QED BY <1>1, <2>1 DEF Used, Of
<1>3. Owned(Blk!Linked, Used) = {}
  BY <1>2, SMTT(30) DEF Owned
<1> QED BY <1>1, <1>2, <1>3 DEF Blk!Init, Blk!Idle, BlkInv, BlkType, MemInv, Injective

\* The end of create_gpe_block: the new blocks are in front of their list.
LEMMA LinkKeeps ==
    ASSUME BlkInv, Blk!Idle, NEW irq \in Irqs, NEW bs \in Seq(Block), bs # <<>>, Injective(bs),
           \A i \in 1 .. Len(bs) : bs[i].irq = irq /\ bs[i] \notin Blk!Linked,
           Blk!Link(bs, irq), UNCHANGED job, up'
    PROVE  BlkInv'
<1> DEFINE q == blocks[irq]
           new == {bs[i] : i \in 1 .. Len(bs)}
<1>1. q \in Seq(Block) /\ blocks' = [blocks EXCEPT ![irq] = bs \o q] /\ Len(bs) \in Nat \ {0}
  BY DEF BlkInv, BlkType, Blk!Link
<1>2. PICK r : r = bs \o q
  BY Zenon
<1>3. /\ r \in Seq(Block) /\ Len(r) = Len(bs) + Len(q)
      /\ \A k \in 1 .. Len(r) : r[k] = IF k <= Len(bs) THEN bs[k] ELSE q[k - Len(bs)]
  BY ONLY <1>1, <1>2, bs \in Seq(Block), SMTT(30)
<1>4. blocks' \in [Irqs -> Seq(Block)] /\ blocks'[irq] = r /\ \A c \in Irqs : c # irq => blocks'[c] = blocks[c]
  BY <1>1, <1>2, <1>3, Zenon DEF BlkInv, BlkType
<1>5. \A i \in 1 .. Len(q) : q[i] \in Blk!Linked /\ q[i].irq = irq
  <2>1. Blk!Linked = Of(blocks)
    BY LinkedIs, Zenon DEF Blk!Linked, BlkInv, BlkType
  <2>2. \A i \in 1 .. Len(q) : q[i] \in Block
    BY <1>1, SMTT(30)
  <2> QED BY <2>1, <2>2, SMTT(30) DEF BlkInv, BlkType, Of
<1> HIDE DEF q
<1>6. Injective(r)
  <2> SUFFICES ASSUME NEW k \in 1 .. Len(r), NEW l \in 1 .. Len(r), r[k] = r[l] PROVE k = l
    BY DEF Injective
  <2>1. Injective(q) /\ Len(q) \in Nat
    BY <1>1, SMTT(30) DEF BlkInv, BlkType, q
  <2>2. \/ k \in 1 .. Len(bs) /\ r[k] = bs[k]
        \/ k - Len(bs) \in 1 .. Len(q) /\ r[k] = q[k - Len(bs)] /\ k > Len(bs)
    BY <1>1, <1>3, <2>1, SMTT(30)
  <2>3. \/ l \in 1 .. Len(bs) /\ r[l] = bs[l]
        \/ l - Len(bs) \in 1 .. Len(q) /\ r[l] = q[l - Len(bs)] /\ l > Len(bs)
    BY <1>1, <1>3, <2>1, SMTT(30)
  <2>4. \A m \in 1 .. Len(bs), n \in 1 .. Len(q) : bs[m] # q[n]
    BY <1>5, SMTT(30)
  <2>5. CASE k \in 1 .. Len(bs) /\ l \in 1 .. Len(bs)
    BY <1>3, <2>5 DEF Injective
  <2>6. CASE k > Len(bs) /\ l > Len(bs)
    <3>1. k - Len(bs) = l - Len(bs)
      BY <2>1, <2>2, <2>3, <2>6, SMTT(30) DEF Injective
    <3> QED BY <1>1, <3>1, SMTT(30)
  <2> QED BY <2>2, <2>3, <2>4, <2>5, <2>6, Zenon
<1>7. ASSUME NEW i \in 1 .. Len(r) PROVE r[i].irq = irq
  <2>1. CASE i <= Len(bs)
    BY <1>1, <1>3, <2>1, SMTT(30)
  <2>2. CASE i > Len(bs)
    <3>1. i - Len(bs) \in 1 .. Len(q) /\ r[i] = q[i - Len(bs)]
      BY <1>1, <1>3, <2>2, SMTT(30)
    <3> QED BY <1>5, <3>1, Zenon
  <2> QED BY <1>1, <2>1, <2>2
<1>8. BlkType'
  BY <1>4, <1>6, <1>7, Zenon DEF BlkInv, BlkType, Blk!Idle
<1>9. Blk!Linked' = Blk!Linked \cup new
  <2>1. Blk!Linked' = Of(blocks') /\ Blk!Linked = Of(blocks)
    BY <1>4, LinkedIs, Zenon DEF Blk!Linked, BlkInv, BlkType
  <2>2. ASSUME NEW b \in Of(blocks') PROVE b \in Of(blocks) \cup new
    <3>1. PICK c \in Irqs : \E i \in 1 .. Len(blocks'[c]) : blocks'[c][i] = b
      BY Zenon DEF Of
    <3>2. CASE c # irq
      BY <1>4, <3>1, <3>2, ZenonT(60) DEF Of
    <3>3. CASE c = irq
      <4>1. PICK i \in 1 .. Len(r) : r[i] = b
        BY <1>4, <3>1, <3>3, Zenon
      <4>2. CASE i <= Len(bs)
        BY <1>1, <1>3, <4>1, <4>2, SMTT(30)
      <4>3. CASE i > Len(bs)
        <5>1. i - Len(bs) \in 1 .. Len(q) /\ b = q[i - Len(bs)]
          BY <1>1, <1>3, <4>1, <4>3, SMTT(30)
        <5> QED BY <1>5, <2>1, <5>1, SMTT(30)
      <4> QED BY <1>1, <4>2, <4>3, SMTT(30)
    <3> QED BY <3>2, <3>3
  <2>3. ASSUME NEW b \in Of(blocks) PROVE b \in Of(blocks')
    <3>1. PICK c \in Irqs : \E i \in 1 .. Len(blocks[c]) : blocks[c][i] = b
      BY SMTT(30) DEF Of
    <3>2. CASE c # irq
      BY <1>4, <3>1, <3>2, ZenonT(60) DEF Of
    <3>3. CASE c = irq
      <4>1. PICK i \in 1 .. Len(q) : q[i] = b
        BY <3>1, <3>3, Zenon DEF q
      <4>2. i + Len(bs) \in 1 .. Len(r) /\ r[i + Len(bs)] = b
        <5>1. (i + Len(bs)) - Len(bs) = i /\ ~(i + Len(bs) <= Len(bs)) /\ i + Len(bs) \in 1 .. Len(r)
          BY <1>1, <1>3, SMTT(30)
        <5> QED BY <1>3, <4>1, <5>1, SMTT(30)
      <4> QED BY <1>4, <4>2, Zenon DEF Of
    <3> QED BY <3>2, <3>3, SMTT(30)
  <2>4. ASSUME NEW i \in 1 .. Len(bs) PROVE bs[i] \in Of(blocks')
    <3>1. i \in 1 .. Len(r) /\ r[i] = bs[i] /\ bs[i] \in Block
      BY <1>1, <1>3, SMTT(30)
    <3> QED BY <1>4, <3>1, SMTT(30) DEF Of
  <2> QED BY <2>1, <2>2, <2>3, <2>4, SMTT(30)
<1>10. Used' = Used \cup {irq}
  BY <1>1, <1>3, <1>4, SMTT(30) DEF Used
<1>11. mem' = mem \cup {Ctx(irq)} \cup UNION {Parts(b) : b \in new}
  <2>1. Blk!Members(bs) = new
    BY DEF Blk!Members
  <2> QED BY <2>1 DEF Blk!Link, Parts, Ctx
<1>12. mem' = Owned(Blk!Linked', Used')
  <2>1. mem = Owned(Blk!Linked, Used)
    BY DEF BlkInv, MemInv
  <2> HIDE DEF new
  <2> QED BY <1>9, <1>10, <1>11, <2>1, SMTT(30) DEF Owned
<1>13. job = <<>> /\ job' = <<>>
  BY SMTT(30) DEF Blk!Idle
<1> QED BY <1>8, <1>12, <1>13, SMTT(30) DEF BlkInv, MemInv

\* create_gpe_block stops halfway and gives back what it had.
LEMMA FailKeeps ==
    ASSUME BlkInv, Blk!Idle, NEW b, Blk!LinkFails(b), UNCHANGED job, up \/ up', Blk!Linked = {} \/ up'
    PROVE  BlkInv'
<1>1. PICK got \in {{}, {<<"block", b>>}, {<<"block", b>>, <<"registers", b>>}} \cup
                  {Blk!Pieces(b) \cup ms : ms \in SUBSET Blk!Maps(b)} : mem' = mem \cup Blk!Released(b, got)
  BY DEF Blk!LinkFails
<1>2. Blk!Released(b, got) = {}
  <2>1. CASE got \in {{}, {<<"block", b>>}, {<<"block", b>>, <<"registers", b>>}}
    BY <2>1 DEF Blk!Released, Blk!Pieces
  <2>2. CASE got \in {Blk!Pieces(b) \cup ms : ms \in SUBSET Blk!Maps(b)}
    <3>1. <<"registers", b>> \in got /\ got \subseteq Blk!Pieces(b) \cup Blk!Maps(b)
      BY <2>2, SMTT(30) DEF Blk!Pieces
    <3> QED BY <3>1, SMTT(30) DEF Blk!Released
  <2> QED BY <2>1, <2>2, SMTT(30)
<1>3. mem' = mem /\ blocks' = blocks /\ job' = job /\ job = <<>>
  BY <1>1, <1>2, SMTT(30) DEF Blk!LinkFails, Blk!Idle
<1>4. Blk!Linked' = Blk!Linked /\ Used' = Used
  BY <1>3 DEF Blk!Linked, Used
<1> QED BY <1>3, <1>4, Zenon DEF BlkInv, BlkType, MemInv, Blk!Idle

LEMMA CallsKeep ==
    ASSUME BlkInv,
           \/ Blk!Initialize
           \/ \E d \in Devices, irq \in Irqs : Blk!InstallBlock(d, irq)
           \/ \E b \in Blk!Linked : Blk!Enable(b) \/ Blk!UninstallBlock(b)
           \/ Blk!Deinitialize \/ UNCHANGED Blk!vars
    PROVE  BlkInv'
<1>1. CASE Blk!Initialize
  <2>0. Blk!Idle /\ Blk!Linked = {} /\ up' /\ UNCHANGED job
    BY <1>1 DEF Blk!Initialize, BlkInv, BlkType
  <2>1. CASE Blk!LinkFails(Blk!FadtBlock(0))
    BY <2>0, <2>1, FailKeeps, SMTT(30)
  <2>2. ASSUME NEW bs \in {<<Blk!FadtBlock(0)>>, <<Blk!FadtBlock(1)>>, <<Blk!FadtBlock(1), Blk!FadtBlock(0)>>},
               Blk!Link(bs, Sci)
        PROVE  BlkInv'
    <3>1. /\ Blk!FadtBlock(0) \in Block /\ Blk!FadtBlock(1) \in Block /\ Blk!FadtBlock(0) # Blk!FadtBlock(1)
          /\ Blk!FadtBlock(0).irq = Sci /\ Blk!FadtBlock(1).irq = Sci
      BY BlocksAssumption, SMTT(30) DEF Blk!FadtBlock, Block
    <3>2. bs \in Seq(Block) /\ bs # <<>> /\ Injective(bs) /\ \A i \in 1 .. Len(bs) : bs[i].irq = Sci
      <4> DEFINE f0 == Blk!FadtBlock(0)
                 f1 == Blk!FadtBlock(1)
      <4> HIDE DEF f0, f1
      <4>1. f0 \in Block /\ f1 \in Block /\ f0 # f1 /\ f0.irq = Sci /\ f1.irq = Sci
        BY <3>1, SMTT(30) DEF f0, f1
      <4>2. CASE bs = <<f0>>
        BY <4>1, <4>2, SMTT(30) DEF Injective
      <4>3. CASE bs = <<f1>>
        BY <4>1, <4>3, SMTT(30) DEF Injective
      <4>4. CASE bs = <<f1, f0>>
        BY <4>1, <4>4, SMTT(30) DEF Injective
      <4> QED BY <4>2, <4>3, <4>4, SMTT(30) DEF f0, f1
    <3> QED BY <2>0, <2>2, <3>2, LinkKeeps, BlocksAssumption, SMTT(30)
  <2> QED BY <1>1, <2>1, <2>2, SMTT(30) DEF Blk!Initialize
<1>2. ASSUME NEW d \in Devices, NEW irq \in Irqs, Blk!InstallBlock(d, irq) PROVE BlkInv'
  <2>0. Blk!Idle /\ up /\ up' /\ UNCHANGED job
    BY <1>2 DEF Blk!InstallBlock
  <2>1. PICK b : b = [dev |-> d, irq |-> irq, n |-> 0]
    BY Zenon
  <2>2. b \in Block /\ b.irq = irq /\ b \notin Blk!Linked
    BY <1>2, <2>1, SMTT(30) DEF Block, Blk!InstallBlock
  <2>3. CASE Blk!LinkFails(b)
    BY <2>0, <2>3, FailKeeps
  <2>4. CASE Blk!Link(<<b>>, irq)
    <3>1. <<b>> \in Seq(Block) /\ <<b>> # <<>> /\ Injective(<<b>>)
          /\ \A i \in 1 .. Len(<<b>>) : <<b>>[i] = b
      BY <2>2 DEF Injective
    <3>2. \A i \in 1 .. Len(<<b>>) : <<b>>[i].irq = irq /\ <<b>>[i] \notin Blk!Linked
      BY <2>2, <3>1
    <3> QED BY <2>0, <2>4, <3>1, <3>2, LinkKeeps, ZenonT(60)
  <2> QED BY <1>2, <2>1, <2>2, <2>3, <2>4, SMTT(30) DEF Blk!InstallBlock, Blk!Create
<1>3. ASSUME NEW b \in Blk!Linked, Blk!Enable(b) PROVE BlkInv'
  BY <1>3, Zenon DEF Blk!Enable, BlkInv, BlkType, MemInv, Blk!Idle, Blk!Linked, Used
<1>4. ASSUME NEW b \in Blk!Linked, Blk!UninstallBlock(b) PROVE BlkInv'
  <2>1. b \in Block
    BY LinkedIs, SMTT(30) DEF Blk!Linked, BlkInv, BlkType, Of
  <2>2. job' = <<"unmap", b>> /\ Blk!Idle /\ up /\ UNCHANGED <<blocks, mem, up>>
    BY <1>4, SMTT(30) DEF Blk!UninstallBlock
  <2>3. Blk!Linked' = Blk!Linked /\ Used' = Used
    BY <2>2, SMTT(30) DEF Blk!Linked, Used
  <2>4. BlkType'
    BY <2>1, <2>2, <2>3, SMTT(30) DEF BlkInv, BlkType
  <2>5. mem' = Owned(Blk!Linked', Used')
    BY <2>2, <2>3, SMTT(30) DEF BlkInv, MemInv
  <2>6. MemInv'
    BY <2>2, <2>3, <2>5, SMTT(30) DEF MemInv, Blk!Idle
  <2> QED BY <2>4, <2>6, SMTT(30) DEF BlkInv
<1>5. CASE Blk!Deinitialize
  <2>1. blocks' = [c \in Irqs |-> <<>>] /\ job = <<>> /\ job' = <<>>
    BY <1>5, Zenon DEF Blk!Deinitialize, Blk!Idle
  <2>2. blocks' \in [Irqs -> Seq(Block)] /\ \A c \in Irqs : blocks'[c] = <<>> /\ Len(blocks'[c]) = 0
    BY <2>1
  <2>3. Blk!Linked' = {} /\ Used' = {}
    <3>1. Blk!Linked' = Of(blocks')
      BY <2>2, LinkedIs, SMTT(30) DEF Blk!Linked
    <3> QED BY <2>2, <3>1, SMTT(30) DEF Used, Of
  <2>4. mem = Owned(Blk!Linked, Used)
    BY <2>1, SMTT(30) DEF BlkInv, MemInv, Blk!Idle
  <2>5. mem' = mem \ UNION ({Parts(b) : b \in Blk!Linked} \cup {{Ctx(c)} : c \in Used})
    BY <1>5, Zenon DEF Blk!Deinitialize, Parts, Ctx, Used
  <2>6. mem' = {}
    BY <2>4, <2>5, Zenon DEF Owned
  <2>7. Owned(Blk!Linked', Used') = {}
    BY <2>3, SMTT(30) DEF Owned
  <2> QED BY <2>1, <2>2, <2>3, <2>6, <2>7, SMTT(30) DEF BlkInv, BlkType, MemInv, Blk!Idle, Injective
<1>6. CASE UNCHANGED Blk!vars
  <2>1. UNCHANGED <<blocks, mem, job, up>>
    BY <1>6 DEF Blk!vars
  <2>2. Blk!Linked' = Blk!Linked /\ Used' = Used /\ Blk!Idle' = Blk!Idle
    BY <2>1, Zenon DEF Blk!Linked, Used, Blk!Idle
  <2> QED BY <2>1, <2>2, Zenon DEF BlkInv, BlkType, MemInv
<1> QED BY <1>1, <1>2, <1>3, <1>4, <1>5, <1>6, SMTT(30)

\* The steps of uninstall_gpe_block
LEMMA RemovalKeeps ==
    ASSUME BlkInv, Blk!Unmap \/ Blk!Unlink \/ Blk!Free
    PROVE  BlkInv'
<1>1. PICK step \in {"unmap", "unlink", "free"}, b \in Block : job = <<step, b>>
  BY Zenon DEF BlkInv, BlkType, Blk!Unmap, Blk!Unlink, Blk!Free
<1>2. up /\ up' = up /\ job # <<>>
  BY <1>1, Zenon DEF BlkInv, BlkType, Blk!Unmap, Blk!Unlink, Blk!Free, Blk!Idle
<1>3. CASE Blk!Unmap
  <2>1. job = <<"unmap", b>> /\ job' = <<"unlink", b>> /\ mem' = mem \ Blk!Maps(b) /\ blocks' = blocks
    BY <1>1, <1>3, SMTT(30) DEF Blk!Unmap
  <2>2. Blk!Linked' = Blk!Linked /\ Used' = Used
    BY <2>1, SMTT(30) DEF Blk!Linked, Used
  <2> QED BY <1>2, <2>1, <2>2, Zenon DEF BlkInv, BlkType, MemInv, Blk!Idle
<1>4. CASE Blk!Free
  <2>1. job = <<"free", b>> /\ job' = <<>> /\ mem' = mem \ Blk!Pieces(b) /\ blocks' = blocks
    BY <1>1, <1>4, SMTT(30) DEF Blk!Free
  <2>2. Blk!Linked' = Blk!Linked /\ Used' = Used
    BY <2>1, SMTT(30) DEF Blk!Linked, Used
  <2>3. b \notin Blk!Linked /\ mem = Owned(Blk!Linked, Used) \cup Blk!Pieces(b)
    BY <2>1, SMTT(30) DEF BlkInv, MemInv
  <2>4. Owned(Blk!Linked, Used) \cap Blk!Pieces(b) = {}
    BY <2>3, PartsApart, SMTT(30) DEF Owned, Parts
  <2>5. mem' = Owned(Blk!Linked, Used)
    BY <2>1, <2>3, <2>4, SMTT(30)
  <2> QED BY <1>2, <2>1, <2>2, <2>5, Zenon DEF BlkInv, BlkType, MemInv, Blk!Idle
<1>5. CASE Blk!Unlink
  <2>1. job = <<"unlink", b>> /\ job' = <<"free", b>> /\ up' = up
    BY <1>1, <1>5, Zenon DEF Blk!Unlink
  <2>2. b \in Blk!Linked /\ mem = Owned(Blk!Linked, Used) \ Blk!Maps(b)
    BY <2>1 DEF BlkInv, MemInv
  <2> DEFINE irq == b.irq
             q == blocks[irq]
  <2>3. irq \in Irqs /\ q \in Seq(Block) /\ Injective(q) /\ \A k \in 1 .. Len(q) : q[k].irq = irq
    BY Zenon DEF Block, BlkInv, BlkType
  <2>4. Blk!Linked = Of(blocks)
    BY LinkedIs, SMTT(30) DEF Blk!Linked, BlkInv, BlkType
  <2>5. \E k \in 1 .. Len(q) : q[k] = b
    BY <2>2, <2>4 DEF Of, BlkInv, BlkType
  <2>6. PICK i : i = CHOOSE k \in DOMAIN q : q[k] = b
    BY SMTT(30)
  <2>7. i \in 1 .. Len(q) /\ q[i] = b
    BY <2>3, <2>5, <2>6, SMTT(30)
  <2>8. PICK r : r = Blk!Without(q, i)
    BY SMTT(30)
  <2>9. /\ r \in Seq(Block) /\ Injective(r)
        /\ {r[k] : k \in 1 .. Len(r)} = {q[k] : k \in 1 .. Len(q)} \ {b}
    <3> HIDE DEF q
    <3>1. LET x == Blk!Without(q, i)
          IN  /\ x \in Seq(Block) /\ Injective(x)
              /\ {x[k] : k \in 1 .. Len(x)} = {q[k] : k \in 1 .. Len(q)} \ {q[i]}
      BY ONLY <2>3, <2>7, Removed, Zenon
    <3> QED BY <2>7, <2>8, <3>1, Zenon
  <2>10. /\ blocks' = [blocks EXCEPT ![irq] = r]
         /\ mem' = IF r = <<>> THEN mem \ {Ctx(irq)} ELSE mem
    BY <1>5, <2>1, <2>6, <2>8, ZenonT(60) DEF Blk!Unlink, Ctx
  <2>11. blocks' \in [Irqs -> Seq(Block)] /\ blocks'[irq] = r /\ \A c \in Irqs : c # irq => blocks'[c] = blocks[c]
    BY <2>3, <2>9, <2>10, SMTT(30) DEF BlkInv, BlkType
  <2> HIDE DEF irq, q
  <2>12. \A k \in 1 .. Len(r) : r[k].irq = irq
    BY <2>3, <2>9, SMTT(30)
  <2>13. BlkType'
    <3>1. \A c \in Irqs : /\ Injective(blocks'[c])
                          /\ \A k \in 1 .. Len(blocks'[c]) : blocks'[c][k].irq = c
      BY <2>9, <2>11, <2>12, Zenon DEF BlkInv, BlkType
    <3>2. \E x \in {"unmap", "unlink", "free"}, y \in Block : job' = <<x, y>>
      BY <2>1
    <3>3. ~up' => Blk!Idle' /\ Blk!Linked' = {}
      BY <1>2, <2>1
    <3> QED BY <2>11, <3>1, <3>2, <3>3, Zenon DEF BlkType
  <2>14. Blk!Linked' = Blk!Linked \ {b}
    <3>1. Blk!Linked' = Of(blocks')
      BY <2>11, LinkedIs DEF Blk!Linked
    <3>2. ASSUME NEW x \in Of(blocks') PROVE x \in Of(blocks) /\ x # b
      <4>1. PICK c \in Irqs : \E k \in 1 .. Len(blocks'[c]) : blocks'[c][k] = x
        BY SMTT(30) DEF Of
      <4>2. CASE c = irq
        <5>1. x \in {r[k] : k \in 1 .. Len(r)}
          BY <2>11, <4>1, <4>2, SMTT(30)
        <5>2. x # b /\ \E k \in 1 .. Len(q) : q[k] = x
          BY <2>9, <5>1, SMTT(30)
        <5> QED BY <2>3, <5>2, SMTT(30) DEF Of, q
      <4>3. CASE c # irq
        <5>1. x.irq = c
          BY <2>11, <4>1, <4>3 DEF BlkInv, BlkType
        <5> QED BY <2>11, <4>1, <4>3, <5>1, SMTT(30) DEF Of, irq
      <4> QED BY <4>2, <4>3, SMTT(30)
    <3>3. ASSUME NEW x \in Of(blocks), x # b PROVE x \in Of(blocks')
      <4>1. PICK c \in Irqs : \E k \in 1 .. Len(blocks[c]) : blocks[c][k] = x
        BY SMTT(30) DEF Of
      <4>2. CASE c = irq
        <5>1. x \in {q[k] : k \in 1 .. Len(q)} \ {b}
          BY <3>3, <4>1, <4>2, SMTT(30) DEF q
        <5>2. \E k \in 1 .. Len(r) : r[k] = x
          BY <2>9, <5>1, SMTT(30)
        <5> QED BY <2>3, <2>11, <5>2, SMTT(30) DEF Of
      <4>3. CASE c # irq
        BY <2>11, <4>1, <4>3, SMTT(30) DEF Of
      <4> QED BY <4>2, <4>3
    <3> QED BY <2>4, <3>1, <3>2, <3>3, SMTT(30)
  <2>15. Used' = IF r = <<>> THEN Used \ {irq} ELSE Used
    <3>1. q # <<>>
      BY <2>5, SMTT(30)
    <3> QED BY <2>3, <2>11, <3>1 DEF Used, q
  <2>16. mem' = Owned(Blk!Linked', Used') \cup Blk!Pieces(b)
    <3> DEFINE L == Blk!Linked
               U == Used
    <3> HIDE DEF L, U
    <3>1. b \in L /\ mem = Owned(L, U) \ Blk!Maps(b)
      BY <2>2 DEF L, U
    <3>2. \A x \in L \ {b} : Parts(x) \cap (Blk!Pieces(b) \cup Blk!Maps(b)) = {}
      BY PartsApart, SMTT(30) DEF Parts
    <3>3. Blk!Pieces(b) \cap Blk!Maps(b) = {} /\ Parts(b) = Blk!Pieces(b) \cup Blk!Maps(b)
      BY PartsApart, SMTT(30) DEF Parts
    <3>4. \A c : Ctx(c) \notin Blk!Pieces(b) \cup Blk!Maps(b) /\ \A x : Ctx(c) \notin Parts(x)
      BY PartsApart, SMTT(30) DEF Parts
    <3>5. mem = Owned(L \ {b}, U) \cup Blk!Pieces(b)
      BY <3>1, <3>2, <3>3, <3>4, ZenonT(60) DEF Owned
    <3>6. \A c : c # irq => Ctx(c) # Ctx(irq)
      BY SMTT(30) DEF Ctx
    <3>7. Owned(L \ {b}, U) \ {Ctx(irq)} = Owned(L \ {b}, U \ {irq})
      BY <3>4, <3>6 DEF Owned
    <3> QED BY <2>10, <2>14, <2>15, <3>4, <3>5, <3>7, ZenonT(60) DEF L, U
  <2> QED BY <2>1, <2>13, <2>14, <2>16, SMTT(30) DEF BlkInv, MemInv, Blk!Idle
<1> QED BY <1>3, <1>4, <1>5, SMTT(30)

LEMMA BlkStep == ASSUME BlkInv, [Blk!Next]_(Blk!vars) PROVE BlkInv'
  BY CallsKeep, RemovalKeeps DEF Blk!Next

\* Whatever step of create_gpe_block fails, and at every step of uninstall_gpe_block, exactly what
\* the linked blocks and their contexts consist of is allocated between calls, and a block that an
\* interrupt can reach is allocated; for any devices, lines and registers.
THEOREM BlocksAreSafe == EventsSpec => []BlocksSafe
<1> DEFINE Inv == part = "blocks" => BlkInv
<1>1. Inv /\ [EventsNext]_<<part, xs>> => Inv'
  BY PartSteps, BlkStep, SMTT(30)
<1>2. ASSUME BlkInv PROVE Blk!NoLeak
  <2>1. \A x : x \in UNION ({Parts(b) : b \in Blk!Linked} \cup {{Ctx(c)} : c \in Used})
                <=> x \in Owned(Blk!Linked, Used)
    BY Zenon DEF Owned
  <2>2. Blk!Idle => mem = UNION ({Parts(b) : b \in Blk!Linked} \cup {{Ctx(c)} : c \in Used})
    BY <1>2, <2>1, Zenon DEF BlkInv, MemInv, Owned
  <2> QED BY <2>2 DEF Blk!NoLeak, Parts, Ctx, Used
<1>3. ASSUME BlkInv PROVE Blk!LinkedIsAllocated
  <2> SUFFICES ASSUME NEW b \in Blk!Linked PROVE Blk!Pieces(b) \subseteq mem
    BY DEF Blk!LinkedIsAllocated
  <2>1. Blk!Pieces(b) \subseteq Owned(Blk!Linked, Used) /\ \A c : Blk!Pieces(b) \cap Blk!Maps(c) = {}
    BY PartsApart DEF Owned, Parts
  <2> QED BY <1>3, <2>1 DEF BlkInv, BlkType, MemInv
<1>4. Inv => BlocksSafe
  BY <1>2, <1>3 DEF BlocksSafe, Blk!BlocksSafe
<1>5. EventsInit => Inv
  BY PartStarts, BlkInit
<1> QED BY <1>1, <1>4, <1>5, PTL DEF EventsSpec
=============================================================================
