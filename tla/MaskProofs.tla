----------------------------- MODULE MaskProofs -----------------------------
(***************************************************************************)
(* The masks of any general purpose events agree with their users, and keep  *)
(* the events disabled.                                                      *)
(***************************************************************************)
EXTENDS Sequences, AcpiMasks, TLAPS

\* The thread's call and the worker's item, by the names of Gpe
hw == s
reg == x2
ev == x3
T == x4["thread"]
W == x4["worker"]
USE DEF hw, reg, ev, T, W

IsSeq(q) == \E S : q \in Seq(S)
\* r is p, and then q.
Joined(p, q, r) ==
    /\ IsSeq(r) /\ Len(p) \in Nat /\ Len(q) \in Nat /\ Len(r) = Len(p) + Len(q)
    /\ \A i \in 1 .. Len(p) : i \in 1 .. Len(r) /\ r[i] = p[i]
    /\ \A i \in 1 .. Len(q) : Len(p) + i \in 1 .. Len(r) /\ r[Len(p) + i] = q[i]
    /\ \A i \in 1 .. Len(r) : i \in 1 .. Len(p) \/ \E j \in 1 .. Len(q) : i = Len(p) + j
\* r is h, and then q.
Starts(h, q, r) ==
    /\ IsSeq(q) /\ Len(q) \in Nat /\ Len(r) = Len(q) + 1 /\ r[1] = h /\ 1 \in 1 .. Len(r)
    /\ \A i \in 1 .. Len(q) : i + 1 \in 1 .. Len(r) /\ r[i + 1] = q[i]
    /\ \A i \in 1 .. Len(r) : i = 1 \/ \E j \in 1 .. Len(q) : i = j + 1

\* What calls consist of
CallOps == {"set", "users", "block", "ptr", "type", "trig", "clear", "poll", "mask", "unmask", "wait", "callback"}
TurnsOff(r, e) == r.op = "set" /\ r.e = e /\ r.state = "disabled"

\* After setting a mask, a call waits for the work that was scheduled before, and then disables the event.
Offs(q, e) == \E j \in 1 .. Len(q) : TurnsOff(q[j], e)
WaitsAndTurnsOff(q, e) ==
    \E k, j \in 1 .. Len(q) : k < j /\ q[k].op = "wait" /\ TurnsOff(q[j], e)
Call(q) ==
    /\ IsSeq(q)
    /\ \A i \in 1 .. Len(q) : q[i].op \in CallOps
    /\ \A i \in 1 .. Len(q) : q[i].op = "mask" =>
           \E k, j \in 1 .. Len(q) : i < k /\ k < j /\ q[k].op = "wait" /\ TurnsOff(q[j], q[i].e)

\* A call counts at most one user, and takes back none that was not counted.
Plain(q) == Call(q) /\ \A i \in 1 .. Len(q) : q[i].op # "users"
Counting(q, E) ==
    /\ Call(q)
    /\ \A i, j \in 1 .. Len(q) : q[i].op = "users" /\ q[j].op = "users" => i = j
    /\ \A i \in 1 .. Len(q) : q[i].op = "users" =>
           /\ q[i].e \in Gpes
           /\ q[i].v = 1 \/ (q[i].v = -1 /\ E[q[i].e].users > 0)

\* The thread is about to write the enable register, or not.
ThreadOK ==
    \/ Counting(T, ev)
    \/ /\ IsSeq(T) /\ T # <<>> /\ Counting(Tail(T), ev)
       /\ Head(T).op = "write"
       /\ Head(T).v = FALSE \/ (Head(T).v = TRUE /\ Head(T).e \notin reg.masked)

\* What the worker's item consists of
Restoring(q) ==
    /\ IsSeq(q)
    /\ \A i \in 1 .. Len(q) : q[i].op \in {"clear", "block"} \/ (q[i].op = "set" /\ q[i].state = "restored")
Enables(q) == q # <<>> /\ Head(q).op = "write" /\ Head(q).v = TRUE
WorkerOK == Restoring(W) \/ (IsSeq(W) /\ Enables(W) /\ Restoring(Tail(W)))

EvFields == {"users", "type", "ptr", "trig", "wake", "block", "saved", "devices"}
GpeType ==
    /\ DOMAIN hw = {"status", "enable"}
    /\ DOMAIN reg = {"runtime", "wake", "masked", "current"}
    /\ x4 = [a \in {"thread", "worker"} |-> x4[a]]
    /\ ev = [e \in Gpes |-> ev[e]]
    /\ \A e \in Gpes : DOMAIN ev[e] = EvFields /\ ev[e].users \in Nat

\* The call of the thread will disable this event.
WillTurnOff(e) ==
    \/ Offs(T, e)
    \/ T # <<>> /\ Head(T).op = "write" /\ Head(T).e = e /\ Head(T).v = FALSE

\* An event that is masked and enabled, or that the worker is about to enable, the thread disables.
GpeInv ==
    /\ GpeType /\ ThreadOK /\ WorkerOK
    /\ \A e \in Gpes : e \in reg.runtime <=> ev[e].users > 0
    /\ \A e \in reg.masked \cap hw.enable : WillTurnOff(e)
    /\ Enables(W) /\ Head(W).e \in reg.masked => WaitsAndTurnsOff(T, Head(W).e)

-----------------------------------------------------------------------------
(* Lists of steps *)

LEMMA CatSeq ==
    ASSUME NEW p, NEW q, IsSeq(p), IsSeq(q)
    PROVE  Joined(p, q, p \o q)
<1>1. PICK R : p \in Seq(R)
  BY DEF IsSeq
<1>2. PICK S : q \in Seq(S)
  BY DEF IsSeq
<1>3. p \in Seq(R \cup S) /\ q \in Seq(R \cup S)
  BY <1>1, <1>2
<1>4. p \o q \in Seq(R \cup S) /\ Len(p) \in Nat /\ Len(q) \in Nat /\ Len(p \o q) = Len(p) + Len(q)
  BY <1>3
<1>5. \A i \in 1 .. Len(p \o q) : i \in 1 .. Len(p) \/ i - Len(p) \in 1 .. Len(q)
  BY <1>4
<1>6. \A i \in 1 .. Len(p \o q) : i \in 1 .. Len(p) \/ \E j \in 1 .. Len(q) : i = Len(p) + j
  <2> TAKE i \in 1 .. Len(p \o q)
  <2>1. i = Len(p) + (i - Len(p))
    BY <1>4
  <2> QED BY <1>5, <2>1
<1>7. \A i \in 1 .. Len(p) : i \in 1 .. Len(p \o q) /\ (p \o q)[i] = p[i]
  BY <1>3, <1>4
<1>8. \A i \in 1 .. Len(q) : Len(p) + i \in 1 .. Len(p \o q) /\ (p \o q)[Len(p) + i] = q[i]
  BY <1>3, <1>4
<1> QED BY <1>4, <1>6, <1>7, <1>8 DEF IsSeq, Joined

\* Where a step of r comes from
LEMMA FromEither ==
    ASSUME NEW p, NEW q, NEW r, Joined(p, q, r), NEW i \in 1 .. Len(r)
    PROVE  (i \in 1 .. Len(p) /\ r[i] = p[i]) \/ \E j \in 1 .. Len(q) : i = Len(p) + j /\ r[i] = q[j]
<1>1. CASE i \in 1 .. Len(p)
  BY <1>1 DEF Joined
<1>2. CASE \E j \in 1 .. Len(q) : i = Len(p) + j
  BY <1>2 DEF Joined
<1> QED BY <1>1, <1>2 DEF Joined

LEMMA TailSeq ==
    ASSUME NEW q, IsSeq(q), q # <<>>
    PROVE  Starts(Head(q), Tail(q), q)
<1>1. PICK S : q \in Seq(S)
  BY DEF IsSeq
<1>2. Tail(q) \in Seq(S) /\ Len(q) \in Nat /\ Len(q) = Len(Tail(q)) + 1 /\ Len(Tail(q)) \in Nat
  BY <1>1
<1>3. Head(q) = q[1] /\ 1 \in 1 .. Len(q)
  BY <1>1, <1>2
<1>4. \A i \in 1 .. Len(Tail(q)) : i + 1 \in 1 .. Len(q) /\ Tail(q)[i] = q[i + 1]
  BY <1>1, <1>2
<1>5. ASSUME NEW i \in 1 .. Len(q), i # 1 PROVE \E j \in 1 .. Len(Tail(q)) : i = j + 1
  <2>1. i - 1 \in 1 .. Len(Tail(q)) /\ i = (i - 1) + 1
    BY <1>2, <1>5
  <2> QED BY <2>1
<1> QED BY <1>2, <1>3, <1>4, <1>5 DEF IsSeq, Starts

\* One step, or none
LEMMA OneStep ==
    ASSUME NEW r
    PROVE  /\ IsSeq(<<>>) /\ Len(<<>>) = 0
           /\ \A i \in 1 .. Len(<<>>) : FALSE
           /\ IsSeq(<<r>>) /\ Len(<<r>>) = 1 /\ <<r>>[1] = r
<1>1. <<>> \in Seq({r}) /\ <<r>> \in Seq({r}) /\ Len(<<>>) = 0
  OBVIOUS
<1>2. \A i \in 1 .. 0 : FALSE
  OBVIOUS
<1> QED BY <1>1, <1>2, Zenon DEF IsSeq

LEMMA CatOne ==
    ASSUME NEW p, IsSeq(p), NEW r
    PROVE  /\ IsSeq(p \o <<r>>) /\ Len(p) \in Nat /\ Len(p \o <<r>>) = Len(p) + 1
           /\ (p \o <<r>>)[Len(p) + 1] = r
           /\ \A i \in 1 .. Len(p) : (p \o <<r>>)[i] = p[i]
<1>1. IsSeq(<<r>>) /\ Len(<<r>>) = 1 /\ <<r>>[1] = r
  BY OneStep
<1> DEFINE q == <<r>>
<1> HIDE DEF q
<1>2. IsSeq(q) /\ Len(q) = 1 /\ q[1] = r
  BY <1>1 DEF q
<1> DEFINE c == p \o q
<1>3. Joined(p, q, c)
  BY <1>2, CatSeq
<1> HIDE DEF c
<1>4. /\ IsSeq(c) /\ Len(p) \in Nat /\ Len(c) = Len(p) + 1 /\ c[Len(p) + 1] = r
      /\ \A i \in 1 .. Len(p) : c[i] = p[i]
  BY <1>2, <1>3 DEF Joined
<1> QED BY <1>4 DEF q, c

LEMMA CatCall ==
    ASSUME NEW p, NEW q, Call(p), Call(q)
    PROVE  Call(p \o q)
<1> DEFINE r == p \o q
<1>1. Joined(p, q, r)
  BY CatSeq DEF Call
<1> HIDE DEF r
<1>2. \A i \in 1 .. Len(r) : r[i].op \in CallOps
  BY <1>1, ZenonT(60) DEF Call, Joined
<1>3. ASSUME NEW i \in 1 .. Len(r), r[i].op = "mask"
      PROVE  \E k, j \in 1 .. Len(r) : i < k /\ k < j /\ r[k].op = "wait" /\ TurnsOff(r[j], r[i].e)
  <2>1. CASE i \in 1 .. Len(p)
    <3>1. PICK k, j \in 1 .. Len(p) : i < k /\ k < j /\ p[k].op = "wait" /\ TurnsOff(p[j], p[i].e)
      BY <1>1, <1>3, <2>1 DEF Call, Joined
    <3> QED BY <1>1, <2>1, <3>1 DEF Joined
  <2>2. CASE \E m \in 1 .. Len(q) : i = Len(p) + m
    <3>1. PICK m \in 1 .. Len(q) : i = Len(p) + m
      BY <2>2
    <3>2. PICK k, j \in 1 .. Len(q) : m < k /\ k < j /\ q[k].op = "wait" /\ TurnsOff(q[j], q[m].e)
      BY <1>1, <1>3, <3>1, Zenon DEF Call, Joined
    <3>3. Len(p) + k \in 1 .. Len(r) /\ Len(p) + j \in 1 .. Len(r) /\ i < Len(p) + k /\ Len(p) + k < Len(p) + j
      <4>1. Len(p) \in Nat /\ Len(q) \in Nat /\ Len(r) = Len(p) + Len(q)
        BY <1>1, Zenon DEF Joined
      <4> QED BY ONLY <3>1, <3>2, <4>1, SMTT(30)
    <3> QED BY <1>1, <3>1, <3>2, <3>3, ZenonT(60) DEF Joined
  <2> QED BY <1>1, <2>1, <2>2 DEF Joined
<1>4. Call(r)
  BY <1>1, <1>2, <1>3 DEF Call, Joined
<1> QED BY <1>4 DEF r

LEMMA CatPlain ==
    ASSUME NEW p, NEW q, Plain(p), Plain(q)
    PROVE  Plain(p \o q)
<1> DEFINE r == p \o q
<1>1. Call(r)
  BY CatCall DEF Plain
<1>2. Joined(p, q, r)
  BY CatSeq DEF Plain, Call
<1> HIDE DEF r
<1>3. ASSUME NEW i \in 1 .. Len(r) PROVE r[i].op # "users"
  <2>1. (i \in 1 .. Len(p) /\ r[i] = p[i]) \/ \E j \in 1 .. Len(q) : i = Len(p) + j /\ r[i] = q[j]
    BY <1>2, FromEither
  <2> QED BY <2>1 DEF Plain
<1>4. Plain(r)
  BY <1>1, <1>3 DEF Plain
<1> QED BY <1>4 DEF r

LEMMA CatCounting ==
    ASSUME NEW E, NEW p, NEW q, (Plain(p) /\ Counting(q, E)) \/ (Counting(p, E) /\ Plain(q))
    PROVE  Counting(p \o q, E)
<1> DEFINE r == p \o q
<1>1. Call(r)
  BY CatCall DEF Plain, Counting
<1>2. Joined(p, q, r)
  <2>1. IsSeq(p) /\ IsSeq(q)
    BY DEF Plain, Counting, Call
  <2> QED BY <2>1, CatSeq
<1> HIDE DEF r
<1>5. \A i \in 1 .. Len(r) : \/ i \in 1 .. Len(p) /\ r[i] = p[i]
                             \/ \E j \in 1 .. Len(q) : i = Len(p) + j /\ r[i] = q[j]
  BY <1>2, FromEither
<1>3. CASE Plain(p) /\ Counting(q, E)
  <2>1. \A i \in 1 .. Len(r) : r[i].op = "users" => \E j \in 1 .. Len(q) : i = Len(p) + j /\ r[i] = q[j]
    BY <1>3, <1>5, Zenon DEF Plain
  <2>2. ASSUME NEW i \in 1 .. Len(r), r[i].op = "users"
        PROVE  r[i].e \in Gpes /\ (r[i].v = 1 \/ (r[i].v = -1 /\ E[r[i].e].users > 0))
    <3>1. PICK j \in 1 .. Len(q) : r[i] = q[j] /\ q[j].op = "users"
      BY <2>1, <2>2, Zenon
    <3> QED BY <1>3, <3>1, Zenon DEF Counting
  <2>3. ASSUME NEW i \in 1 .. Len(r), NEW k \in 1 .. Len(r), r[i].op = "users", r[k].op = "users"
        PROVE  i = k
    BY <1>3, <2>1, <2>3, Zenon DEF Counting
  <2> QED BY <1>1, <2>2, <2>3, SMTT(30) DEF Counting, r
<1>4. CASE Counting(p, E) /\ Plain(q)
  <2>1. ASSUME NEW i \in 1 .. Len(r), r[i].op = "users" PROVE i \in 1 .. Len(p) /\ r[i] = p[i]
    BY <1>4, <1>5, <2>1, Zenon DEF Plain
  <2>2. Counting(r, E)
    BY <1>1, <1>4, <2>1, SMTT(30) DEF Counting
  <2> QED BY <2>2 DEF r
<1> QED BY <1>3, <1>4

LEMMA PlainCounts == ASSUME NEW q, NEW E, Plain(q) PROVE Counting(q, E)
  BY DEF Plain, Counting

\* The steps that calls are made of
LEMMA SingleSteps ==
    /\ Plain(<<>>)
    /\ \A e, state, undo : Plain(Masks!SetState(e, state, undo))
    /\ \A e, op : op \in CallOps \ {"mask", "users"} => Plain(Masks!Do(op, e))
    /\ \A e, op, v : op \in CallOps \ {"mask", "users"} => Plain(Masks!Put(op, e, v))
<1>1. ASSUME NEW r, r.op \in CallOps \ {"mask", "users"} PROVE Plain(<<r>>)
  <2>1. IsSeq(<<r>>) /\ \A i \in 1 .. Len(<<r>>) : <<r>>[i] = r
    BY OneStep
  <2> DEFINE q == <<r>>
  <2> HIDE DEF q
  <2>2. IsSeq(q) /\ \A i \in 1 .. Len(q) : q[i] = r
    BY <2>1 DEF q
  <2>3. Plain(q)
    BY <1>1, <2>2 DEF Plain, Call
  <2> QED BY <2>3 DEF q
<1>2. Plain(<<>>)
  <2> DEFINE q == <<>>
  <2>1. IsSeq(q) /\ \A i \in 1 .. Len(q) : FALSE
    BY OneStep, Zenon
  <2> HIDE DEF q
  <2>2. Plain(q)
    BY <2>1 DEF Plain, Call
  <2> QED BY <2>2 DEF q
<1>3. ASSUME NEW e, NEW state, NEW undo PROVE Plain(Masks!SetState(e, state, undo))
  BY <1>1 DEF Masks!SetState, CallOps
<1>4. ASSUME NEW e, NEW op, op \in CallOps \ {"mask", "users"} PROVE Plain(Masks!Do(op, e))
  BY <1>1, <1>4 DEF Masks!Do
<1>5. ASSUME NEW e, NEW op, NEW v, op \in CallOps \ {"mask", "users"} PROVE Plain(Masks!Put(op, e, v))
  BY <1>1, <1>5 DEF Masks!Put
<1> QED BY <1>2, <1>3, <1>4, <1>5

LEMMA MaskingPlain == ASSUME NEW e PROVE Plain(Masks!MaskSteps(e))
<1> DEFINE m == [op |-> "mask", e |-> e]
           w == [op |-> "wait", e |-> e]
           o == [op |-> "set", e |-> e, state |-> "disabled", undo |-> 0]
           p == <<m>> \o <<w>>
           r == p \o <<o>>
           q == r \o <<w>>
<1>1. m.op = "mask" /\ m.e = e /\ w.op = "wait" /\ TurnsOff(o, e) /\ o.op = "set"
  BY DEF TurnsOff
<1> HIDE DEF m, w, o
<1>2. IsSeq(p) /\ Len(p) = 2 /\ p[1] = m /\ p[2] = w
  <2>1. IsSeq(<<m>>) /\ Len(<<m>>) = 1 /\ <<m>>[1] = m
    BY OneStep
  <2> DEFINE b == <<m>>
  <2> HIDE DEF b
  <2>2. IsSeq(b) /\ Len(b) = 1 /\ b[1] = m
    BY <2>1 DEF b
  <2> DEFINE c == b \o <<w>>
  <2>3. IsSeq(c) /\ Len(c) = Len(b) + 1 /\ c[Len(b) + 1] = w /\ \A i \in 1 .. Len(b) : c[i] = b[i]
    BY ONLY <2>2, CatOne, ZenonT(60)
  <2> HIDE DEF c
  <2>4. IsSeq(c) /\ Len(c) = 2 /\ c[1] = m /\ c[2] = w
    BY <2>2, <2>3
  <2> QED BY <2>4 DEF b, c
<1> HIDE DEF p
<1>3. IsSeq(r) /\ Len(r) = Len(p) + 1 /\ r[Len(p) + 1] = o /\ \A i \in 1 .. Len(p) : r[i] = p[i]
  <2>1. IsSeq(p)
    BY <1>2
  <2> QED BY <2>1, CatOne
<1> HIDE DEF r
<1>4. IsSeq(q) /\ Len(q) = Len(r) + 1 /\ q[Len(r) + 1] = w /\ \A i \in 1 .. Len(r) : q[i] = r[i]
  <2>1. IsSeq(r)
    BY <1>3
  <2> QED BY <2>1, CatOne
<1> HIDE DEF q
<1>6. Len(q) = 4 /\ q[1] = m /\ q[2] = w /\ q[3] = o /\ q[4] = w
  BY <1>2, <1>3, <1>4
<1>5. Plain(q)
  <2>1. \A i \in 1 .. Len(q) : q[i].op \in CallOps /\ q[i].op # "users"
    BY <1>1, <1>6 DEF CallOps
  <2>2. \A i \in 1 .. Len(q) : q[i].op = "mask" => i = 1
    BY <1>1, <1>6
  <2>3. \E k, j \in 1 .. Len(q) : 1 < k /\ k < j /\ q[k].op = "wait" /\ TurnsOff(q[j], q[1].e)
    BY <1>1, <1>6
  <2> QED BY <1>4, <2>1, <2>2, <2>3 DEF Plain, Call
<1> QED BY <1>5, SingleSteps DEF Masks!MaskSteps, Masks!Do, Masks!SetState, m, w, o, p, r, q

LEMMA MaybeOK ==
    ASSUME NEW b, NEW q, NEW E
    PROVE  /\ Plain(q) => Plain(Masks!Maybe(b, q))
           /\ Counting(q, E) => Counting(Masks!Maybe(b, q), E)
  BY SingleSteps, PlainCounts DEF Masks!Maybe

LEMMA UsersCount ==
    ASSUME GpeType, NEW e \in Gpes
    PROVE  Counting(Masks!gpe_add_user(e), ev) /\ Counting(Masks!gpe_remove_user(e), ev)
<1>1. ASSUME NEW v, v = 1 \/ (v = -1 /\ ev[e].users > 0) PROVE Counting(Masks!Put("users", e, v), ev)
  <2> DEFINE r == [op |-> "users", e |-> e, v |-> v]
             q == <<r>>
  <2>1. IsSeq(q) /\ \A i \in 1 .. Len(q) : i = 1 /\ q[i] = r
    BY OneStep
  <2>2. r.op = "users" /\ r.e = e /\ r.v = v
    BY SMTT(30)
  <2> HIDE DEF q, r
  <2>3. Counting(q, ev)
    BY <1>1, <2>1, <2>2 DEF Counting, Call, CallOps
  <2> QED BY <2>3 DEF Masks!Put, q, r
<1>2. Counting(<<>>, ev)
  BY SingleSteps, PlainCounts
<1>3. \A b, state, undo : Plain(Masks!Maybe(b, Masks!SetState(e, state, undo)))
  BY SingleSteps, MaybeOK, SMTT(30)
<1>4. Counting(Masks!gpe_add_user(e), ev)
  BY <1>1, <1>2, <1>3, CatCounting, SMTT(30) DEF Masks!gpe_add_user
<1>5. Counting(Masks!gpe_remove_user(e), ev)
  <2>1. CASE ev[e].users = 0
    BY <1>2, <2>1, SMTT(30) DEF Masks!gpe_remove_user
  <2>2. CASE ev[e].users # 0
    <3>1. ev[e].users > 0
      BY <2>2 DEF GpeType
    <3> QED BY <1>1, <1>3, <2>2, <3>1, CatCounting, SMTT(30) DEF Masks!gpe_remove_user
  <2> QED BY <2>1, <2>2
<1> QED BY <1>4, <1>5

LEMMA MaskedCounts ==
    ASSUME NEW e, NEW q, NEW E
    PROVE  /\ Plain(q) => Plain(Masks!Masked(e, q))
           /\ Counting(q, E) => Counting(Masks!Masked(e, q), E)
<1>1. Plain(Masks!MaskSteps(e)) /\ Plain(Masks!Do("unmask", e))
  BY MaskingPlain, SingleSteps DEF CallOps
<1>2. ASSUME Plain(q) PROVE Plain(Masks!MaskSteps(e) \o q \o Masks!Do("unmask", e))
  BY <1>1, <1>2, CatPlain
<1>3. ASSUME Counting(q, E) PROVE Counting(Masks!MaskSteps(e) \o q \o Masks!Do("unmask", e), E)
  BY <1>1, <1>3, CatCounting, SMTT(30)
<1> QED BY <1>2, <1>3 DEF Masks!Masked

-----------------------------------------------------------------------------
(* A step is done *)

LEMMA TailCounting ==
    ASSUME NEW q, NEW E, Counting(q, E), q # <<>>
    PROVE  /\ Counting(Tail(q), E) /\ Head(q).op \in CallOps
           /\ Head(q).op = "mask" => WaitsAndTurnsOff(Tail(q), Head(q).e)
           /\ Head(q).op = "users" =>
                  /\ Plain(Tail(q)) /\ Head(q).e \in Gpes
                  /\ Head(q).v = 1 \/ (Head(q).v = -1 /\ E[Head(q).e].users > 0)
<1> DEFINE h == Head(q)
           t == Tail(q)
<1>1. Starts(h, t, q)
  BY TailSeq, SMTT(30) DEF Counting, Call
<1> HIDE DEF h, t
<1>2. h.op \in CallOps /\ \A i \in 1 .. Len(t) : t[i].op \in CallOps
  BY <1>1, SMTT(30) DEF Starts, Counting, Call
<1>3. ASSUME NEW i \in 1 .. Len(t), t[i].op = "mask"
      PROVE  \E k, j \in 1 .. Len(t) : i < k /\ k < j /\ t[k].op = "wait" /\ TurnsOff(t[j], t[i].e)
  <2>1. i + 1 \in 1 .. Len(q) /\ q[i + 1] = t[i]
    BY <1>1 DEF Starts
  <2>2. PICK k, j \in 1 .. Len(q) : i + 1 < k /\ k < j /\ q[k].op = "wait" /\ TurnsOff(q[j], t[i].e)
    BY <1>3, <2>1, SMTT(30) DEF Counting, Call
  <2>3. PICK l \in 1 .. Len(t) : k = l + 1
    BY <1>1, <2>2, SMTT(30) DEF Starts
  <2>4. PICK m \in 1 .. Len(t) : j = m + 1
    BY <1>1, <2>2, SMTT(30) DEF Starts
  <2>5. i < l /\ l < m /\ t[l] = q[k] /\ t[m] = q[j]
    BY <1>1, <2>2, <2>3, <2>4, SMTT(30) DEF Starts
  <2> QED BY <2>2, <2>5, Zenon
<1>4. ASSUME h.op = "mask" PROVE WaitsAndTurnsOff(t, h.e)
  <2>2. PICK k, j \in 1 .. Len(q) : 1 < k /\ k < j /\ q[k].op = "wait" /\ TurnsOff(q[j], h.e)
    BY <1>1, <1>4, SMTT(30) DEF Starts, Counting, Call
  <2>3. PICK l \in 1 .. Len(t) : k = l + 1
    BY <1>1, <2>2, SMTT(30) DEF Starts
  <2>4. PICK m \in 1 .. Len(t) : j = m + 1
    BY <1>1, <2>2, SMTT(30) DEF Starts
  <2>5. l < m /\ t[l] = q[k] /\ t[m] = q[j]
    BY <1>1, <2>2, <2>3, <2>4, SMTT(30) DEF Starts
  <2> QED BY <2>2, <2>5 DEF WaitsAndTurnsOff
<1>5. Call(t)
  BY <1>1, <1>2, <1>3 DEF Call, Starts
<1>6. \A i, j \in 1 .. Len(t) : t[i].op = "users" /\ t[j].op = "users" => i = j
  <2> SUFFICES ASSUME NEW i \in 1 .. Len(t), NEW j \in 1 .. Len(t), t[i].op = "users", t[j].op = "users"
               PROVE  i = j
    OBVIOUS
  <2>1. i + 1 \in 1 .. Len(q) /\ j + 1 \in 1 .. Len(q) /\ q[i + 1] = t[i] /\ q[j + 1] = t[j]
    BY <1>1, SMTT(30) DEF Starts
  <2>2. i + 1 = j + 1
    BY <2>1, SMTT(30) DEF Counting
  <2> QED BY <2>2
<1>7. \A i \in 1 .. Len(t) : t[i].op = "users" =>
          t[i].e \in Gpes /\ (t[i].v = 1 \/ (t[i].v = -1 /\ E[t[i].e].users > 0))
  BY <1>1, SMTT(30) DEF Starts, Counting
<1>8. ASSUME h.op = "users"
      PROVE  Plain(t) /\ h.e \in Gpes /\ (h.v = 1 \/ (h.v = -1 /\ E[h.e].users > 0))
  <2>1. ASSUME NEW i \in 1 .. Len(t), t[i].op = "users" PROVE FALSE
    <3>1. i + 1 \in 1 .. Len(q) /\ q[i + 1] = t[i] /\ 1 \in 1 .. Len(q) /\ q[1] = h
      BY <1>1, SMTT(30) DEF Starts
    <3>2. i + 1 = 1
      BY <1>8, <2>1, <3>1, SMTT(30) DEF Counting
    <3> QED BY <3>2
  <2> QED BY <1>1, <1>5, <1>8, <2>1, SMTT(30) DEF Plain, Starts, Counting
<1> QED BY <1>2, <1>4, <1>5, <1>6, <1>7, <1>8, SMTT(30) DEF Counting, h, t

\* The users that the rest of a call counts on stay counted.
LEMMA CountingKept ==
    ASSUME NEW q, NEW E, NEW F, Counting(q, E), \A e \in Gpes : F[e].users = E[e].users
    PROVE  Counting(q, F)
  BY DEF Counting

\* What was to be disabled still is, unless that was the step.
LEMMA OffLater ==
    ASSUME NEW p, NEW q, NEW e, IsSeq(p), IsSeq(q), q # <<>>
    PROVE  /\ Offs(q, e) => TurnsOff(Head(q), e) \/ Offs(p \o Tail(q), e)
           /\ WaitsAndTurnsOff(q, e) => Offs(q, e)
           /\ WaitsAndTurnsOff(q, e) /\ Head(q).op # "wait" => WaitsAndTurnsOff(p \o Tail(q), e)
           /\ WaitsAndTurnsOff(Tail(q), e) => WaitsAndTurnsOff(p \o Tail(q), e)
<1> DEFINE h == Head(q)
           t == Tail(q)
           r == p \o t
<1>1. Starts(h, t, q)
  BY TailSeq
<1>2. Joined(p, t, r)
  <2>1. IsSeq(t)
    BY <1>1 DEF Starts
  <2> QED BY <2>1, CatSeq
<1> HIDE DEF h, t, r
<1>3. ASSUME Offs(q, e) PROVE TurnsOff(h, e) \/ Offs(r, e)
  <2>1. PICK j \in 1 .. Len(q) : TurnsOff(q[j], e)
    BY <1>3 DEF Offs
  <2>2. CASE j = 1
    BY <1>1, <2>1, <2>2, SMTT(30) DEF Starts
  <2>3. CASE \E m \in 1 .. Len(t) : j = m + 1
    <3>1. PICK m \in 1 .. Len(t) : j = m + 1
      BY <2>3
    <3>2. q[j] = t[m]
      BY <1>1, <3>1 DEF Starts
    <3>3. Len(p) + m \in 1 .. Len(r) /\ r[Len(p) + m] = t[m]
      BY <1>2, <3>1, SMTT(30) DEF Joined
    <3> QED BY <2>1, <3>2, <3>3 DEF Offs
  <2> QED BY <1>1, <2>1, <2>2, <2>3 DEF Starts
<1>4. WaitsAndTurnsOff(q, e) => Offs(q, e)
  BY DEF WaitsAndTurnsOff, Offs
<1>5. ASSUME WaitsAndTurnsOff(q, e), h.op # "wait" PROVE WaitsAndTurnsOff(t, e)
  <2>1. PICK k, j \in 1 .. Len(q) : k < j /\ q[k].op = "wait" /\ TurnsOff(q[j], e)
    BY <1>5, SMTT(30) DEF WaitsAndTurnsOff
  <2>2. k # 1 /\ j # 1
    BY <1>1, <1>5, <2>1, SMTT(30) DEF Starts
  <2>3. PICK l \in 1 .. Len(t) : k = l + 1
    BY <1>1, <2>1, <2>2, SMTT(30) DEF Starts
  <2>4. PICK m \in 1 .. Len(t) : j = m + 1
    BY <1>1, <2>1, <2>2, SMTT(30) DEF Starts
  <2>5. l < m /\ t[l] = q[k] /\ t[m] = q[j]
    BY <1>1, <2>1, <2>3, <2>4, SMTT(30) DEF Starts
  <2> QED BY <2>1, <2>5 DEF WaitsAndTurnsOff
<1>6. ASSUME WaitsAndTurnsOff(t, e) PROVE WaitsAndTurnsOff(r, e)
  <2>1. PICK k, j \in 1 .. Len(t) : k < j /\ t[k].op = "wait" /\ TurnsOff(t[j], e)
    BY <1>6 DEF WaitsAndTurnsOff
  <2>2. /\ Len(p) + k \in 1 .. Len(r) /\ r[Len(p) + k] = t[k]
        /\ Len(p) + j \in 1 .. Len(r) /\ r[Len(p) + j] = t[j]
    BY <1>2, <2>1 DEF Joined
  <2>3. Len(p) + k < Len(p) + j
    BY <1>2, <2>1 DEF Joined
  <2> QED BY <2>1, <2>2, <2>3, SMTT(30) DEF WaitsAndTurnsOff
<1> QED BY <1>3, <1>4, <1>5, <1>6, SMTT(30) DEF h, t, r

\* Nothing is left to do.
LEMMA NothingOff ==
    ASSUME NEW e
    PROVE  ~Offs(<<>>, e) /\ ~WaitsAndTurnsOff(<<>>, e)
  BY OneStep DEF Offs, WaitsAndTurnsOff

-----------------------------------------------------------------------------
(* Steps of the thread *)

LEMMA ThreadThen ==
    ASSUME GpeType, NEW p, Masks!Then("thread", p)
    PROVE  T' = p \o Tail(T) /\ W' = W /\ x4' = [a \in {"thread", "worker"} |-> x4'[a]]
<1>1. x4 = [a \in {"thread", "worker"} |-> x4[a]] /\ x4' = [x4 EXCEPT !["thread"] = p \o Tail(@)]
  BY DEF GpeType, Masks!Then
<1> QED BY <1>1, Zenon

LEMMA WorkerThen ==
    ASSUME GpeType, NEW p, Masks!Then("worker", p)
    PROVE  W' = p \o Tail(W) /\ T' = T /\ x4' = [a \in {"thread", "worker"} |-> x4'[a]]
<1>1. x4 = [a \in {"thread", "worker"} |-> x4[a]] /\ x4' = [x4 EXCEPT !["worker"] = p \o Tail(@)]
  BY DEF GpeType, Masks!Then
<1> QED BY <1>1, Zenon

\* A step that is neither a write nor turns an event off, and that masks at most
\* an event that the call turns off later.
LEMMA ThreadMoves ==
    ASSUME GpeInv, T # <<>>, Head(T).op # "write", \A e : ~TurnsOff(Head(T), e),
           Head(T).op = "wait" => W = <<>>,
           NEW p, IsSeq(p), T' = p \o Tail(T), W' = W, GpeType', ThreadOK',
           \A e \in Gpes : e \in reg'.runtime <=> ev'[e].users > 0,
           \A e \in reg'.masked : e \in reg.masked \/ WaitsAndTurnsOff(Tail(T), e),
           hw'.enable \subseteq hw.enable
    PROVE  GpeInv'
<1>1. IsSeq(T)
  BY Zenon DEF GpeInv, ThreadOK, Counting, Call
<1>2. WorkerOK'
  BY ZenonT(60) DEF GpeInv, WorkerOK, Restoring, Enables
<1>3. ASSUME NEW e \in reg'.masked \cap hw'.enable PROVE WillTurnOff(e)'
  <2>1. CASE e \in reg.masked
    <3>1. Offs(T, e)
      BY <1>3, <2>1, SMTT(30) DEF GpeInv, WillTurnOff
    <3>2. Offs(p \o Tail(T), e)
      BY <1>1, <3>1, OffLater, SMTT(30)
    <3> QED BY <3>2, SMTT(30) DEF WillTurnOff, Offs
  <2>2. CASE WaitsAndTurnsOff(Tail(T), e)
    <3>1. WaitsAndTurnsOff(p \o Tail(T), e)
      BY <1>1, <2>2, OffLater, SMTT(30)
    <3>2. Offs(p \o Tail(T), e)
      BY <3>1, SMTT(30) DEF WaitsAndTurnsOff, Offs
    <3> QED BY <3>2 DEF WillTurnOff, Offs
  <2> QED BY <1>3, <2>1, <2>2
<1>4. ASSUME Enables(W), Head(W).e \in reg'.masked PROVE WaitsAndTurnsOff(p \o Tail(T), Head(W).e)
  <2>1. CASE Head(W).e \in reg.masked
    <3>1. WaitsAndTurnsOff(T, Head(W).e) /\ Head(T).op # "wait"
      BY <1>4, <2>1, SMTT(30) DEF GpeInv, Enables
    <3> QED BY <1>1, <3>1, OffLater, SMTT(30)
  <2>2. CASE WaitsAndTurnsOff(Tail(T), Head(W).e)
    BY <1>1, <2>2, OffLater, SMTT(30)
  <2> QED BY <1>4, <2>1, <2>2, SMTT(30)
<1>5. (Enables(W) /\ Head(W).e \in reg.masked => WaitsAndTurnsOff(T, Head(W).e))'
  BY <1>4, Zenon DEF Enables, WaitsAndTurnsOff
<1> QED BY <1>2, <1>3, <1>5 DEF GpeInv

\* A call goes on that does not write now.
LEMMA Goes ==
    ASSUME GpeInv, T # <<>>, Head(T).op # "write"
    PROVE  Counting(T, ev) /\ Counting(Tail(T), ev) /\ Head(T).op \in CallOps
  BY TailCounting, Zenon DEF GpeInv, ThreadOK

\* What a plain step leaves: the rest of the call after more steps
LEMMA GoesOn ==
    ASSUME GpeInv, T # <<>>, Head(T).op # "write", NEW p, Plain(p), T' = p \o Tail(T),
           \A e \in Gpes : ev'[e].users = ev[e].users
    PROVE  ThreadOK' /\ IsSeq(p)
<1>1. Counting(p \o Tail(T), ev)
  BY Goes, CatCounting, SMTT(30)
<1>2. Counting(p \o Tail(T), ev')
  BY <1>1, CountingKept, SMTT(30)
<1>3. Counting(T', ev')
  BY <1>2, SMTT(30)
<1> QED BY <1>3, Zenon DEF ThreadOK, Plain, Call, Counting, CallOps, TurnsOff

RegFields == {"runtime", "wake", "masked", "current"}

LEMMA UsersSet ==
    ASSUME GpeType, NEW e \in Gpes, NEW n \in Nat, x3' = [x3 EXCEPT ![e].users = n]
    PROVE  /\ ev' = [g \in Gpes |-> ev'[g]]
           /\ \A g \in Gpes : DOMAIN ev'[g] = EvFields /\ ev'[g].users \in Nat
           /\ ev'[e].users = n /\ \A g \in Gpes \ {e} : ev'[g].users = ev[g].users
<1>1. DOMAIN x3 = Gpes /\ \A g \in Gpes : DOMAIN x3[g] = EvFields /\ x3[g].users \in Nat
  BY DEF GpeType
<1>2. x3' = [g \in Gpes |-> IF g = e THEN [x3[e] EXCEPT !.users = n] ELSE x3[g]]
  BY <1>1, Zenon
<1>3. ASSUME NEW g \in Gpes PROVE DOMAIN x3'[g] = EvFields /\ x3'[g].users = IF g = e THEN n ELSE x3[g].users
  BY <1>1, <1>2 DEF EvFields
<1> QED BY <1>1, <1>2, <1>3, Zenon

LEMMA CountUserKeeps ==
    ASSUME GpeInv, Masks!CountUser("thread"), s' = s
    PROVE  GpeInv'
<1> DEFINE e == Head(T).e
           v == Head(T).v
           n == ev[e].users + v
<1>1. T # <<>> /\ Head(T).op = "users"
  BY DEF Masks!CountUser, Masks!At
<1>2. Counting(T, ev)
  BY <1>1, Goes
<1>3. Plain(Tail(T)) /\ e \in Gpes /\ (v = 1 \/ (v = -1 /\ ev[e].users > 0))
  BY <1>1, <1>2, TailCounting, Zenon
<1>4. x3' = [x3 EXCEPT ![e].users = n] /\ Masks!Then("thread", <<>>)
      /\ x2' = IF n = 0 \/ (n = 1 /\ v = 1) THEN Masks!Toggled(x2, e, n) ELSE x2
  BY SMTT(30) DEF Masks!CountUser, Masks!Cur
<1>5. T' = <<>> \o Tail(T) /\ W' = W /\ x4' = [a \in {"thread", "worker"} |-> x4'[a]]
  BY <1>4, ThreadThen, Zenon DEF GpeInv
<1>6. GpeType /\ DOMAIN reg = RegFields /\ ev[e].users \in Nat /\ n = ev[e].users + v
  BY <1>3, Zenon DEF GpeInv, GpeType, RegFields
<1> HIDE DEF e, v, n
<1>7. n \in Nat /\ (n # 0 /\ ~(n = 1 /\ v = 1) => ev[e].users > 0)
  BY ONLY <1>3, <1>6, SMTT(30)
<1>8. /\ ev' = [g \in Gpes |-> ev'[g]]
      /\ \A g \in Gpes : DOMAIN ev'[g] = EvFields /\ ev'[g].users \in Nat
      /\ ev'[e].users = n /\ \A g \in Gpes \ {e} : ev'[g].users = ev[g].users
  BY <1>3, <1>4, <1>6, <1>7, UsersSet, Zenon
<1>9. /\ DOMAIN reg' = RegFields /\ reg'.masked = reg.masked
      /\ reg'.runtime = IF n = 0 THEN reg.runtime \ {e}
                        ELSE IF n = 1 /\ v = 1 THEN reg.runtime \cup {e} ELSE reg.runtime
  <2>1. CASE n = 0 \/ (n = 1 /\ v = 1)
    <3>1. x2' = Masks!Toggled(x2, e, n)
      BY ONLY <1>4, <2>1, Zenon
    <3> DEFINE t == Masks!Toggled(x2, e, n)
    <3>2. /\ DOMAIN t = RegFields /\ t.masked = x2.masked
          /\ t.runtime = IF n = 0 THEN x2.runtime \ {e} ELSE x2.runtime \cup {e}
      BY ONLY <1>6, SMTT(30) DEF reg, Masks!Toggled, RegFields
    <3> HIDE DEF t
    <3>3. x2' = t
      BY ONLY <3>1 DEF t
    <3> QED BY ONLY <2>1, <3>2, <3>3, Zenon DEF reg
  <2>2. CASE ~(n = 0 \/ (n = 1 /\ v = 1))
    <3>1. x2' = x2
      BY ONLY <1>4, <2>2, Zenon
    <3> QED BY ONLY <1>6, <2>2, <3>1, Zenon
  <2> QED BY ONLY <2>1, <2>2, Zenon
<1>10. GpeType'
  BY <1>5, <1>6, <1>8, <1>9, Zenon DEF GpeType, RegFields
<1>11. \A f \in Gpes : f \in reg'.runtime <=> ev'[f].users > 0
  <2>1. \A f \in Gpes : f \in reg.runtime <=> ev[f].users > 0
    BY DEF GpeInv
  <2>2. e \in reg'.runtime <=> ev'[e].users > 0
    BY ONLY <1>3, <1>7, <1>8, <1>9, <2>1, SMTT(30)
  <2>3. ASSUME NEW f \in Gpes \ {e} PROVE f \in reg'.runtime <=> ev'[f].users > 0
    BY ONLY <1>8, <1>9, <2>1, <2>3, SMTT(30)
  <2> QED BY <2>2, <2>3, Zenon
<1>12. ThreadOK' /\ IsSeq(<<>>)
  <2>1. Plain(<<>> \o Tail(T)) /\ IsSeq(<<>>)
    BY <1>3, SingleSteps, CatPlain, Zenon DEF Plain, Call
  <2>2. Counting(T', ev')
    BY <1>5, <2>1, PlainCounts
  <2> QED BY <2>1, <2>2, Zenon DEF ThreadOK, Counting, Call, Plain, CallOps, TurnsOff
<1> QED BY <1>1, <1>5, <1>9, <1>10, <1>11, <1>12, ThreadMoves, Zenon DEF TurnsOff

\* Steps that leave the users, the masks and the enable register alone
LEMMA QuietThread ==
    ASSUME GpeInv, T # <<>>, Head(T).op # "write", \A e : ~TurnsOff(Head(T), e),
           Head(T).op = "wait" => W = <<>>,
           NEW p, Plain(p), Masks!Then("thread", p), GpeType',
           \A e \in Gpes : ev'[e].users = ev[e].users,
           reg'.runtime = reg.runtime,
           \A e \in reg'.masked : e \in reg.masked \/ WaitsAndTurnsOff(Tail(T), e),
           hw'.enable \subseteq hw.enable
    PROVE  GpeInv'
<1>1. T' = p \o Tail(T) /\ W' = W
  BY ThreadThen DEF GpeInv
<1>2. ThreadOK' /\ IsSeq(p)
  BY <1>1, GoesOn, Zenon
<1>3. \A e \in Gpes : e \in reg'.runtime <=> ev'[e].users > 0
  BY DEF GpeInv
<1> QED BY <1>1, <1>2, <1>3, ThreadMoves, Zenon

\* The types after a step of the thread that leaves the event structures alone
LEMMA TypeKept ==
    ASSUME GpeType, x3' = x3, x4' = [a \in {"thread", "worker"} |-> x4'[a]],
           DOMAIN hw' = DOMAIN hw, DOMAIN reg' = DOMAIN reg
    PROVE  GpeType' /\ \A e \in Gpes : ev'[e].users = ev[e].users
  BY DEF GpeType

LEMMA CheckStateKeeps ==
    ASSUME GpeInv, Masks!CheckState("thread"), s' = s, x2' = x2, x3' = x3
    PROVE  GpeInv'
<1> DEFINE e == Head(T).e
           state == Head(T).state
           w == [op |-> "write", e |-> e, v |-> state # "disabled", undo |-> Head(T).undo]
<1>1. T # <<>> /\ Head(T).op = "set"
  BY DEF Masks!CheckState, Masks!At
<1>2. IF Masks!Skips(e, state) THEN Masks!Then("thread", <<>>) ELSE Masks!Then("thread", <<w>>)
  BY DEF Masks!CheckState, Masks!Cur
<1>3. GpeType' /\ \A f \in Gpes : ev'[f].users = ev[f].users
  <2>1. x4' = [a \in {"thread", "worker"} |-> x4'[a]]
    BY <1>2, ThreadThen, SMTT(30) DEF GpeInv
  <2> QED BY <2>1, TypeKept DEF GpeInv
<1>4. CASE Masks!Skips(e, state)
  <2>1. state # "disabled"
    BY <1>4 DEF Masks!Skips
  <2>2. \A f : ~TurnsOff(Head(T), f)
    BY <2>1 DEF TurnsOff
  <2> QED BY <1>1, <1>2, <1>3, <1>4, <2>2, QuietThread, SingleSteps
<1>5. CASE ~Masks!Skips(e, state)
  <2>1. T' = <<w>> \o Tail(T) /\ W' = W
    BY <1>2, <1>5, ThreadThen, Zenon DEF GpeInv
  <2>2. w.op = "write" /\ w.e = e /\ w.v = (state # "disabled")
    OBVIOUS
  <2> HIDE DEF w
  <2>3. Counting(Tail(T), ev) /\ IsSeq(T)
    BY <1>1, Goes, Zenon DEF Counting, Call
  <2>4. IsSeq(<<w>>) /\ Len(<<w>>) = 1 /\ <<w>>[1] = w
    BY OneStep
  <2>5. IsSeq(T') /\ T' # <<>> /\ Head(T') = w /\ Tail(T') = Tail(T)
    <3>1. PICK S : Tail(T) \in Seq(S)
      BY <2>3 DEF Counting, Call, IsSeq
    <3>2. <<w>> \o Tail(T) \in Seq(S \cup {w}) /\ Head(<<w>> \o Tail(T)) = w /\ Tail(<<w>> \o Tail(T)) = Tail(T)
      BY <3>1
    <3>3. <<w>> \o Tail(T) # <<>>
      BY <3>1
    <3> QED BY <2>1, <3>2, <3>3, SMTT(30) DEF IsSeq
  <2>6. state = "disabled" \/ e \notin reg.masked
    BY <1>5 DEF Masks!Skips
  <2>7. ThreadOK'
    BY <1>3, <2>2, <2>3, <2>5, <2>6, Zenon DEF ThreadOK
  <2>8. WorkerOK'
    BY <2>1, ZenonT(60) DEF GpeInv, WorkerOK, Restoring, Enables
  <2>9. ASSUME NEW f \in reg.masked \cap hw.enable PROVE WillTurnOff(f)'
    <3>1. Offs(T, f)
      BY <1>1, <2>9, SMTT(30) DEF GpeInv, WillTurnOff
    <3>2. TurnsOff(Head(T), f) \/ Offs(T', f)
      BY <1>1, <2>1, <2>3, <2>4, <3>1, OffLater
    <3>3. CASE TurnsOff(Head(T), f)
      <4>1. f = e /\ state = "disabled"
        BY <3>3 DEF TurnsOff
      <4>2. w.v = FALSE
        BY <2>2, <4>1, Zenon
      <4> QED BY <2>2, <2>5, <4>1, <4>2 DEF WillTurnOff
    <3>4. CASE Offs(T', f)
      BY <3>4 DEF WillTurnOff, Offs
    <3> QED BY <3>2, <3>3, <3>4
  <2>10. (Enables(W) /\ Head(W).e \in reg.masked => WaitsAndTurnsOff(T, Head(W).e))'
    <3>1. ASSUME Enables(W), Head(W).e \in reg.masked PROVE WaitsAndTurnsOff(T', Head(W).e)
      <4>1. WaitsAndTurnsOff(T, Head(W).e)
        BY <3>1 DEF GpeInv
      <4> QED BY <1>1, <2>1, <2>3, <2>4, <4>1, OffLater
    <3> QED BY <2>1, <3>1, Zenon DEF Enables, WaitsAndTurnsOff
  <2> QED BY <1>3, <2>7, <2>8, <2>9, <2>10 DEF GpeInv
<1> QED BY <1>4, <1>5

LEMMA WriteStateKeeps ==
    ASSUME GpeInv, Masks!WriteState("thread"), x2' = x2, x3' = x3
    PROVE  GpeInv'
<1> DEFINE e == Head(T).e
           v == Head(T).v
<1>1. T # <<>> /\ Head(T).op = "write"
  BY DEF Masks!WriteState, Masks!At
<1>2. s' = [s EXCEPT !.enable = Masks!With(@, e, v)] /\ Masks!Then("thread", <<>>)
  BY DEF Masks!WriteState, Masks!Cur
<1>3. T' = <<>> \o Tail(T) /\ W' = W /\ x4' = [a \in {"thread", "worker"} |-> x4'[a]]
  BY <1>2, ThreadThen, Zenon DEF GpeInv
<1>4. IsSeq(T) /\ Counting(Tail(T), ev) /\ (v = FALSE \/ (v = TRUE /\ e \notin reg.masked))
  <2>1. ~Counting(T, ev)
    BY <1>1, TailCounting, ZenonT(60) DEF CallOps
  <2> QED BY <2>1 DEF GpeInv, ThreadOK
<1>5. IsSeq(<<>>) /\ Plain(<<>>)
  BY SingleSteps DEF Plain, Call
<1>6. GpeType' /\ ThreadOK' /\ WorkerOK'
  <2>1. DOMAIN hw' = DOMAIN hw
    BY <1>2
  <2>2. GpeType'
    BY <1>3, <2>1, TypeKept DEF GpeInv
  <2>3. Counting(<<>> \o Tail(T), ev)
    BY <1>4, <1>5, CatCounting
  <2>6. Counting(T', ev')
    BY <1>3, <2>3, SMTT(30)
  <2>4. ThreadOK'
    BY <2>6, Zenon DEF ThreadOK, Counting, Call, CallOps, TurnsOff
  <2>5. WorkerOK'
    BY <1>3 DEF GpeInv, WorkerOK, Restoring, Enables
  <2> QED BY <2>2, <2>4, <2>5
<1>7. hw'.enable = IF v THEN hw.enable \cup {e} ELSE hw.enable \ {e}
  BY <1>2 DEF GpeInv, GpeType, Masks!With
<1>8. ASSUME NEW f \in reg.masked \cap hw'.enable PROVE WillTurnOff(f)'
  <2>1. f \in hw.enable /\ ~(f = e /\ v = FALSE)
    BY <1>4, <1>7, <1>8, SMTT(30)
  <2>2. Offs(T, f)
    BY <1>1, <1>8, <2>1 DEF GpeInv, WillTurnOff
  <2>3. ~TurnsOff(Head(T), f)
    BY <1>1 DEF TurnsOff
  <2>4. Offs(T', f)
    BY <1>1, <1>3, <1>4, <1>5, <2>2, <2>3, OffLater, Zenon
  <2> QED BY <2>4 DEF WillTurnOff, Offs
<1>9. (Enables(W) /\ Head(W).e \in reg.masked => WaitsAndTurnsOff(T, Head(W).e))'
  <2>1. ASSUME Enables(W), Head(W).e \in reg.masked PROVE WaitsAndTurnsOff(T', Head(W).e)
    <3>1. WaitsAndTurnsOff(T, Head(W).e)
      BY <2>1 DEF GpeInv
    <3> QED BY <1>1, <1>3, <1>4, <1>5, <3>1, OffLater, ZenonT(60)
  <2> QED BY <1>3, <2>1, Zenon DEF Enables, WaitsAndTurnsOff
<1> QED BY <1>6, <1>8, <1>9 DEF GpeInv

LEMMA QuietKeeps ==
    ASSUME GpeInv,
           \/ Masks!MaskStep("thread") \/ Masks!UnmaskStep("thread") \/ Masks!WaitForWork("thread")
           \/ Masks!clear_gpe("thread")
    PROVE  GpeInv'
<1>1. CASE Masks!MaskStep("thread")
  <2>1. T # <<>> /\ Head(T).op = "mask" /\ Masks!Then("thread", <<>>) /\ s' = s /\ x3' = x3
        /\ x2' = [x2 EXCEPT !.masked = @ \cup {Head(T).e}]
    BY <1>1 DEF Masks!MaskStep, Masks!At, Masks!Cur
  <2>2. DOMAIN reg' = DOMAIN reg /\ reg'.runtime = reg.runtime /\ reg'.masked = reg.masked \cup {Head(T).e}
    BY <2>1 DEF GpeInv, GpeType
  <2>3. GpeType' /\ \A e \in Gpes : ev'[e].users = ev[e].users
    BY <2>1, <2>2, ThreadThen, TypeKept DEF GpeInv
  <2>4. WaitsAndTurnsOff(Tail(T), Head(T).e)
    BY <2>1, Goes, TailCounting
  <2>5. \A e \in reg'.masked : e \in reg.masked \/ WaitsAndTurnsOff(Tail(T), e)
    BY <2>2, <2>4
  <2> QED BY <2>1, <2>2, <2>3, <2>5, QuietThread, SingleSteps DEF TurnsOff
<1>2. CASE Masks!UnmaskStep("thread")
  <2> DEFINE e == Head(T).e
             b == ~ev[e].block /\ ev[e].users # 0
             p == Masks!Maybe(b, Masks!SetState(e, "conditionally", 0))
  <2>1. T # <<>> /\ Head(T).op = "unmask" /\ Masks!Then("thread", p) /\ s' = s /\ x3' = x3
        /\ x2' = [x2 EXCEPT !.masked = @ \ {e}]
    BY <1>2 DEF Masks!UnmaskStep, Masks!At, Masks!Cur
  <2>2. Plain(p)
    BY SingleSteps, MaybeOK
  <2> HIDE DEF p
  <2>3. DOMAIN reg' = DOMAIN reg /\ reg'.runtime = reg.runtime /\ reg'.masked \subseteq reg.masked
    BY <2>1 DEF GpeInv, GpeType
  <2>4. GpeType' /\ \A f \in Gpes : ev'[f].users = ev[f].users
    BY <2>1, <2>3, ThreadThen, TypeKept DEF GpeInv
  <2>5. \A f \in reg'.masked : f \in reg.masked
    BY <2>3
  <2> QED BY <2>1, <2>2, <2>3, <2>4, <2>5, QuietThread, SMTT(30) DEF TurnsOff
<1>3. CASE Masks!WaitForWork("thread")
  <2>1. T # <<>> /\ Head(T).op = "wait" /\ Masks!Then("thread", <<>>) /\ W = <<>> /\ s' = s /\ x2' = x2 /\ x3' = x3
    BY <1>3 DEF Masks!WaitForWork, Masks!At
  <2>2. GpeType' /\ \A e \in Gpes : ev'[e].users = ev[e].users
    BY <2>1, ThreadThen, TypeKept DEF GpeInv
  <2> QED BY <2>1, <2>2, QuietThread, SingleSteps DEF TurnsOff
<1>4. CASE Masks!clear_gpe("thread")
  <2>1. T # <<>> /\ Head(T).op = "clear" /\ Masks!Then("thread", <<>>) /\ x2' = x2 /\ x3' = x3
        /\ s' = [s EXCEPT !.status = @ \ {Head(T).e}]
    BY <1>4 DEF Masks!clear_gpe, Masks!At, Masks!Cur
  <2>2. DOMAIN hw' = DOMAIN hw /\ hw'.enable = hw.enable
    BY <2>1 DEF GpeInv, GpeType
  <2>3. GpeType' /\ \A e \in Gpes : ev'[e].users = ev[e].users
    BY <2>1, <2>2, ThreadThen, TypeKept DEF GpeInv
  <2> QED BY <2>1, <2>2, <2>3, QuietThread, SingleSteps DEF TurnsOff
<1> QED BY <1>1, <1>2, <1>3, <1>4

\* A field of an event, other than the users
LEMMA FieldSet ==
    ASSUME GpeType, NEW f \in {"block", "ptr", "type", "trig"}, NEW e, NEW v,
           x3' = [x3 EXCEPT ![e] = [@ EXCEPT ![f] = v]]
    PROVE  /\ ev' = [g \in Gpes |-> ev'[g]]
           /\ \A g \in Gpes : DOMAIN ev'[g] = EvFields /\ ev'[g].users = ev[g].users /\ ev'[g].users \in Nat
<1>1. DOMAIN x3 = Gpes /\ \A g \in Gpes : DOMAIN x3[g] = EvFields /\ x3[g].users \in Nat
  BY DEF GpeType
<1>2. x3' = [g \in Gpes |-> IF g = e THEN [x3[e] EXCEPT ![f] = v] ELSE x3[g]]
  BY <1>1, Zenon
<1>3. ASSUME NEW g \in Gpes PROVE DOMAIN x3'[g] = EvFields /\ x3'[g].users = x3[g].users
  BY <1>1, <1>2 DEF EvFields
<1> QED BY <1>1, <1>2, <1>3, Zenon

LEMMA SetFieldKeeps ==
    ASSUME GpeInv, Masks!SetField("thread"), s' = s, x2' = x2
    PROVE  GpeInv'
<1>1. PICK f \in {"block", "ptr", "type", "trig"} :
          /\ T # <<>> /\ Head(T).op = f
          /\ x3' = [x3 EXCEPT ![Head(T).e] = [@ EXCEPT ![f] = Head(T).v]]
  BY Zenon DEF Masks!SetField, Masks!At, Masks!Cur
<1>2. Masks!Then("thread", <<>>)
  BY DEF Masks!SetField
<1>3. /\ ev' = [g \in Gpes |-> ev'[g]]
      /\ \A g \in Gpes : DOMAIN ev'[g] = EvFields /\ ev'[g].users = ev[g].users /\ ev'[g].users \in Nat
  BY <1>1, FieldSet, Zenon DEF GpeInv
<1>4. GpeType'
  <2>1. x4' = [a \in {"thread", "worker"} |-> x4'[a]]
    BY <1>2, ThreadThen DEF GpeInv
  <2> QED BY <1>3, <2>1 DEF GpeInv, GpeType
<1> QED BY <1>1, <1>2, <1>3, <1>4, QuietThread, SingleSteps, Zenon DEF TurnsOff

LEMMA PollKeeps ==
    ASSUME GpeInv, Masks!Poll("thread") \/ Masks!Callback("thread")
    PROVE  GpeInv'
<1>1. s' = s /\ x2' = x2 /\ x3' = x3
  BY Zenon DEF Masks!Poll, Masks!Callback
<1>2. ASSUME NEW p, Plain(p), Masks!Then("thread", p), T # <<>>, Head(T).op \in {"poll", "callback"}
      PROVE  GpeInv'
  <2>1. GpeType' /\ \A e \in Gpes : ev'[e].users = ev[e].users
    BY <1>1, <1>2, ThreadThen, TypeKept DEF GpeInv
  <2> QED BY <1>1, <1>2, <2>1, QuietThread DEF TurnsOff
<1>3. ASSUME NEW e PROVE Plain(Masks!restore_gpe(e)) /\ Plain(Masks!DispatchSteps(e))
  <2>1. /\ \A b : Plain(Masks!Maybe(b, Masks!Do("clear", e)))
        /\ Plain(Masks!SetState(e, "restored", 0)) /\ Plain(Masks!Put("block", e, FALSE))
        /\ Plain(Masks!SetState(e, "disabled", 0)) /\ Plain(Masks!Put("block", e, TRUE))
        /\ Plain(Masks!Do("callback", e))
    BY SingleSteps, MaybeOK, Zenon DEF CallOps
  <2>2. Plain(Masks!restore_gpe(e))
    BY <2>1, CatPlain, Zenon DEF Masks!restore_gpe
  <2>3. Plain(Masks!DispatchSteps(e))
    BY <2>1, CatPlain, ZenonT(60) DEF Masks!DispatchSteps
  <2> QED BY <2>2, <2>3
<1>4. CASE Masks!Poll("thread")
  <2>1. T # <<>> /\ Head(T).op \in {"poll", "detect"}
    BY <1>4, Zenon DEF Masks!Poll, Masks!At
  <2>2. Head(T).op = "poll"
    BY <2>1, Goes DEF CallOps
  <2> DEFINE e == Head(T).e
             p == Masks!Maybe(ev[e].users # 0 /\ ev[e].trig = "edge" /\ e \in hw.status, Masks!DispatchSteps(e))
  <2>3. Masks!Then("thread", p)
    BY <1>4, <2>2, Zenon DEF Masks!Poll, Masks!At, Masks!Cur
  <2>4. Plain(p)
    BY <1>3, MaybeOK, SMTT(30)
  <2> QED BY <1>2, <2>1, <2>2, <2>3, <2>4
<1>5. CASE Masks!Callback("thread")
  <2> DEFINE e == Head(T).e
             p(re) == Masks!Maybe(ev[e].type = "native" /\ re, Masks!restore_gpe(e))
  <2>1. PICK re \in BOOLEAN : Masks!Then("thread", p(re))
    BY <1>5 DEF Masks!Callback, Masks!Cur
  <2>2. T # <<>> /\ Head(T).op = "callback"
    BY <1>5 DEF Masks!Callback, Masks!At
  <2>3. Plain(p(re))
    BY <1>3, MaybeOK
  <2> QED BY <1>2, <2>1, <2>2, <2>3, Zenon
<1> QED BY <1>4, <1>5

-----------------------------------------------------------------------------
(* Steps of the worker, and the interrupt *)

LEMMA RestoringTail ==
    ASSUME NEW q, Restoring(q), q # <<>>
    PROVE  /\ Restoring(Tail(q))
           /\ Head(q).op \in {"clear", "block"} \/ (Head(q).op = "set" /\ Head(q).state = "restored")
<1> DEFINE h == Head(q)
           t == Tail(q)
<1>1. Starts(h, t, q)
  BY TailSeq DEF Restoring
<1> HIDE DEF h, t
<1>2. Restoring(t) /\ (h.op \in {"clear", "block"} \/ (h.op = "set" /\ h.state = "restored"))
  BY <1>1 DEF Starts, Restoring
<1> QED BY <1>2 DEF h, t

LEMMA RestoringCat ==
    ASSUME NEW p, NEW q, Restoring(p), Restoring(q)
    PROVE  Restoring(p \o q)
<1> DEFINE r == p \o q
<1>1. Joined(p, q, r)
  BY CatSeq DEF Restoring
<1> HIDE DEF r
<1>2. ASSUME NEW i \in 1 .. Len(r)
      PROVE  r[i].op \in {"clear", "block"} \/ (r[i].op = "set" /\ r[i].state = "restored")
  <2>1. (i \in 1 .. Len(p) /\ r[i] = p[i]) \/ \E j \in 1 .. Len(q) : i = Len(p) + j /\ r[i] = q[j]
    BY ONLY <1>1, <1>2, FromEither, SMTT(30)
  <2> QED BY <2>1 DEF Restoring
<1>3. Restoring(r)
  BY <1>1, <1>2 DEF Restoring, Joined
<1> QED BY <1>3 DEF r

LEMMA RestoreRestores == ASSUME NEW e PROVE Restoring(<<>>) /\ Restoring(Masks!restore_gpe(e))
<1>1. ASSUME NEW r, r.op \in {"clear", "block"} \/ (r.op = "set" /\ r.state = "restored") PROVE Restoring(<<r>>)
  <2> DEFINE q == <<r>>
  <2>1. IsSeq(q) /\ \A i \in 1 .. Len(q) : q[i] = r
    BY OneStep
  <2> HIDE DEF q
  <2>2. Restoring(q)
    BY <1>1, <2>1 DEF Restoring
  <2> QED BY <2>2 DEF q
<1>2. Restoring(<<>>)
  <2> DEFINE q == <<>>
  <2>1. IsSeq(q) /\ \A i \in 1 .. Len(q) : FALSE
    BY OneStep, Zenon
  <2> HIDE DEF q
  <2>2. Restoring(q)
    BY <2>1 DEF Restoring
  <2> QED BY <2>2 DEF q
<1>3. /\ Restoring(Masks!Do("clear", e)) /\ Restoring(Masks!SetState(e, "restored", 0))
      /\ Restoring(Masks!Put("block", e, FALSE))
  BY <1>1 DEF Masks!Do, Masks!SetState, Masks!Put
<1>4. \A b : Restoring(Masks!Maybe(b, Masks!Do("clear", e)))
  BY <1>2, <1>3, SMTT(30) DEF Masks!Maybe
<1> QED BY <1>2, <1>3, <1>4, RestoringCat, Zenon DEF Masks!restore_gpe

\* The thread waits, users and masks are kept.
LEMMA OthersMove ==
    ASSUME GpeInv, T' = T, x2' = x2, GpeType', \A e \in Gpes : ev'[e].users = ev[e].users,
           \A e \in reg.masked \cap hw'.enable : e \in hw.enable \/ Offs(T, e),
           WorkerOK', Enables(W)' => W' = W \/ Head(W').e \notin reg.masked
    PROVE  GpeInv'
<1>1. ThreadOK'
  <2>1. CASE Counting(T, ev)
    <3>1. Counting(T', ev')
      BY <2>1, CountingKept
    <3> QED BY <3>1 DEF ThreadOK, Counting, Call, CallOps, TurnsOff
  <2>2. CASE ~Counting(T, ev)
    <3>1. /\ IsSeq(T) /\ T # <<>> /\ Counting(Tail(T), ev)
          /\ Head(T).op = "write"
          /\ Head(T).v = FALSE \/ (Head(T).v = TRUE /\ Head(T).e \notin reg.masked)
      BY <2>2 DEF GpeInv, ThreadOK
    <3>2. Counting(Tail(T), ev')
      BY <3>1, CountingKept, SMTT(30)
    <3> QED BY <3>1, <3>2, SMTT(30) DEF ThreadOK
  <2> QED BY <2>1, <2>2, SMTT(30)
<1>2. \A e \in Gpes : e \in reg'.runtime <=> ev'[e].users > 0
  BY DEF GpeInv
<1>3. ASSUME NEW e \in reg.masked \cap hw'.enable PROVE WillTurnOff(e)'
  <2>1. WillTurnOff(e)
    BY <1>3 DEF GpeInv, WillTurnOff
  <2> QED BY <2>1 DEF WillTurnOff, Offs
<1>4. (Enables(W) /\ Head(W).e \in reg.masked => WaitsAndTurnsOff(T, Head(W).e))'
  <2>1. ASSUME Enables(W)', Head(W').e \in reg.masked PROVE WaitsAndTurnsOff(T, Head(W').e)
    BY <2>1 DEF GpeInv, Enables
  <2> QED BY <2>1, Zenon DEF Enables, WaitsAndTurnsOff
<1> QED BY <1>1, <1>2, <1>3, <1>4 DEF GpeInv

LEMMA WorkerKeeps ==
    ASSUME GpeInv, Masks!Step("worker")
    PROVE  GpeInv'
<1>1. W # <<>> /\ Restoring(Tail(W)) /\ IsSeq(W) /\ Head(W).op \in {"clear", "block", "set", "write"}
  <2>1. W # <<>>
    BY Zenon DEF Masks!Step, Masks!CountUser, Masks!CheckState, Masks!WriteFails, Masks!WriteState, Masks!StoreState,
           Masks!MaskStep, Masks!UnmaskStep, Masks!WaitForWork, Masks!clear_gpe, Masks!SetField, Masks!Poll,
           Masks!Callback, Masks!At
  <2> QED BY <2>1, RestoringTail DEF GpeInv, WorkerOK, Enables, Restoring
<1>2. /\ Head(W).op = "set" => Head(W).state = "restored"
      /\ Head(W).op = "write" => Head(W).v = TRUE /\ Enables(W)
  BY <1>1, RestoringTail, Zenon DEF GpeInv, WorkerOK, Enables
<1>3. ASSUME Masks!Then("worker", <<>>)
      PROVE  /\ T' = T /\ x4' = [a \in {"thread", "worker"} |-> x4'[a]] /\ WorkerOK' /\ ~Enables(W)'
  <2>1. W' = <<>> \o Tail(W) /\ T' = T /\ x4' = [a \in {"thread", "worker"} |-> x4'[a]]
    BY <1>3, WorkerThen, Zenon DEF GpeInv
  <2>2. Restoring(<<>> \o Tail(W))
    BY <1>1, RestoreRestores, RestoringCat
  <2>3. Restoring(W')
    BY <2>1, <2>2
  <2>4. ~Enables(W')
    BY <2>3, RestoringTail DEF Enables
  <2> QED BY <2>1, <2>3, <2>4 DEF WorkerOK, Restoring, Enables
<1>4. CASE Masks!CheckState("worker")
  <2> DEFINE e == Head(W).e
             w == [op |-> "write", e |-> e, v |-> Head(W).state # "disabled", undo |-> Head(W).undo]
  <2>1. Head(W).op = "set" /\ s' = s /\ x2' = x2 /\ x3' = x3
    BY <1>4 DEF Masks!CheckState, Masks!At
  <2>2. IF Masks!Skips(e, Head(W).state) THEN Masks!Then("worker", <<>>) ELSE Masks!Then("worker", <<w>>)
    BY <1>4 DEF Masks!CheckState, Masks!Cur
  <2>3. CASE Masks!Skips(e, Head(W).state)
    <3>1. GpeType' /\ \A f \in Gpes : ev'[f].users = ev[f].users
      BY <1>3, <2>1, <2>2, <2>3, TypeKept, SMTT(30) DEF GpeInv
    <3> QED BY <1>3, <2>1, <2>2, <2>3, <3>1, OthersMove, SMTT(30)
  <2>4. CASE ~Masks!Skips(e, Head(W).state)
    <3>1. W' = <<w>> \o Tail(W) /\ T' = T /\ x4' = [a \in {"thread", "worker"} |-> x4'[a]]
      BY <2>2, <2>4, WorkerThen, Zenon DEF GpeInv
    <3>2. w.op = "write" /\ w.e = e /\ w.v = TRUE
      BY <1>2, <2>1, Zenon
    <3> HIDE DEF w
    <3>3. IsSeq(W') /\ W' # <<>> /\ Head(W') = w /\ Tail(W') = Tail(W)
      <4>1. PICK S : Tail(W) \in Seq(S)
        BY <1>1 DEF Restoring, IsSeq
      <4>2. <<w>> \o Tail(W) \in Seq(S \cup {w}) /\ Head(<<w>> \o Tail(W)) = w /\ Tail(<<w>> \o Tail(W)) = Tail(W)
        BY <4>1
      <4>3. <<w>> \o Tail(W) # <<>>
        BY <4>1
      <4> QED BY <3>1, <4>2, <4>3, SMTT(30) DEF IsSeq
    <3>4. e \notin reg.masked
      BY <1>2, <2>1, <2>4 DEF Masks!Skips
    <3>5. Enables(W') /\ Restoring(Tail(W'))
      BY <1>1, <3>2, <3>3, SMTT(30) DEF Enables
    <3>6. WorkerOK'
      BY <3>3, <3>5 DEF WorkerOK, Enables, Restoring, IsSeq
    <3>7. GpeType' /\ \A f \in Gpes : ev'[f].users = ev[f].users
      BY <2>1, <3>1, TypeKept DEF GpeInv
    <3> QED BY <2>1, <3>1, <3>2, <3>3, <3>4, <3>6, <3>7, OthersMove, SMTT(30)
  <2> QED BY <2>3, <2>4
<1>5. CASE Masks!WriteState("worker")
  <2>1. Head(W).op = "write" /\ Masks!Then("worker", <<>>) /\ x2' = x2 /\ x3' = x3
        /\ s' = [s EXCEPT !.enable = Masks!With(@, Head(W).e, Head(W).v)]
    BY <1>5 DEF Masks!WriteState, Masks!At, Masks!Cur
  <2>2. DOMAIN hw' = DOMAIN hw /\ hw'.enable = hw.enable \cup {Head(W).e}
    BY <1>2, <2>1 DEF GpeInv, GpeType, Masks!With
  <2>3. GpeType' /\ \A f \in Gpes : ev'[f].users = ev[f].users
    BY <1>3, <2>1, <2>2, TypeKept DEF GpeInv
  <2>4. \A f \in reg.masked \cap hw'.enable : f \in hw.enable \/ Offs(T, f)
    BY <1>2, <2>1, <2>2 DEF GpeInv, WaitsAndTurnsOff, Offs
  <2> QED BY <1>3, <2>1, <2>3, <2>4, OthersMove
<1>6. CASE Masks!clear_gpe("worker")
  <2>1. Masks!Then("worker", <<>>) /\ x2' = x2 /\ x3' = x3 /\ s' = [s EXCEPT !.status = @ \ {Head(W).e}]
    BY <1>6 DEF Masks!clear_gpe, Masks!Cur
  <2>2. DOMAIN hw' = DOMAIN hw /\ hw'.enable = hw.enable
    BY <2>1 DEF GpeInv, GpeType
  <2>3. GpeType' /\ \A f \in Gpes : ev'[f].users = ev[f].users
    BY <1>3, <2>1, <2>2, TypeKept, SMTT(30) DEF GpeInv
  <2> QED BY <1>3, <2>1, <2>2, <2>3, OthersMove
<1>7. CASE Masks!SetField("worker")
  <2>1. PICK f \in {"block", "ptr", "type", "trig"} : x3' = [x3 EXCEPT ![Head(W).e] = [@ EXCEPT ![f] = Head(W).v]]
    BY <1>7, Zenon DEF Masks!SetField, Masks!Cur
  <2>2. Masks!Then("worker", <<>>) /\ s' = s /\ x2' = x2
    BY <1>7 DEF Masks!SetField
  <2>3. /\ ev' = [g \in Gpes |-> ev'[g]]
        /\ \A g \in Gpes : DOMAIN ev'[g] = EvFields /\ ev'[g].users = ev[g].users /\ ev'[g].users \in Nat
    BY <2>1, FieldSet, Zenon DEF GpeInv
  <2>4. GpeType'
    BY <1>3, <2>2, <2>3, SMTT(30) DEF GpeInv, GpeType
  <2> QED BY <1>3, <2>2, <2>3, <2>4, OthersMove, SMTT(30)
<1>8. \/ Masks!CheckState("worker") \/ Masks!WriteState("worker")
      \/ Masks!clear_gpe("worker") \/ Masks!SetField("worker")
  BY <1>1, Zenon DEF Masks!Step, Masks!CountUser, Masks!WriteFails, Masks!StoreState, Masks!MaskStep, Masks!UnmaskStep,
              Masks!WaitForWork, Masks!Poll, Masks!Callback, Masks!At
<1> QED BY <1>4, <1>5, <1>6, <1>7, <1>8, SMTT(30)

LEMMA TakeWorkKeeps ==
    ASSUME GpeInv, Masks!TakeWork
    PROVE  GpeInv'
<1>1. s' = s /\ x2' = x2 /\ x3' = x3 /\ W = <<>>
  BY DEF Masks!TakeWork
<1> DEFINE e == Head(x5)[2]
<1>2. x4' = x4 \/ x4' = [x4 EXCEPT !["worker"] = Masks!restore_gpe(e)]
  BY DEF Masks!TakeWork
<1>3. T' = T /\ x4' = [a \in {"thread", "worker"} |-> x4'[a]] /\ (W' = W \/ W' = Masks!restore_gpe(e))
  BY <1>2 DEF GpeInv, GpeType
<1>4. Restoring(W')
  BY <1>1, <1>3, RestoreRestores
<1>5. ~Enables(W')
  BY <1>4, RestoringTail DEF Enables
<1>6. WorkerOK' /\ ~Enables(W)'
  BY <1>4, <1>5 DEF WorkerOK, Enables, Restoring
<1>7. GpeType' /\ \A f \in Gpes : ev'[f].users = ev[f].users
  BY <1>1, <1>3, TypeKept, SMTT(30) DEF GpeInv
<1> QED BY <1>1, <1>3, <1>6, <1>7, OthersMove

LEMMA InterruptKeeps ==
    ASSUME GpeInv, Masks!Interrupt
    PROVE  GpeInv'
<1> DEFINE hit == hw.status \cap hw.enable
<1>1. x2' = x2 /\ x4' = x4
  BY DEF Masks!Interrupt
<1>2. PICK re \in SUBSET Gpes :
          /\ s' = [status |-> {e \in hw.status : e \in hit => Masks!dispatch_gpe(e, re).status},
                    enable |-> {e \in hw.enable : e \in hit => Masks!dispatch_gpe(e, re).enable}]
          /\ x3' = [e \in Gpes |-> IF e \in hit THEN [x3[e] EXCEPT !.block = Masks!dispatch_gpe(e, re).block]
                                   ELSE x3[e]]
  BY Zenon DEF Masks!Interrupt
<1>3. DOMAIN hw' = {"status", "enable"} /\ hw'.enable \subseteq hw.enable
  BY <1>2
<1>4. ASSUME NEW e \in Gpes PROVE DOMAIN ev'[e] = EvFields /\ ev'[e].users = ev[e].users
  BY <1>2 DEF GpeInv, GpeType, EvFields
<1>5. GpeType'
  BY <1>1, <1>2, <1>3, <1>4, SMTT(30) DEF GpeInv, GpeType
<1>6. WorkerOK' /\ T' = T /\ W' = W
  BY <1>1 DEF GpeInv, WorkerOK, Restoring, Enables
<1> QED BY <1>1, <1>3, <1>4, <1>5, <1>6, OthersMove

LEMMA RaiseKeeps ==
    ASSUME GpeInv, NEW e, Masks!DeviceRaises(e)
    PROVE  GpeInv'
<1>1. x2' = x2 /\ x3' = x3 /\ x4' = x4 /\ s' = [s EXCEPT !.status = @ \cup {e}]
  BY DEF Masks!DeviceRaises
<1>2. DOMAIN hw' = DOMAIN hw /\ hw'.enable = hw.enable
  BY <1>1 DEF GpeInv, GpeType
<1>3. GpeType' /\ \A f \in Gpes : ev'[f].users = ev[f].users
  BY <1>1, <1>2, SMTT(30) DEF GpeInv, GpeType
<1>4. WorkerOK' /\ T' = T /\ W' = W
  BY <1>1 DEF GpeInv, WorkerOK, Restoring, Enables
<1> QED BY <1>1, <1>2, <1>3, <1>4, OthersMove

-----------------------------------------------------------------------------
(* Calls *)

LEMMA CallStarts ==
    ASSUME GpeInv, NEW name, NEW p, Masks!Call(name, p), Counting(p, ev), s' = s,
           DOMAIN reg' = DOMAIN reg, reg'.runtime = reg.runtime, reg'.masked = reg.masked,
           ev' = [e \in Gpes |-> ev'[e]],
           \A e \in Gpes : DOMAIN ev'[e] = EvFields /\ ev'[e].users = ev[e].users
    PROVE  GpeInv'
<1>1. T = <<>> /\ x4' = [x4 EXCEPT !["thread"] = p]
  BY DEF Masks!Call
<1>2. T' = p /\ W' = W /\ x4' = [a \in {"thread", "worker"} |-> x4'[a]]
  BY <1>1, Zenon DEF GpeInv, GpeType
<1>3. GpeType'
  BY <1>2, SMTT(30) DEF GpeInv, GpeType
<1>4. ThreadOK'
  <2>1. Counting(T', ev')
    BY <1>2, CountingKept, SMTT(30)
  <2> QED BY <2>1, Zenon DEF ThreadOK, Counting, Call, CallOps, TurnsOff
<1>5. WorkerOK'
  BY <1>2 DEF GpeInv, WorkerOK, Restoring, Enables
<1>6. \A e \in reg.masked \cap hw.enable : FALSE
  BY <1>1, NothingOff DEF GpeInv, WillTurnOff
<1>7. ~(Enables(W) /\ Head(W).e \in reg.masked)
  BY <1>1, NothingOff DEF GpeInv
<1>8. ~(Enables(W) /\ Head(W).e \in reg.masked)'
  BY <1>2, <1>7 DEF Enables
<1>9. \A e \in Gpes : e \in reg'.runtime <=> ev'[e].users > 0
  BY DEF GpeInv
<1>10. \A e \in reg'.masked \cap hw'.enable : WillTurnOff(e)'
  BY <1>6, SMTT(30)
<1> QED BY <1>3, <1>4, <1>5, <1>8, <1>9, <1>10, SMTT(30) DEF GpeInv

LEMMA SimpleCallKeeps ==
    ASSUME GpeInv, NEW e \in Gpes, Masks!SimpleCall(e)
    PROVE  GpeInv'
<1>1. s' = s /\ x2' = x2 /\ x3' = x3
  BY DEF Masks!SimpleCall
<1>2. PICK c \in DOMAIN Masks!Calls1 : Masks!Call(c, Masks!Calls1[c][e])
  BY DEF Masks!SimpleCall
<1>3. /\ Plain(<<>>) /\ Plain(Masks!SetState(e, "restored", 0)) /\ Plain(Masks!SetState(e, "disabled", 0))
      /\ Plain(Masks!SetState(e, "enabled", 0)) /\ Plain(Masks!Put("block", e, FALSE))
      /\ Plain(Masks!Put("block", e, TRUE)) /\ Plain(Masks!Do("clear", e)) /\ Plain(Masks!Do("poll", e))
      /\ \A b : Plain(Masks!Maybe(b, Masks!Do("clear", e))) /\ Plain(Masks!Maybe(b, Masks!Do("unmask", e)))
  BY SingleSteps, MaybeOK, ZenonT(60) DEF CallOps
<1>4. Counting(Masks!gpe_add_user(e), ev) /\ Counting(Masks!gpe_remove_user(e), ev)
  BY UsersCount, SMTT(30) DEF GpeInv
<1>5. Counting(Masks!Calls1[c][e], ev)
  <2>1. CASE c = "enable"
    <3> DEFINE q == Masks!Maybe(ev[e].users = 0, Masks!Do("clear", e)) \o Masks!gpe_add_user(e) \o Masks!Do("poll", e)
    <3>1. Counting(q, ev)
      BY <1>3, <1>4, CatCounting, SMTT(30)
    <3>2. Masks!Calls1[c][e] = Masks!Maybe(ev[e].type # "none", q)
      BY <2>1 DEF Masks!Calls1
    <3> HIDE DEF q
    <3>3. Counting(Masks!Maybe(ev[e].type # "none", q), ev)
      BY ONLY <3>1, MaybeOK, Zenon
    <3> QED BY ONLY <3>2, <3>3, Zenon
  <2>2. CASE c = "disable"
    BY <1>4, <2>2, SMTT(30) DEF Masks!Calls1
  <2>3. CASE c = "clear"
    BY <1>3, <2>3, PlainCounts DEF Masks!Calls1
  <2>4. CASE c = "suspend"
    <3>1. Plain(Masks!Put("block", e, TRUE) \o Masks!SetState(e, "disabled", 0))
      BY <1>3, CatPlain, Zenon
    <3> QED BY <2>4, <3>1, PlainCounts, Zenon DEF Masks!Calls1
  <2>5. CASE c = "resume"
    <3>1. Plain(Masks!Put("block", e, FALSE) \o Masks!SetState(e, "enabled", 0))
      BY <1>3, CatPlain, ZenonT(60)
    <3> QED BY <2>5, <3>1, PlainCounts, Zenon DEF Masks!Calls1
  <2>6. CASE c = "finish"
    <3>1. Plain(Masks!restore_gpe(e))
      BY <1>3, CatPlain, Zenon DEF Masks!restore_gpe
    <3> QED BY <2>6, <3>1, PlainCounts DEF Masks!Calls1
  <2>7. CASE c = "mask"
    BY <2>7, MaskingPlain, PlainCounts, SMTT(30) DEF Masks!Calls1
  <2>8. CASE c = "unmask"
    BY <1>3, <2>8, PlainCounts DEF Masks!Calls1
  <2> QED BY <2>1, <2>2, <2>3, <2>4, <2>5, <2>6, <2>7, <2>8, Zenon DEF Masks!Calls1
<1> QED BY <1>1, <1>2, <1>5, CallStarts DEF GpeInv, GpeType

\* Fields of an event other than the users, when a call starts
LEMMA SavedSet ==
    ASSUME GpeType, NEW e \in Gpes, NEW v,
           x3' = [x3 EXCEPT ![e].saved = v]
    PROVE  /\ ev' = [g \in Gpes |-> ev'[g]]
           /\ \A g \in Gpes : DOMAIN ev'[g] = EvFields /\ ev'[g].users = ev[g].users
<1>1. DOMAIN x3 = Gpes /\ \A g \in Gpes : DOMAIN x3[g] = EvFields
  BY DEF GpeType
<1>2. x3' = [g \in Gpes |-> IF g = e THEN [x3[e] EXCEPT !.saved = v] ELSE x3[g]]
  BY <1>1, Zenon
<1>3. ASSUME NEW g \in Gpes PROVE DOMAIN x3'[g] = EvFields /\ x3'[g].users = x3[g].users
  BY <1>1, <1>2 DEF EvFields
<1> QED BY <1>2, <1>3, Zenon

LEMMA InstallKeeps ==
    ASSUME GpeInv, NEW e \in Gpes, NEW type, NEW trig, Masks!InstallHandler(e, type, trig)
    PROVE  GpeInv'
<1> DEFINE taken == Masks!HasAml(e) /\ ev[e].users # 0
           p == Masks!Maybe(taken, Masks!gpe_remove_user(e)) \o Masks!Put("ptr", e, "native")
                    \o Masks!Put("type", e, type) \o Masks!Put("trig", e, trig)
           saved == [type |-> ev[e].type, ptr |-> ev[e].ptr, trig |-> ev[e].trig, enabled |-> taken]
<1>1. s' = s /\ x2' = x2 /\ Masks!Call("install", Masks!Masked(e, p)) /\ x3' = [x3 EXCEPT ![e].saved = saved]
  BY SMTT(30) DEF Masks!InstallHandler
<1>2. Counting(Masks!Maybe(taken, Masks!gpe_remove_user(e)), ev)
  BY UsersCount, MaybeOK DEF GpeInv
<1>3. \A v : Plain(Masks!Put("ptr", e, v)) /\ Plain(Masks!Put("type", e, v)) /\ Plain(Masks!Put("trig", e, v))
  BY SingleSteps, SMTT(30) DEF CallOps
<1>4. Counting(p, ev)
  BY <1>2, <1>3, CatCounting
<1> HIDE DEF p, saved
<1>5. Counting(Masks!Masked(e, p), ev)
  BY <1>4, MaskedCounts
<1>6. /\ ev' = [g \in Gpes |-> ev'[g]]
      /\ \A g \in Gpes : DOMAIN ev'[g] = EvFields /\ ev'[g].users = ev[g].users
  BY <1>1, SavedSet, Zenon DEF GpeInv
<1> QED BY <1>1, <1>5, <1>6, CallStarts, Zenon

LEMMA UninstallKeeps ==
    ASSUME GpeInv, NEW e \in Gpes, Masks!UninstallHandler(e)
    PROVE  GpeInv'
<1> DEFINE saved == ev[e].saved
           again == saved.type \in {"aml", "implicit"} /\ saved.enabled
           p == Masks!Put("ptr", e, saved.ptr) \o Masks!Put("trig", e, saved.trig)
                    \o Masks!Put("type", e, saved.type) \o Masks!Maybe(again, Masks!gpe_add_user(e))
           q == Masks!Masked(e, p) \o Masks!Do("poll", e)
<1>1. s' = s /\ x2' = x2 /\ Masks!Call("uninstall", q) /\ x3' = [x3 EXCEPT ![e].saved = Masks!NoSaved]
  BY SMTT(30) DEF Masks!UninstallHandler
<1>2. Counting(Masks!Maybe(again, Masks!gpe_add_user(e)), ev)
  BY UsersCount, MaybeOK, Zenon DEF GpeInv
<1>3. /\ Plain(Masks!Do("poll", e))
      /\ \A v : Plain(Masks!Put("ptr", e, v)) /\ Plain(Masks!Put("type", e, v)) /\ Plain(Masks!Put("trig", e, v))
  BY SingleSteps, SMTT(30) DEF CallOps
<1>4. Counting(p, ev)
  <2>1. Plain(Masks!Put("ptr", e, saved.ptr) \o Masks!Put("trig", e, saved.trig) \o Masks!Put("type", e, saved.type))
    BY <1>3, CatPlain, SMTT(30)
  <2> QED BY <1>2, <2>1, CatCounting, SMTT(30)
<1> HIDE DEF p
<1>5. Counting(q, ev)
  BY <1>3, <1>4, MaskedCounts, CatCounting
<1> HIDE DEF q
<1>6. /\ ev' = [g \in Gpes |-> ev'[g]]
      /\ \A g \in Gpes : DOMAIN ev'[g] = EvFields /\ ev'[g].users = ev[g].users
  BY <1>1, SavedSet, Zenon DEF GpeInv
<1> QED BY <1>1, <1>5, <1>6, CallStarts, Zenon

LEMMA WakeKeeps ==
    ASSUME GpeInv, NEW e \in Gpes,
           \/ \E ok \in BOOLEAN : Masks!SetupForWake(e, "none", ok)
           \/ Masks!EnableForWake(e) \/ Masks!DisableForWake(e)
    PROVE  GpeInv'
<1>1. Plain(<<>>) /\ Counting(<<>>, ev)
  BY SingleSteps, PlainCounts
<1>2. ASSUME NEW ok \in BOOLEAN, Masks!SetupForWake(e, "none", ok) PROVE GpeInv'
  <2> DEFINE steps == (<<>> \o <<>>) \o <<>>
  <2>1. s' = s /\ x2' = x2 /\ Masks!Call("setup_wake", Masks!Masked(e, steps))
    BY <1>2 DEF Masks!SetupForWake, Masks!Maybe
  <2>2. x3' = [x3 EXCEPT ![e].wake = TRUE, ![e].devices = @]
    BY <1>2, Zenon DEF Masks!SetupForWake
  <2>3. Counting(Masks!Masked(e, steps), ev)
    BY <1>1, CatPlain, PlainCounts, MaskedCounts
  <2>4. DOMAIN x3 = Gpes /\ \A g \in Gpes : DOMAIN x3[g] = EvFields
    BY DEF GpeInv, GpeType
  <2>5. x3' = [g \in Gpes |-> IF g = e THEN [x3[e] EXCEPT !.wake = TRUE, !.devices = @] ELSE x3[g]]
    BY <2>2, <2>4, Zenon
  <2>6. ASSUME NEW g \in Gpes PROVE DOMAIN x3'[g] = EvFields /\ x3'[g].users = x3[g].users
    BY <2>4, <2>5 DEF EvFields
  <2> HIDE DEF steps
  <2> QED BY <2>1, <2>3, <2>5, <2>6, CallStarts
<1>3. CASE Masks!EnableForWake(e) \/ Masks!DisableForWake(e)
  <2>1. s' = s /\ x3' = x3 /\ Masks!Call("wake", <<>>)
    BY <1>3 DEF Masks!EnableForWake, Masks!DisableForWake
  <2>2. x2' = [x2 EXCEPT !.wake = @ \cup {e}] \/ x2' = [x2 EXCEPT !.wake = @ \cap {e}]
    BY <1>3 DEF Masks!EnableForWake, Masks!DisableForWake
  <2>3. DOMAIN reg' = DOMAIN reg /\ reg'.runtime = reg.runtime /\ reg'.masked = reg.masked
    BY <2>2 DEF GpeInv, GpeType
  <2>4. /\ ev' = [g \in Gpes |-> ev'[g]]
        /\ \A g \in Gpes : DOMAIN ev'[g] = EvFields /\ ev'[g].users = ev[g].users
    BY <2>1, SMTT(30) DEF GpeInv, GpeType
  <2> QED BY <1>1, <2>1, <2>3, <2>4, CallStarts
<1> QED BY <1>2, <1>3

-----------------------------------------------------------------------------
LEMMA GpeStarts == ASSUME Masks!Init PROVE GpeInv
<1>1. hw = [status |-> {}, enable |-> {}] /\ reg = [runtime |-> {}, wake |-> {}, masked |-> {}, current |-> {}]
      /\ x4 = [a \in {"thread", "worker"} |-> <<>>]
  BY DEF Masks!Init, Masks!Actors
<1>2. PICK t \in [Gpes -> {"none", "level", "edge"}] : ev = [e \in Gpes |-> Masks!MatchedEvent(t[e])]
  BY SMTT(30) DEF Masks!Init
<1>3. GpeType /\ \A e \in Gpes : ev[e].users = 0
  BY <1>1, <1>2, Zenon DEF GpeType, EvFields, Masks!MatchedEvent
<1>4. T = <<>> /\ W = <<>>
  BY <1>1
<1>5. ThreadOK
  BY <1>4, SingleSteps, PlainCounts DEF ThreadOK
<1>6. WorkerOK /\ ~Enables(W)
  BY <1>4, RestoreRestores DEF WorkerOK, Enables
<1>7. reg.masked = {} /\ reg.runtime = {} /\ reg.masked \cap hw.enable = {}
  BY ONLY <1>1 DEF reg, hw
<1>8. \A e \in Gpes : e \in reg.runtime <=> ev[e].users > 0
  BY ONLY <1>3, <1>7
<1> QED BY ONLY <1>3, <1>5, <1>6, <1>7, <1>8, Zenon DEF GpeInv

LEMMA GpeSteps == ASSUME GpeInv, Masks!Next PROVE GpeInv'
<1>1. ASSUME NEW e \in Gpes,
             \/ Masks!SimpleCall(e) \/ Masks!UninstallHandler(e) \/ Masks!EnableForWake(e) \/ Masks!DisableForWake(e)
             \/ \E type \in {"native", "raw"}, trig \in {"level", "edge"} : Masks!InstallHandler(e, type, trig)
             \/ \E d \in {} \cup {"none"}, ok \in BOOLEAN : Masks!SetupForWake(e, d, ok)
             \/ Masks!DeviceRaises(e)
      PROVE  GpeInv'
  <2>1. CASE \E d \in {} \cup {"none"}, ok \in BOOLEAN : Masks!SetupForWake(e, d, ok)
    <3>1. \E ok \in BOOLEAN : Masks!SetupForWake(e, "none", ok)
      BY <2>1
    <3> QED BY <3>1, WakeKeeps
  <2>2. CASE Masks!EnableForWake(e) \/ Masks!DisableForWake(e)
    BY <2>2, WakeKeeps
  <2> QED BY <1>1, <2>1, <2>2, SimpleCallKeeps, UninstallKeeps, InstallKeeps, RaiseKeeps
<1>2. ~Masks!ForAllGpes /\ ~Masks!Finalize
  BY MasksAssumption, Zenon DEF Masks!ForAllGpes, Masks!Finalize, Masks!Call
<1>3. CASE Masks!Step("thread")
  <2>1. ~Masks!WriteFails("thread")
    BY DEF Masks!WriteFails
  <2>2. ASSUME Masks!StoreState("thread") PROVE FALSE
    <3>1. T # <<>> /\ Head(T).op \in {"store", "enable"}
      BY <2>2 DEF Masks!StoreState, Masks!At
    <3> QED BY <3>1, Goes DEF CallOps
  <2>3. CASE Masks!CountUser("thread")
    <3>1. s' = s
      BY <2>3 DEF Masks!CountUser
    <3> QED BY <2>3, <3>1, CountUserKeeps
  <2>4. CASE Masks!CheckState("thread")
    <3>1. s' = s /\ x2' = x2 /\ x3' = x3
      BY <2>4 DEF Masks!CheckState
    <3> QED BY <2>4, <3>1, CheckStateKeeps, SMTT(30)
  <2>5. CASE Masks!WriteState("thread")
    <3>1. x2' = x2 /\ x3' = x3
      BY <2>5 DEF Masks!WriteState
    <3> QED BY <2>5, <3>1, WriteStateKeeps
  <2>6. CASE Masks!SetField("thread")
    <3>1. s' = s /\ x2' = x2
      BY <2>6 DEF Masks!SetField
    <3> QED BY <2>6, <3>1, SetFieldKeeps
  <2> QED BY <1>3, <2>1, <2>2, <2>3, <2>4, <2>5, <2>6, QuietKeeps, PollKeeps, SMTT(30) DEF Masks!Step
<1>4. CASE \E a \in Masks!Actors : Masks!Step(a)
  BY <1>3, <1>4, WorkerKeeps DEF Masks!Actors
<1> QED BY <1>1, <1>2, <1>4, TakeWorkKeeps, InterruptKeeps, SMTT(30) DEF Masks!Next

\* For any events, any bound on users and on scheduled work and any calls about
\* one event: when nothing is under way, an event is in the runtime mask exactly
\* while uacpi_enable_gpe has users of it (gp_event_toggle_masks); and when no
\* call is, no masked event is enabled, although set_gpe_state looks at the mask
\* before it takes the lock and restore_gpe does so in deferred work (gpe_mask_safe).
THEOREM MasksAlwaysAgree == MasksSpec => []MasksAgree
<1> DEFINE Inv == part = "masks" => GpeInv
<1>1. MasksInit => Inv
  BY GpeStarts, Zenon DEF MasksInit
<1>2. ASSUME Inv, [MasksNext]_<<part, xs>> PROVE Inv'
  <2>1. part' = part
    BY <1>2 DEF MasksNext
  <2>2. ASSUME part = "masks" PROVE GpeInv'
    <3>1. CASE MasksNext
      <4>1. Masks!Next
        BY <2>2, <3>1, ZenonT(60) DEF MasksNext
      <4> QED BY <1>2, <2>2, <4>1, GpeSteps
    <3>2. CASE UNCHANGED <<part, xs>>
      <4>1. s' = s /\ x2' = x2 /\ x3' = x3 /\ x4' = x4
        BY <3>2 DEF xs
      <4>2. GpeInv
        BY <1>2, <2>2
      <4> QED BY <4>1, <4>2 DEF GpeInv, GpeType, ThreadOK, WorkerOK, WillTurnOff, Enables, Offs, WaitsAndTurnsOff,
                               Restoring, IsSeq
    <3> QED BY <1>2, <3>1, <3>2
  <2> QED BY <2>1, <2>2
<1>3. Inv => MasksAgree
  <2> SUFFICES ASSUME GpeInv PROVE Masks!UsersMatchMask /\ Masks!MaskedStaysOff
    BY DEF MasksAgree
  <2>1. Masks!UsersMatchMask
    BY SMTT(30) DEF GpeInv, Masks!UsersMatchMask
  <2>2. ASSUME T = <<>>, NEW e \in reg.masked \cap hw.enable PROVE FALSE
    BY <2>2, NothingOff DEF GpeInv, WillTurnOff
  <2>3. Masks!MaskedStaysOff
    BY <2>2 DEF Masks!MaskedStaysOff
  <2> QED BY <2>1, <2>3
<1> QED BY <1>1, <1>2, <1>3, PTL DEF MasksSpec
=============================================================================
