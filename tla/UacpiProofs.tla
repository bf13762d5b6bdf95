----------------------------- MODULE UacpiProofs ----------------------------
(***************************************************************************)
(* Initialisation, reset, the order of devices, and sleep of uACPI go right  *)
(* on any firmware with any devices.                                         *)
(***************************************************************************)
EXTENDS Acpi, WellFoundedInduction, TLAPS

LifeFields ==
    {"fw", "level", "held", "plan", "boots", "late", "legacy", "wasLegacy", "at", "sta", "started",
     "last", "s0", "cnt", "gpes", "power", "asked", "slept", "failed"}

\* What uACPI holds, and the steps of a reset
Things ==
    {"tables", "table_mutex", "reg_lock", "gpe_lock", "event_lock", "gpe_blocks", "sci", "global_lock_event",
     "global_lock_spinlock", "global_lock_handler", "opregion_lock", "interface_mutex", "namespace_lock",
     "root_object", "global_lock_mutex", "nodes", "notify_mutex"}
ResetSteps == Things \cup {"mode", "context"}
Members(p) == {p[i] : i \in 1 .. Len(p)}

\* In what is left of a reset the context goes last, and the SCI before the GPE blocks.
PlanOK(p) ==
    /\ \A i \in 1 .. Len(p) : p[i] = "context" => i = Len(p)
    /\ \A i, j \in 1 .. Len(p) : p[i] = "gpe_blocks" /\ p[j] = "sci" => j < i

LEMMA Cat ==
    ASSUME NEW S, NEW a \in Seq(S), NEW b \in Seq(S)
    PROVE  a \o b \in Seq(S) /\ Members(a \o b) = Members(a) \cup Members(b)
<1>1. a \o b \in Seq(S) /\ Len(a \o b) = Len(a) + Len(b) /\ Len(a) \in Nat /\ Len(b) \in Nat
  OBVIOUS
<1>2. \A i \in 1 .. Len(a) : (a \o b)[i] = a[i] /\ i \in 1 .. Len(a \o b)
  BY <1>1
<1>3. \A i \in 1 .. Len(b) : (a \o b)[Len(a) + i] = b[i] /\ Len(a) + i \in 1 .. Len(a \o b)
  BY <1>1
<1>4. \A i \in 1 .. Len(a \o b) : i \in 1 .. Len(a) \/ \E j \in 1 .. Len(b) : i = Len(a) + j
  <2> SUFFICES ASSUME NEW i \in 1 .. Len(a \o b), i \notin 1 .. Len(a)
               PROVE  i - Len(a) \in 1 .. Len(b) /\ i = Len(a) + (i - Len(a))
    BY Zenon
  <2> QED BY <1>1
<1>5. Members(a \o b) \subseteq Members(a) \cup Members(b)
  BY <1>1, <1>2, <1>3, <1>4 DEF Members
<1>6. Members(a) \subseteq Members(a \o b)
  BY <1>2 DEF Members
<1>7. Members(b) \subseteq Members(a \o b)
  BY <1>3 DEF Members
<1> QED BY <1>1, <1>5, <1>6, <1>7

LEMMA PlanCat ==
    ASSUME NEW a \in Seq(ResetSteps), NEW b \in Seq(ResetSteps), PlanOK(a), PlanOK(b), "context" \notin Members(a),
           "gpe_blocks" \notin Members(a) \/ "sci" \notin Members(b)
    PROVE  a \o b \in Seq(ResetSteps) /\ PlanOK(a \o b) /\ Members(a \o b) = Members(a) \cup Members(b)
<1>2. a \o b \in Seq(ResetSteps) /\ Len(a \o b) = Len(a) + Len(b) /\ Len(a) \in Nat /\ Len(b) \in Nat
  OBVIOUS
<1>3. ASSUME NEW i \in 1 .. Len(a \o b)
      PROVE  \/ i \in 1 .. Len(a) /\ (a \o b)[i] = a[i]
             \/ i - Len(a) \in 1 .. Len(b) /\ (a \o b)[i] = b[i - Len(a)]
  BY <1>2
<1>4. \A i \in 1 .. Len(a) : a[i] # "context"
  BY DEF Members
<1>5. (\A i \in 1 .. Len(a) : a[i] # "gpe_blocks") \/ \A i \in 1 .. Len(b) : b[i] # "sci"
  BY DEF Members
<1>6. ASSUME NEW i \in 1 .. Len(a \o b), (a \o b)[i] = "context" PROVE i = Len(a \o b)
  <2>1. i - Len(a) \in 1 .. Len(b) /\ b[i - Len(a)] = "context"
    BY <1>3, <1>4, <1>6
  <2>2. i - Len(a) = Len(b)
    BY <2>1, SMTT(30) DEF PlanOK
  <2> QED BY <1>2, <2>2
<1>7. ASSUME NEW i \in 1 .. Len(a \o b), NEW j \in 1 .. Len(a \o b),
             (a \o b)[i] = "gpe_blocks", (a \o b)[j] = "sci"
      PROVE  j < i
  <2>1. CASE j \in 1 .. Len(a) /\ a[j] = "sci"
    BY <1>2, <1>3, <1>7, <2>1 DEF PlanOK
  <2>2. CASE j - Len(a) \in 1 .. Len(b) /\ b[j - Len(a)] = "sci"
    <3>1. i - Len(a) \in 1 .. Len(b) /\ b[i - Len(a)] = "gpe_blocks"
      BY <1>3, <1>5, <1>7, <2>2
    <3>2. j - Len(a) < i - Len(a)
      BY <2>2, <3>1, SMTT(30) DEF PlanOK
    <3> QED BY <1>2, <3>2
  <2> QED BY <1>3, <1>7, <2>1, <2>2
<1>8. PlanOK(a \o b)
  BY <1>2, <1>6, <1>7, SMTT(30) DEF PlanOK
<1> QED BY <1>2, <1>8, Cat

\* A reset gives back all that there is, in such an order.
LEMMA ResetOK ==
    /\ Life!Reset \in Seq(ResetSteps) /\ Life!Reset # <<>>
    /\ PlanOK(Life!Reset) /\ Things \cup {"mode"} \subseteq Members(Life!Reset)
<1> DEFINE a1 == Life!uacpi_deinitialize_namespace
           a2 == Life!uacpi_deinitialize_interfaces
           a3 == Life!uacpi_deinitialize_events
           a4 == Life!uacpi_deinitialize_notify
           a5 == Life!uacpi_deinitialize_opregion
           a6 == Life!uacpi_deinitialize_tables
           a7 == <<"mode">>
           a8 == Life!uacpi_deinitialize_registers
           a9 == <<"global_lock_event", "global_lock_spinlock", "context">>
           b1 == a1 \o a2
           b2 == b1 \o a3
           b3 == b2 \o a4
           b4 == b3 \o a5
           b5 == b4 \o a6
           b6 == b5 \o a7
           b7 == b6 \o a8
           b8 == b7 \o a9
<1>1. a1 \in Seq(ResetSteps) /\ PlanOK(a1) /\ Members(a1) = {"nodes", "root_object", "global_lock_mutex", "namespace_lock"}
  <2>1. a1 \in Seq(ResetSteps)
    BY DEF ResetSteps, Things, Life!uacpi_deinitialize_namespace
  <2>2. PlanOK(a1)
    BY DEF PlanOK, Life!uacpi_deinitialize_namespace
  <2>3. Members(a1) = {"nodes", "root_object", "global_lock_mutex", "namespace_lock"}
    BY DEF Members, Life!uacpi_deinitialize_namespace
  <2> QED BY <2>1, <2>2, <2>3
<1>2. a2 \in Seq(ResetSteps) /\ PlanOK(a2) /\ Members(a2) = {"interface_mutex"}
  <2>1. a2 \in Seq(ResetSteps)
    BY DEF ResetSteps, Things, Life!uacpi_deinitialize_interfaces
  <2>2. PlanOK(a2)
    BY DEF PlanOK, Life!uacpi_deinitialize_interfaces
  <2>3. Members(a2) = {"interface_mutex"}
    BY DEF Members, Life!uacpi_deinitialize_interfaces
  <2> QED BY <2>1, <2>2, <2>3
<1>3. a3 \in Seq(ResetSteps) /\ PlanOK(a3) /\ Members(a3) = {"sci", "gpe_blocks", "global_lock_handler", "gpe_lock", "event_lock"}
  <2>1. a3 \in Seq(ResetSteps)
    BY DEF ResetSteps, Things, Life!uacpi_deinitialize_events
  <2>2. PlanOK(a3)
    BY DEF PlanOK, Life!uacpi_deinitialize_events
  <2>3. Members(a3) = {"sci", "gpe_blocks", "global_lock_handler", "gpe_lock", "event_lock"}
    BY DEF Members, Life!uacpi_deinitialize_events
  <2> QED BY <2>1, <2>2, <2>3
<1>4. a4 \in Seq(ResetSteps) /\ PlanOK(a4) /\ Members(a4) = {"notify_mutex"}
  <2>1. a4 \in Seq(ResetSteps)
    BY DEF ResetSteps, Things, Life!uacpi_deinitialize_notify
  <2>2. PlanOK(a4)
    BY DEF PlanOK, Life!uacpi_deinitialize_notify
  <2>3. Members(a4) = {"notify_mutex"}
    BY DEF Members, Life!uacpi_deinitialize_notify
  <2> QED BY <2>1, <2>2, <2>3
<1>5. a5 \in Seq(ResetSteps) /\ PlanOK(a5) /\ Members(a5) = {"opregion_lock"}
  <2>1. a5 \in Seq(ResetSteps)
    BY DEF ResetSteps, Things, Life!uacpi_deinitialize_opregion
  <2>2. PlanOK(a5)
    BY DEF PlanOK, Life!uacpi_deinitialize_opregion
  <2>3. Members(a5) = {"opregion_lock"}
    BY DEF Members, Life!uacpi_deinitialize_opregion
  <2> QED BY <2>1, <2>2, <2>3
<1>6. a6 \in Seq(ResetSteps) /\ PlanOK(a6) /\ Members(a6) = {"tables", "table_mutex"}
  <2>1. a6 \in Seq(ResetSteps)
    BY DEF ResetSteps, Things, Life!uacpi_deinitialize_tables
  <2>2. PlanOK(a6)
    BY DEF PlanOK, Life!uacpi_deinitialize_tables
  <2>3. Members(a6) = {"tables", "table_mutex"}
    BY DEF Members, Life!uacpi_deinitialize_tables
  <2> QED BY <2>1, <2>2, <2>3
<1>7. a7 \in Seq(ResetSteps) /\ PlanOK(a7) /\ Members(a7) = {"mode"}
  <2>1. a7 \in Seq(ResetSteps)
    BY DEF ResetSteps, Things
  <2>2. PlanOK(a7)
    BY DEF PlanOK
  <2>3. Members(a7) = {"mode"}
    BY DEF Members
  <2> QED BY <2>1, <2>2, <2>3
<1>8. a8 \in Seq(ResetSteps) /\ PlanOK(a8) /\ Members(a8) = {"reg_lock"}
  <2>1. a8 \in Seq(ResetSteps)
    BY DEF ResetSteps, Things, Life!uacpi_deinitialize_registers
  <2>2. PlanOK(a8)
    BY DEF PlanOK, Life!uacpi_deinitialize_registers
  <2>3. Members(a8) = {"reg_lock"}
    BY DEF Members, Life!uacpi_deinitialize_registers
  <2> QED BY <2>1, <2>2, <2>3
<1>9. a9 \in Seq(ResetSteps) /\ PlanOK(a9) /\ Members(a9) = {"global_lock_event", "global_lock_spinlock", "context"}
  <2>1. a9 \in Seq(ResetSteps)
    BY DEF ResetSteps, Things
  <2>2. PlanOK(a9)
    BY DEF PlanOK
  <2>3. Members(a9) = {"global_lock_event", "global_lock_spinlock", "context"}
    BY DEF Members
  <2> QED BY <2>1, <2>2, <2>3
<1>10. Life!Reset = b8
  BY DEF Life!Reset
<1> HIDE DEF a1, a2, a3, a4, a5, a6, a7, a8, a9, b1, b2, b3, b4, b5, b6, b7, b8
<1>11. b1 \in Seq(ResetSteps) /\ PlanOK(b1) /\ Members(b1) = Members(a1) \cup Members(a2)
  <2>1. "context" \notin Members(a1) /\ ("gpe_blocks" \notin Members(a1) \/ "sci" \notin Members(a2))
    BY <1>1, <1>2
  <2> QED BY ONLY <1>1, <1>2, <2>1, PlanCat, Zenon DEF b1
<1>12. b2 \in Seq(ResetSteps) /\ PlanOK(b2) /\ Members(b2) = Members(b1) \cup Members(a3)
  <2>1. "context" \notin Members(b1) /\ ("gpe_blocks" \notin Members(b1) \/ "sci" \notin Members(a3))
    BY <1>1, <1>2, <1>3, <1>11
  <2> QED BY ONLY <1>11, <1>3, <2>1, PlanCat, Zenon DEF b2
<1>13. b3 \in Seq(ResetSteps) /\ PlanOK(b3) /\ Members(b3) = Members(b2) \cup Members(a4)
  <2>1. "context" \notin Members(b2) /\ ("gpe_blocks" \notin Members(b2) \/ "sci" \notin Members(a4))
    BY <1>1, <1>2, <1>3, <1>4, <1>11, <1>12
  <2> QED BY ONLY <1>12, <1>4, <2>1, PlanCat, Zenon DEF b3
<1>14. b4 \in Seq(ResetSteps) /\ PlanOK(b4) /\ Members(b4) = Members(b3) \cup Members(a5)
  <2>1. "context" \notin Members(b3) /\ ("gpe_blocks" \notin Members(b3) \/ "sci" \notin Members(a5))
    BY <1>1, <1>2, <1>3, <1>4, <1>5, <1>11, <1>12, <1>13
  <2> QED BY ONLY <1>13, <1>5, <2>1, PlanCat, Zenon DEF b4
<1>15. b5 \in Seq(ResetSteps) /\ PlanOK(b5) /\ Members(b5) = Members(b4) \cup Members(a6)
  <2>1. "context" \notin Members(b4) /\ ("gpe_blocks" \notin Members(b4) \/ "sci" \notin Members(a6))
    BY <1>1, <1>2, <1>3, <1>4, <1>5, <1>6, <1>11, <1>12, <1>13, <1>14
  <2> QED BY ONLY <1>14, <1>6, <2>1, PlanCat, Zenon DEF b5
<1>16. b6 \in Seq(ResetSteps) /\ PlanOK(b6) /\ Members(b6) = Members(b5) \cup Members(a7)
  <2>1. "context" \notin Members(b5) /\ ("gpe_blocks" \notin Members(b5) \/ "sci" \notin Members(a7))
    BY <1>1, <1>2, <1>3, <1>4, <1>5, <1>6, <1>7, <1>11, <1>12, <1>13, <1>14, <1>15
  <2> QED BY ONLY <1>15, <1>7, <2>1, PlanCat, Zenon DEF b6
<1>17. b7 \in Seq(ResetSteps) /\ PlanOK(b7) /\ Members(b7) = Members(b6) \cup Members(a8)
  <2>1. "context" \notin Members(b6) /\ ("gpe_blocks" \notin Members(b6) \/ "sci" \notin Members(a8))
    BY <1>1, <1>2, <1>3, <1>4, <1>5, <1>6, <1>7, <1>8, <1>11, <1>12, <1>13, <1>14, <1>15, <1>16
  <2> QED BY ONLY <1>16, <1>8, <2>1, PlanCat, Zenon DEF b7
<1>18. b8 \in Seq(ResetSteps) /\ PlanOK(b8) /\ Members(b8) = Members(b7) \cup Members(a9)
  <2>1. "context" \notin Members(b7) /\ ("gpe_blocks" \notin Members(b7) \/ "sci" \notin Members(a9))
    BY <1>1, <1>2, <1>3, <1>4, <1>5, <1>6, <1>7, <1>8, <1>9, <1>11, <1>12, <1>13, <1>14, <1>15, <1>16, <1>17, SMTT(30)
  <2> QED BY ONLY <1>17, <1>9, <2>1, PlanCat, Zenon DEF b8
<1>19. Things \cup {"mode"} \subseteq Members(b8)
  BY <1>1, <1>2, <1>3, <1>4, <1>5, <1>6, <1>7, <1>8, <1>9, SMTT(30),
     <1>11, <1>12, <1>13, <1>14, <1>15, <1>16, <1>17, <1>18 DEF Things
<1>20. b8 # <<>>
  BY <1>18, <1>9, SMTT(30) DEF Members
<1> QED BY <1>10, <1>18, <1>19, <1>20

LEMMA SubsystemsAreThings ==
    ASSUME NEW w, w.reduced \in BOOLEAN, NEW n \in 0 .. Len(Life!Subsystems(w))
    PROVE  Life!Taken(Life!Subsystems(w), n) \subseteq Things \ {"sci"}
<1> DEFINE S == Things \ {"sci"}
           a1 == Life!uacpi_initialize_tables
           a2 == Life!uacpi_initialize_registers
           a3 == Life!uacpi_initialize_events_early(w)
           a4 == Life!uacpi_initialize_opregion
           a5 == Life!uacpi_initialize_interfaces
           a6 == Life!uacpi_initialize_namespace
           a7 == Life!uacpi_initialize_notify
<1>1. a1 \in Seq(S) /\ a2 \in Seq(S) /\ a4 \in Seq(S) /\ a5 \in Seq(S) /\ a7 \in Seq(S)
  BY DEF Things, Life!uacpi_initialize_tables, Life!uacpi_initialize_registers, Life!uacpi_initialize_opregion,
         Life!uacpi_initialize_interfaces, Life!uacpi_initialize_notify
<1>2. a6 \in Seq(S)
  BY DEF Things, Life!uacpi_initialize_namespace
<1>3. a3 \in Seq(S)
  <2>1. <<>> \in Seq(S) /\ <<"gpe_lock", "event_lock">> \in Seq(S)
    BY DEF Things
  <2> QED BY <2>1, Zenon DEF Life!uacpi_initialize_events_early
<1>4. Life!Subsystems(w) = a1 \o a2 \o a3 \o a4 \o a5 \o a6 \o a7
  BY DEF Life!Subsystems
<1> HIDE DEF S, a1, a2, a3, a4, a5, a6, a7
<1>5. Life!Subsystems(w) \in Seq(S)
  BY <1>1, <1>2, <1>3, <1>4
<1> QED BY <1>5 DEF Life!Taken, S

-----------------------------------------------------------------------------
(* What a reset gives back *)

\* An SCI that the host will not remove stays.
Stays == IF s.fw.removes THEN {} ELSE {"sci"}

LifeType ==
    /\ DOMAIN s = LifeFields
    /\ s.fw \in Firmwares
    /\ s.held \subseteq Things
    /\ s.plan \in Seq(ResetSteps)
    /\ s.late \in BOOLEAN /\ s.legacy \in BOOLEAN /\ s.wasLegacy \in BOOLEAN

\* While a reset runs, what it has not given back is still to come.
GivenBack ==
    /\ s.level = "early" => s.plan = <<>> /\ s.held \subseteq Stays
    /\ s.plan # <<>> => /\ s.level = "subsystem" /\ PlanOK(s.plan)
                        /\ s.held \ Stays \subseteq Members(s.plan)
SciHasBlocks == s.fw.removes => ~s.late /\ ("sci" \in s.held => "gpe_blocks" \in s.held)

\* The mode is left as it was found, or remembered; a reset restores it before it forgets.
ModeKept ==
    /\ s.wasLegacy => s.fw.smi /\ s.fw.obeys /\ ~s.fw.reduced /\ s.fw.legacy
    /\ ~s.wasLegacy => s.legacy = s.fw.legacy
    /\ s.level = "early" => ~s.wasLegacy
    /\ s.plan # <<>> /\ "mode" \notin Members(s.plan) => s.legacy = s.fw.legacy

ResetInv == LifeType /\ GivenBack /\ SciHasBlocks /\ ModeKept

\* The parts of the state that a reset is about
HeldPart == <<s.fw, s.held, s.plan, s.late, s.legacy, s.wasLegacy>>

LEMMA OthersKeepHeld ==
    ASSUME DOMAIN s = LifeFields,
           \/ Life!uacpi_namespace_initialize \/ Life!uacpi_finalize_gpe_initialization
           \/ \E sta \in {"present", "functioning", "absent", "error"} : Life!do_sta_ini(sta)
           \/ \E state \in States : Life!uacpi_prepare_for_sleep_state(state) \/ Life!uacpi_enter_sleep_state(state)
           \/ Life!Wake \/ Life!uacpi_prepare_for_wake_from_sleep_state \/ Life!uacpi_wake_from_sleep_state
           \/ Life!reboot
    PROVE  /\ DOMAIN s' = LifeFields /\ UNCHANGED HeldPart
           /\ (s'.level = s.level \/ (s.plan = <<>> /\ s.level # "early" /\ s'.level # "early"))
<1> DEFINE Goal == /\ DOMAIN s' = LifeFields /\ UNCHANGED HeldPart
                   /\ (s'.level = s.level \/ (s.plan = <<>> /\ s.level # "early" /\ s'.level # "early"))
<1> USE DEF LifeFields, HeldPart
<1>1. CASE Life!uacpi_namespace_initialize
  BY <1>1 DEF Life!uacpi_namespace_initialize, Life!Idle
<1>2. CASE Life!uacpi_finalize_gpe_initialization
  BY <1>2 DEF Life!uacpi_finalize_gpe_initialization, Life!Idle
<1>3. ASSUME NEW sta, Life!do_sta_ini(sta) PROVE Goal
  BY <1>3, SMTT(30) DEF Life!do_sta_ini
<1>4. ASSUME NEW state, Life!uacpi_prepare_for_sleep_state(state) PROVE Goal
  BY <1>4, ZenonT(60) DEF Life!uacpi_prepare_for_sleep_state
<1>5. ASSUME NEW state, Life!uacpi_enter_sleep_state(state) PROVE Goal
  <2>1. CASE s' = [s EXCEPT !.asked = 0]
    BY <2>1
  <2>2. CASE Life!enter_sleep_state_hw_full(state)
    <3>1. ASSUME NEW gpes, s' = [s EXCEPT !.gpes = gpes, !.asked = 0, !.failed = TRUE] PROVE Goal
      BY <3>1
    <3>2. ASSUME NEW power, s' = [s EXCEPT !.cnt = s.last, !.gpes = "wake", !.slept = state, !.power = power]
          PROVE  Goal
      BY <3>2
    <3>3. ASSUME s' = [s EXCEPT !.cnt = s.last, !.gpes = "wake", !.asked = 0, !.failed = TRUE] PROVE Goal
      BY <3>3
    <3> QED BY <2>2, <3>1, <3>2, <3>3, Zenon DEF Life!enter_sleep_state_hw_full
  <2>3. CASE Life!enter_sleep_state_hw_reduced(state)
    BY <2>3, ZenonT(60) DEF Life!enter_sleep_state_hw_reduced
  <2> QED BY <1>5, <2>1, <2>2, <2>3, Zenon DEF Life!uacpi_enter_sleep_state
<1>6. CASE Life!Wake
  BY <1>6 DEF Life!Wake
<1>7. CASE Life!uacpi_prepare_for_wake_from_sleep_state
  BY <1>7, ZenonT(60) DEF Life!uacpi_prepare_for_wake_from_sleep_state
<1>8. CASE Life!uacpi_wake_from_sleep_state
  BY <1>8, ZenonT(60) DEF Life!uacpi_wake_from_sleep_state
<1>9. CASE Life!reboot
  BY <1>9 DEF Life!reboot
<1> QED BY <1>1, <1>2, <1>3, <1>4, <1>5, <1>6, <1>7, <1>8, <1>9

LEMMA ResetInvInit == ASSUME Life!Init PROVE ResetInv
<1>1. PICK w \in Firmwares :
          s = [fw |-> w, level |-> "early", held |-> {}, plan |-> <<>>, boots |-> 0, late |-> FALSE,
                  legacy |-> w.legacy, wasLegacy |-> FALSE, at |-> 0, sta |-> <<>>, started |-> <<>>,
                  last |-> <<0, 0>>, s0 |-> <<0, 0>>, cnt |-> <<0, 0>>, gpes |-> "off", power |-> "on",
                  asked |-> 0, slept |-> 0, failed |-> FALSE]
  BY Zenon DEF Life!Init
<1>2. w.legacy \in BOOLEAN
  BY LifeAssumption
<1>3. DOMAIN s = LifeFields
  BY <1>1, Zenon DEF LifeFields
<1>4. /\ s.fw = w /\ s.level = "early" /\ s.held = {} /\ s.plan = <<>> /\ s.late = FALSE
      /\ s.legacy = w.legacy /\ s.wasLegacy = FALSE
  BY <1>1
<1>5. s.plan \in Seq(ResetSteps)
  BY <1>4
<1> QED BY <1>2, <1>3, <1>4, <1>5, Zenon DEF ResetInv, LifeType, GivenBack, SciHasBlocks, ModeKept

LEMMA InitializeKeepsBooks == ASSUME ResetInv, Life!uacpi_initialize PROVE ResetInv'
<1> DEFINE w == s.fw
           all == Life!Subsystems(w)
<1>1. PICK n \in 0 .. Len(all) :
          LET some == [s EXCEPT !.level = "subsystem", !.boots = s.boots + 1, !.held = s.held \cup Life!Taken(all, n),
                                   !.last = Life!INVALID, !.s0 = Life!INVALID]
          IN  s' = IF n < Len(all) THEN [some EXCEPT !.plan = Life!Reset] ELSE Life!enter_acpi_mode_initial(some)
  BY Zenon DEF Life!uacpi_initialize
<1>2. s.plan = <<>> /\ s.level = "early"
  BY DEF Life!uacpi_initialize, Life!Idle
<1>3. w \in Firmwares /\ w.legacy \in BOOLEAN /\ w.smi \in BOOLEAN /\ w.obeys \in BOOLEAN /\ w.reduced \in BOOLEAN
      /\ w.removes \in BOOLEAN /\ s.legacy = w.legacy /\ ~s.wasLegacy /\ s.wasLegacy \in BOOLEAN
  BY <1>2, LifeAssumption DEF ResetInv, LifeType, ModeKept
<1>4. Life!Taken(all, n) \subseteq Things \ {"sci"}
  BY <1>3, SubsystemsAreThings
<1> DEFINE took == Life!Taken(all, n)
           some == [s EXCEPT !.level = "subsystem", !.boots = s.boots + 1, !.held = s.held \cup took,
                                !.last = Life!INVALID, !.s0 = Life!INVALID]
           after == Life!enter_mode(some, FALSE)
<1>5. /\ DOMAIN some = LifeFields /\ some.fw = w /\ some.held = s.held \cup took /\ some.plan = <<>>
      /\ some.level = "subsystem" /\ some.late = s.late /\ some.legacy = w.legacy /\ some.wasLegacy = s.wasLegacy
  BY <1>2, <1>3 DEF ResetInv, LifeType, LifeFields
<1>6. \/ s' = [some EXCEPT !.plan = Life!Reset]
      \/ s' = [after EXCEPT !.wasLegacy = after.legacy # some.legacy]
  BY <1>1, Zenon DEF Life!enter_acpi_mode_initial
<1> HIDE DEF some, took
<1>7. /\ DOMAIN after = LifeFields /\ after.fw = w /\ after.held = some.held /\ after.plan = <<>>
      /\ after.level = "subsystem" /\ after.late = s.late
      /\ \/ after.legacy = w.legacy
         \/ after.legacy = FALSE /\ w.smi /\ w.obeys /\ ~w.reduced
  BY <1>3, <1>5, Zenon DEF LifeFields, Life!enter_mode, Life!set_mode
<1> HIDE DEF after
<1>8. \/ /\ s'.plan = Life!Reset /\ s'.legacy = w.legacy /\ s'.wasLegacy = FALSE
      \/ /\ s'.plan = <<>> /\ s'.legacy \in BOOLEAN /\ s'.wasLegacy \in BOOLEAN
         /\ s'.wasLegacy => w.smi /\ w.obeys /\ ~w.reduced /\ w.legacy
         /\ ~s'.wasLegacy => s'.legacy = w.legacy
  <2>1. CASE s' = [some EXCEPT !.plan = Life!Reset]
    BY <1>3, <1>5, <2>1 DEF LifeFields
  <2>2. CASE s' = [after EXCEPT !.wasLegacy = after.legacy # some.legacy]
    <3>1. s'.plan = <<>> /\ s'.legacy = after.legacy /\ s'.wasLegacy = (after.legacy # w.legacy)
      BY <1>5, <1>7, <2>2 DEF LifeFields
    <3> QED BY <1>3, <1>7, <3>1, Zenon
  <2> QED BY <1>6, <2>1, <2>2, Zenon
<1>9. /\ DOMAIN s' = LifeFields /\ s'.fw = w /\ s'.held = s.held \cup took /\ s'.level = "subsystem"
      /\ s'.late = s.late
  BY <1>5, <1>6, <1>7 DEF LifeFields
<1>10. s.held \subseteq Things /\ s.held \subseteq Stays /\ s.late \in BOOLEAN
  BY <1>2 DEF ResetInv, LifeType, GivenBack
<1>11. s'.plan \in Seq(ResetSteps) /\ (s'.plan # <<>> => s'.plan = Life!Reset)
  <2>1. <<>> \in Seq(ResetSteps)
    OBVIOUS
  <2> QED BY <1>8, <2>1, ResetOK, Zenon
<1>12. LifeType'
  BY <1>3, <1>4, <1>8, <1>9, <1>10, <1>11, Zenon DEF LifeType, took
<1>13. GivenBack'
  BY <1>4, <1>9, <1>10, <1>11, ResetOK DEF GivenBack, took
<1>14. SciHasBlocks'
  BY <1>4, <1>9, <1>10 DEF SciHasBlocks, Stays, ResetInv, took
<1>15. ModeKept'
  <2>1. "mode" \in Members(Life!Reset)
    BY ResetOK
  <2> QED BY <1>8, <1>9, <2>1, Zenon DEF ModeKept
<1> QED BY <1>12, <1>13, <1>14, <1>15 DEF ResetInv

LEMMA LoadKeepsBooks == ASSUME ResetInv, Life!uacpi_namespace_load PROVE ResetInv'
<1> DEFINE all == Life!uacpi_initialize_events(s.fw)
<1>1. s.plan = <<>> /\ s.level = "subsystem" /\ DOMAIN s = LifeFields /\ s.fw.reduced \in BOOLEAN
  BY LifeAssumption, Zenon DEF Life!uacpi_namespace_load, Life!Idle, ResetInv, LifeType
<1>2. ASSUME NEW n \in 0 .. Len(all)
      PROVE  Life!Taken(all, n) \subseteq Things /\ ("sci" \in Life!Taken(all, n) => "gpe_blocks" \in Life!Taken(all, n))
  <2>1. CASE s.fw.reduced
    BY <2>1 DEF Life!uacpi_initialize_events, Life!Taken
  <2>2. CASE ~s.fw.reduced
    <3>1. /\ all = <<"gpe_blocks", "sci", "global_lock_event", "global_lock_spinlock", "global_lock_handler">>
          /\ Len(all) = 5
      BY <2>2 DEF Life!uacpi_initialize_events
    <3>2. /\ all[1] = "gpe_blocks" /\ all[2] = "sci" /\ all[3] = "global_lock_event"
          /\ all[4] = "global_lock_spinlock" /\ all[5] = "global_lock_handler"
      BY <3>1
    <3> HIDE DEF all
    <3>3. \A i \in 1 .. n : (i = 1 \/ i = 2 \/ i = 3 \/ i = 4 \/ i = 5) /\ 1 \in 1 .. n
      BY <3>1
    <3> QED BY <3>2, <3>3, SMTT(30) DEF Life!Taken, Things
  <2> QED BY <1>1, <2>1, <2>2
<1>3. \E took \in SUBSET Things :
          /\ "sci" \in took => "gpe_blocks" \in took
          /\ \/ s' = [s EXCEPT !.held = s.held \cup took, !.plan = Life!Reset]
             \/ s' = [s EXCEPT !.held = s.held \cup took, !.level = "loaded"]
  <2>1. CASE s' = [s EXCEPT !.plan = Life!Reset]
    <3>1. s' = [s EXCEPT !.held = s.held \cup {}, !.plan = Life!Reset]
      BY <1>1, <2>1, Zenon DEF LifeFields
    <3> QED BY <3>1, Zenon
  <2>2. ASSUME NEW n \in 0 .. Len(all),
               \/ s' = [[s EXCEPT !.held = s.held \cup Life!Taken(all, n)] EXCEPT !.plan = Life!Reset]
               \/ s' = [[s EXCEPT !.held = s.held \cup Life!Taken(all, n)] EXCEPT !.level = "loaded"]
        PROVE  \E took \in SUBSET Things :
                   /\ "sci" \in took => "gpe_blocks" \in took
                   /\ \/ s' = [s EXCEPT !.held = s.held \cup took, !.plan = Life!Reset]
                      \/ s' = [s EXCEPT !.held = s.held \cup took, !.level = "loaded"]
    <3> DEFINE took == Life!Taken(all, n)
    <3>1. took \in SUBSET Things /\ ("sci" \in took => "gpe_blocks" \in took)
      BY <1>2
    <3>2. \/ s' = [s EXCEPT !.held = s.held \cup took, !.plan = Life!Reset]
          \/ s' = [s EXCEPT !.held = s.held \cup took, !.level = "loaded"]
      BY <2>2
    <3> HIDE DEF took
    <3> QED BY <3>1, <3>2, Zenon
  <2> QED BY <2>1, <2>2, Zenon DEF Life!uacpi_namespace_load
<1>4. PICK took \in SUBSET Things :
          /\ "sci" \in took => "gpe_blocks" \in took
          /\ \/ s' = [s EXCEPT !.held = s.held \cup took, !.plan = Life!Reset]
             \/ s' = [s EXCEPT !.held = s.held \cup took, !.level = "loaded"]
  BY <1>3, Zenon
<1>5. /\ DOMAIN s' = LifeFields /\ s'.held = s.held \cup took /\ s'.fw = s.fw /\ s'.late = s.late
      /\ s'.legacy = s.legacy /\ s'.wasLegacy = s.wasLegacy
  BY <1>1, <1>4, ZenonT(60) DEF LifeFields
<1>6. \/ s'.plan = Life!Reset /\ s'.level = "subsystem"
      \/ s'.plan = <<>> /\ s'.level = "loaded"
  BY <1>1, <1>4, ZenonT(60) DEF LifeFields
<1>7. LifeType'
  <2>1. <<>> \in Seq(ResetSteps)
    OBVIOUS
  <2>2. s'.plan \in Seq(ResetSteps)
    BY <1>6, <2>1, ResetOK, Zenon
  <2>3. s'.held \subseteq Things
    BY <1>5 DEF ResetInv, LifeType
  <2> QED BY <1>5, <2>2, <2>3, Zenon DEF ResetInv, LifeType
<1>8. GivenBack'
  <2>1. s'.held \subseteq Things
    BY <1>7 DEF LifeType
  <2> QED BY <1>6, <2>1, ResetOK DEF GivenBack
<1>9. SciHasBlocks'
  BY <1>4, <1>5 DEF ResetInv, SciHasBlocks
<1>10. ModeKept'
  <2>1. "mode" \in Members(Life!Reset)
    BY ResetOK
  <2> QED BY <1>1, <1>5, <1>6, <2>1 DEF ResetInv, ModeKept
<1> QED BY <1>7, <1>8, <1>9, <1>10, SMTT(30) DEF ResetInv

\* What is left of a sequence of steps
LEMMA PlanTail ==
    ASSUME NEW p \in Seq(ResetSteps), p # <<>>, PlanOK(p)
    PROVE  /\ Tail(p) \in Seq(ResetSteps) /\ PlanOK(Tail(p)) /\ Members(p) = {Head(p)} \cup Members(Tail(p))
           /\ Head(p) = "context" => Tail(p) = <<>>
           /\ Head(p) = "gpe_blocks" => "sci" \notin Members(p)
<1>1. Len(p) \in Nat \ {0} /\ Head(p) = p[1] /\ Tail(p) \in Seq(ResetSteps) /\ Len(Tail(p)) = Len(p) - 1
  OBVIOUS
<1>2. \A i \in 1 .. Len(Tail(p)) : Tail(p)[i] = p[i + 1] /\ i + 1 \in 1 .. Len(p)
  BY <1>1
<1>3. \A i \in 1 .. Len(p) : i = 1 \/ (i - 1 \in 1 .. Len(Tail(p)) /\ p[i] = Tail(p)[i - 1])
  BY <1>1
<1>4. 1 \in 1 .. Len(p)
  BY <1>1
<1>5. Members(p) \subseteq {Head(p)} \cup Members(Tail(p))
  BY <1>1, <1>3 DEF Members
<1>6. {Head(p)} \cup Members(Tail(p)) \subseteq Members(p)
  BY <1>1, <1>2, <1>4 DEF Members
<1>7. PlanOK(Tail(p))
  <2>1. ASSUME NEW i \in 1 .. Len(Tail(p)), Tail(p)[i] = "context" PROVE i = Len(Tail(p))
    <3>1. i + 1 = Len(p)
      BY <1>2, <2>1 DEF PlanOK
    <3>2. i \in Nat /\ Len(p) \in Nat /\ Len(Tail(p)) = Len(p) - 1
      BY <1>1
    <3> QED BY ONLY <3>1, <3>2
  <2>2. ASSUME NEW i \in 1 .. Len(Tail(p)), NEW j \in 1 .. Len(Tail(p)), Tail(p)[i] = "gpe_blocks", Tail(p)[j] = "sci"
        PROVE  j < i
    <3>1. j + 1 < i + 1
      BY <1>2, <2>2 DEF PlanOK
    <3> QED BY <1>1, <3>1
  <2> QED BY <2>1, <2>2 DEF PlanOK
<1>8. ASSUME Head(p) = "context" PROVE Tail(p) = <<>>
  <2>1. Len(p) = 1
    BY <1>1, <1>4, <1>8, Zenon DEF PlanOK
  <2>2. \A q \in Seq(ResetSteps) : Len(q) = 0 => q = <<>>
    OBVIOUS
  <2>3. Len(Tail(p)) = 0
    BY <1>1, <2>1
  <2> QED BY <1>1, <2>2, <2>3, Zenon
<1>9. ASSUME Head(p) = "gpe_blocks" PROVE "sci" \notin Members(p)
  <2>1. ASSUME NEW j \in 1 .. Len(p), p[j] = "sci" PROVE FALSE
    <3>1. j < 1
      BY <1>1, <1>4, <1>9, <2>1, Zenon DEF PlanOK
    <3> QED BY <1>1, <3>1, SMTT(30)
  <2> QED BY <2>1 DEF Members
<1> QED BY <1>1, <1>5, <1>6, <1>7, <1>8, <1>9

LEMMA ResetKeepsBooks == ASSUME ResetInv, Life!uacpi_state_reset PROVE ResetInv'
<1> DEFINE now == Head(s.plan)
           rest == [s EXCEPT !.plan = Tail(s.plan)]
           w == s.fw
<1>1. /\ s.plan # <<>> /\ s.plan \in Seq(ResetSteps) /\ DOMAIN s = LifeFields
      /\ s.level = "subsystem" /\ PlanOK(s.plan) /\ s.held \ Stays \subseteq Members(s.plan)
  BY Zenon DEF Life!uacpi_state_reset, ResetInv, LifeType, GivenBack
<1>2. /\ Tail(s.plan) \in Seq(ResetSteps) /\ PlanOK(Tail(s.plan))
      /\ Members(s.plan) = {now} \cup Members(Tail(s.plan))
      /\ now = "context" => Tail(s.plan) = <<>>
      /\ now = "gpe_blocks" => "sci" \notin Members(s.plan)
  BY <1>1, PlanTail
<1>3. /\ w \in Firmwares /\ w.legacy \in BOOLEAN /\ w.smi \in BOOLEAN /\ w.obeys \in BOOLEAN /\ w.reduced \in BOOLEAN
      /\ w.removes \in BOOLEAN /\ s.held \subseteq Things /\ s.late \in BOOLEAN /\ s.legacy \in BOOLEAN
      /\ s.wasLegacy \in BOOLEAN
  BY LifeAssumption DEF ResetInv, LifeType
<1>4. s' = CASE now = "mode" -> IF s.wasLegacy THEN Life!enter_mode(rest, TRUE) ELSE rest
                [] now = "sci" -> IF w.removes THEN [rest EXCEPT !.held = rest.held \ {"sci"}] ELSE rest
                [] now = "context" ->
                       [rest EXCEPT !.level = "early", !.wasLegacy = FALSE, !.last = <<0, 0>>, !.s0 = <<0, 0>>]
                [] OTHER -> [rest EXCEPT !.held = rest.held \ {now}]
  BY DEF Life!uacpi_state_reset
<1>5. /\ DOMAIN rest = LifeFields /\ rest.plan = Tail(s.plan) /\ rest.fw = w /\ rest.held = s.held
      /\ rest.late = s.late /\ rest.legacy = s.legacy /\ rest.wasLegacy = s.wasLegacy /\ rest.level = s.level
  BY <1>1 DEF LifeFields
<1> HIDE DEF now, rest
\* The four kinds of steps
<1>6. \/ /\ now = "mode"
         /\ s' = IF s.wasLegacy THEN Life!enter_mode(rest, TRUE) ELSE rest
      \/ now = "sci" /\ ~w.removes /\ s' = rest
      \/ /\ now = "context"
         /\ s' = [rest EXCEPT !.level = "early", !.wasLegacy = FALSE, !.last = <<0, 0>>, !.s0 = <<0, 0>>]
      \/ now \notin {"mode", "context"} /\ s' = [rest EXCEPT !.held = rest.held \ {now}]
  BY <1>3, <1>4, Zenon
<1>7. CASE now = "mode" /\ s' = IF s.wasLegacy THEN Life!enter_mode(rest, TRUE) ELSE rest
  <2>1. /\ DOMAIN s' = LifeFields /\ s'.plan = Tail(s.plan) /\ s'.fw = w /\ s'.held = s.held
        /\ s'.late = s.late /\ s'.wasLegacy = s.wasLegacy /\ s'.level = s.level
    BY <1>5, <1>7 DEF LifeFields, Life!enter_mode, Life!set_mode
  <2>2. s'.legacy = w.legacy
    <3>1. CASE s.wasLegacy
      <4>1. w.smi /\ w.obeys /\ ~w.reduced /\ w.legacy = TRUE
        BY <1>3, <3>1 DEF ResetInv, ModeKept
      <4>2. s' = Life!enter_mode(rest, TRUE)
        BY <1>7, <3>1
      <4> QED BY <1>3, <1>5, <4>1, <4>2, Zenon DEF LifeFields, Life!enter_mode, Life!set_mode, Life!read_mode
    <3>2. CASE ~s.wasLegacy
      BY <1>5, <1>7, <3>2 DEF ResetInv, ModeKept
    <3> QED BY <3>1, <3>2
  <2>3. LifeType'
    BY <1>2, <1>3, <2>1, <2>2, Zenon DEF LifeType
  <2>4. now \notin s.held
    BY <1>3, <1>7 DEF Things
  <2>5. GivenBack'
    BY <1>1, <1>2, <2>1, <2>4 DEF GivenBack, Stays
  <2>6. SciHasBlocks'
    BY <2>1, Zenon DEF ResetInv, SciHasBlocks
  <2>7. ModeKept'
    BY <1>1, <2>1, <2>2 DEF ResetInv, ModeKept
  <2> QED BY <2>3, <2>5, <2>6, <2>7 DEF ResetInv
<1>8. CASE now = "sci" /\ ~w.removes /\ s' = rest
  <2>1. LifeType'
    BY <1>2, <1>3, <1>5, <1>8, Zenon DEF LifeType
  <2>2. GivenBack'
    BY <1>1, <1>2, <1>5, <1>8 DEF GivenBack, Stays
  <2>3. SciHasBlocks'
    BY <1>5, <1>8, Zenon DEF ResetInv, SciHasBlocks
  <2>4. ModeKept'
    BY <1>1, <1>2, <1>5, <1>8 DEF ResetInv, ModeKept
  <2> QED BY <2>1, <2>2, <2>3, <2>4 DEF ResetInv
<1>9. CASE /\ now = "context"
           /\ s' = [rest EXCEPT !.level = "early", !.wasLegacy = FALSE, !.last = <<0, 0>>, !.s0 = <<0, 0>>]
  <2>1. /\ DOMAIN s' = LifeFields /\ s'.plan = <<>> /\ s'.fw = w /\ s'.held = s.held
        /\ s'.late = s.late /\ s'.legacy = s.legacy /\ s'.wasLegacy = FALSE /\ s'.level = "early"
    BY <1>2, <1>5, <1>9, Zenon DEF LifeFields
  <2>2. Members(s.plan) = {"context"}
    <3>1. Members(<<>>) = {}
      BY DEF Members
    <3> QED BY <1>2, <1>9, <3>1, Zenon
  <2>3. LifeType'
    BY <1>2, <1>3, <1>9, <2>1, Zenon DEF LifeType
  <2>4. s.held \subseteq Stays
    BY <1>1, <1>3, <2>2 DEF Things
  <2>5. GivenBack'
    BY <2>1, <2>4, Zenon DEF GivenBack, Stays
  <2>6. SciHasBlocks'
    BY <2>1, Zenon DEF ResetInv, SciHasBlocks
  <2>7. s.legacy = w.legacy
    BY <1>1, <2>2 DEF ResetInv, ModeKept
  <2>8. ModeKept'
    BY <2>1, <2>7, Zenon DEF ModeKept
  <2> QED BY <2>3, <2>5, <2>6, <2>8 DEF ResetInv
<1>10. CASE now \notin {"mode", "context"} /\ s' = [rest EXCEPT !.held = rest.held \ {now}]
  <2>1. /\ DOMAIN s' = LifeFields /\ s'.plan = Tail(s.plan) /\ s'.fw = w /\ s'.held = s.held \ {now}
        /\ s'.late = s.late /\ s'.legacy = s.legacy /\ s'.wasLegacy = s.wasLegacy
        /\ s'.level = s.level
    BY <1>5, <1>10 DEF LifeFields
  <2>2. s'.held \subseteq Things
    BY <1>3, <2>1
  <2>3. LifeType'
    BY <1>2, <1>3, <2>1, <2>2, Zenon DEF LifeType
  <2>4. GivenBack'
    BY <1>1, <1>2, <2>1 DEF GivenBack, Stays
  <2>5. SciHasBlocks'
    <3>1. w.removes /\ now = "gpe_blocks" => "sci" \notin s.held
      BY <1>1, <1>2, SMTT(30) DEF Stays
    <3> QED BY <2>1, <3>1 DEF ResetInv, SciHasBlocks
  <2>6. ModeKept'
    <3>1. "mode" \notin Members(Tail(s.plan)) => "mode" \notin Members(s.plan)
      BY <1>2, <1>10
    <3> QED BY <1>1, <2>1, <3>1 DEF ResetInv, ModeKept
  <2> QED BY <2>3, <2>4, <2>5, <2>6 DEF ResetInv
<1> QED BY <1>6, <1>7, <1>8, <1>9, <1>10, Zenon

LEMMA SciKeepsBooks == ASSUME ResetInv, Life!handle_sci PROVE ResetInv'
<1>1. DOMAIN s = LifeFields /\ s.late \in BOOLEAN /\ s.fw \in Firmwares
  BY DEF ResetInv, LifeType
<1>2. /\ DOMAIN s' = LifeFields /\ UNCHANGED <<s.fw, s.held, s.plan, s.legacy, s.wasLegacy, s.level>>
      /\ s'.late = (s.late \/ "gpe_blocks" \notin s.held) /\ "sci" \in s.held
  BY <1>1 DEF LifeFields, Life!handle_sci
<1>3. s.fw.removes => ~s'.late
  BY <1>1, <1>2, Zenon DEF ResetInv, SciHasBlocks
<1>4. s'.late \in BOOLEAN
  BY <1>2
<1>5. LifeType'
  BY <1>2, <1>4, Zenon DEF ResetInv, LifeType
<1>6. GivenBack' /\ ModeKept'
  BY <1>2, Zenon DEF ResetInv, GivenBack, ModeKept, Stays
<1>7. SciHasBlocks'
  BY <1>2, <1>3, Zenon DEF ResetInv, SciHasBlocks
<1> QED BY <1>5, <1>6, <1>7 DEF ResetInv

LEMMA ResetInvStep == ASSUME ResetInv, [Life!Next]_s PROVE ResetInv'
<1>1. DOMAIN s = LifeFields
  BY DEF ResetInv, LifeType
<1>2. CASE /\ DOMAIN s' = LifeFields /\ UNCHANGED HeldPart
           /\ (s'.level = s.level \/ (s.plan = <<>> /\ s.level # "early" /\ s'.level # "early"))
  <2>1. UNCHANGED <<s.fw, s.held, s.plan, s.late, s.legacy, s.wasLegacy>>
    BY <1>2 DEF HeldPart
  <2>2. LifeType'
    BY <1>2, <2>1, Zenon DEF ResetInv, LifeType
  <2>3. GivenBack' /\ ModeKept' /\ SciHasBlocks'
    BY <1>2, <2>1, Zenon DEF ResetInv, GivenBack, ModeKept, SciHasBlocks, Stays
  <2> QED BY <2>2, <2>3 DEF ResetInv
<1>3. CASE UNCHANGED s
  BY <1>3, Zenon DEF ResetInv, LifeType, GivenBack, ModeKept, SciHasBlocks, Stays
<1> QED
  BY <1>1, <1>2, <1>3, InitializeKeepsBooks, LoadKeepsBooks, ResetKeepsBooks, SciKeepsBooks, OthersKeepHeld, Zenon
     DEF Life!Next

-----------------------------------------------------------------------------
(* The order of the devices *)

LEMMA BelowIsAfter ==
    ASSUME NEW d \in Life!Devices, NEW e \in Life!Devices, Life!Below(d, e)
    PROVE  e <= d
<1> DEFINE S == {x \in Life!Devices : e <= x}
<1>1. Len(Parent) \in Nat /\ \A x \in Life!Devices : x \in Nat /\ Parent[x] \in Nat /\ Parent[x] < x
  BY LifeAssumption, SMTT(30) DEF Life!Devices
<1>2. S \in SUBSET Life!Devices /\ e \in S
  BY <1>1
<1>3. ASSUME NEW x \in Life!Devices, Parent[x] \in S PROVE x \in S
  <2>1. e <= Parent[x] /\ Parent[x] < x /\ e \in Nat /\ x \in Nat /\ Parent[x] \in Nat
    BY <1>1, <1>3
  <2> QED BY <2>1
<1> HIDE DEF S
<1>4. d \in S
  BY <1>2, <1>3, Zenon DEF Life!Below
<1> QED BY <1>4, SMTT(30) DEF S

LEMMA LeastOf ==
    ASSUME NEW S \in SUBSET Nat, S # {}
    PROVE  \E m \in S : \A k \in S : m <= k
<1> DEFINE R == OpToRel(<, Nat)
<1>1. \A x, y \in Nat : x < y => <<x, y>> \in R
  BY DEF OpToRel
<1>2. IsWellFoundedOn(R, Nat) /\ S \subseteq Nat /\ S # {}
  BY NatLessThanWellFounded, Zenon
<1> HIDE DEF R, IsWellFoundedOn
<1>3. PICK m \in S : \A k \in S : ~(<<k, m>> \in R)
  BY ONLY <1>2, WFMin, Zenon
<1>4. ASSUME NEW k \in S PROVE m <= k
  <2>1. ~(k < m)
    BY <1>1, <1>2, <1>3, Zenon
  <2> QED BY <1>2, <2>1
<1> QED BY <1>4

\* The walk goes on behind all that is below d.
LEMMA PeerIsBehind ==
    ASSUME NEW d \in Life!Devices
    PROVE  /\ Life!NextPeer(d) \in Nat /\ d < Life!NextPeer(d)
           /\ \A f \in Life!Devices : Life!NextPeer(d) <= f => ~Life!Below(f, d)
<1> DEFINE later == {e \in d + 1 .. Len(Parent) + 1 : e > Len(Parent) \/ ~Life!Below(e, d)}
           p == Life!NextPeer(d)
<1>1. Len(Parent) \in Nat /\ d \in Nat /\ d <= Len(Parent)
  BY LifeAssumption DEF Life!Devices
<1>2. later \in SUBSET Nat /\ Len(Parent) + 1 \in later
  BY <1>1
<1>3. p = CHOOSE e \in later : \A f \in later : e <= f
  BY DEF Life!NextPeer
<1> HIDE DEF p, later
<1>4. \E e \in later : \A f \in later : e <= f
  BY <1>2, LeastOf
<1>5. p \in later
  BY <1>3, <1>4, Zenon
<1>6. p \in Nat /\ d < p /\ (p <= Len(Parent) => ~Life!Below(p, d))
  <2>1. p \in d + 1 .. Len(Parent) + 1 /\ (p > Len(Parent) \/ ~Life!Below(p, d))
    BY <1>5, Zenon DEF later
  <2> QED BY <1>1, <2>1
<1>7. ASSUME NEW f \in Life!Devices, p <= f PROVE ~Life!Below(f, d)
  <2>1. f \in Nat /\ f <= Len(Parent)
    BY <1>1 DEF Life!Devices
  <2>2. p <= Len(Parent) /\ p \in Life!Devices /\ d <= p
    BY <1>1, <1>6, <1>7, <2>1 DEF Life!Devices
  <2>3. ~Life!Below(p, d)
    BY <1>6, <2>2
  <2>4. d <= p /\ p <= f /\ Life!Below(f, d) => Life!Below(p, d)
    BY <2>2, LifeAssumption, Zenon
  <2> QED BY <1>7, <2>2, <2>3, <2>4
<1> QED BY <1>6, <1>7 DEF p

\* The devices met so far lie before the place of the walk; those started are in order; the rest of
\* the walk, like what was met, has nothing below a device that is not there.
DeviceInv ==
    /\ s.at \in Nat /\ DOMAIN s.sta \subseteq Life!Devices /\ s.started \in Seq(Nat)
    /\ \A e \in DOMAIN s.sta : e < s.at
    /\ \A i \in 1 .. Len(s.started) : s.started[i] \in DOMAIN s.sta
    /\ \A i, j \in 1 .. Len(s.started) : i < j => s.started[i] < s.started[j]
    /\ \A e \in DOMAIN s.sta : s.sta[e] = "present" => \E j \in 1 .. Len(s.started) : s.started[j] = e
    /\ \A e \in DOMAIN s.sta : s.sta[e] = "absent" =>
           /\ \A f \in DOMAIN s.sta : Life!Below(f, e) => f = e
           /\ \A f \in Life!Devices : s.at <= f => ~Life!Below(f, e)

DevicePart == <<s.at, s.sta, s.started>>

LEMMA OthersKeepDevices ==
    ASSUME DOMAIN s = LifeFields,
           \/ Life!uacpi_initialize \/ Life!uacpi_namespace_load \/ Life!uacpi_finalize_gpe_initialization
           \/ Life!uacpi_state_reset \/ Life!handle_sci
           \/ \E state \in States : Life!uacpi_prepare_for_sleep_state(state) \/ Life!uacpi_enter_sleep_state(state)
           \/ Life!Wake \/ Life!uacpi_prepare_for_wake_from_sleep_state \/ Life!uacpi_wake_from_sleep_state
           \/ Life!reboot
    PROVE  UNCHANGED DevicePart
<1> USE DEF LifeFields, DevicePart
<1>1. CASE Life!uacpi_initialize
  <2> DEFINE all == Life!Subsystems(s.fw)
             some(n) == [s EXCEPT !.level = "subsystem", !.boots = s.boots + 1,
                                     !.held = s.held \cup Life!Taken(all, n),
                                     !.last = Life!INVALID, !.s0 = Life!INVALID]
  <2>1. PICK n \in 0 .. Len(all) : \/ s' = [some(n) EXCEPT !.plan = Life!Reset]
                                    \/ s' = Life!enter_acpi_mode_initial(some(n))
    BY <1>1, Zenon DEF Life!uacpi_initialize
  <2>2. PICK st : st = some(n)
    OBVIOUS
  <2>3. DOMAIN st = LifeFields /\ st.at = s.at /\ st.sta = s.sta /\ st.started = s.started
    BY <2>2
  <2>4. CASE s' = [st EXCEPT !.plan = Life!Reset]
    BY <2>3, <2>4
  <2>5. CASE s' = Life!enter_acpi_mode_initial(st)
    BY <2>3, <2>5, SMTT(30) DEF Life!enter_acpi_mode_initial, Life!enter_mode, Life!set_mode
  <2> QED BY <2>1, <2>2, <2>4, <2>5, Zenon
<1>2. CASE Life!uacpi_namespace_load
  BY <1>2, Zenon DEF Life!uacpi_namespace_load
<1>3. CASE Life!uacpi_finalize_gpe_initialization
  BY <1>3 DEF Life!uacpi_finalize_gpe_initialization
<1>4. CASE Life!uacpi_state_reset
  BY <1>4 DEF Life!uacpi_state_reset, Life!enter_mode, Life!set_mode
<1>5. CASE Life!handle_sci
  BY <1>5 DEF Life!handle_sci
<1>6. ASSUME NEW state, Life!uacpi_prepare_for_sleep_state(state) PROVE UNCHANGED DevicePart
  BY <1>6, Zenon DEF Life!uacpi_prepare_for_sleep_state
<1>7. ASSUME NEW state, Life!uacpi_enter_sleep_state(state) PROVE UNCHANGED DevicePart
  BY <1>7, ZenonT(60) DEF Life!uacpi_enter_sleep_state, Life!enter_sleep_state_hw_full, Life!enter_sleep_state_hw_reduced
<1>8. CASE Life!Wake \/ Life!reboot
  BY <1>8 DEF Life!Wake, Life!reboot
<1>9. CASE Life!uacpi_prepare_for_wake_from_sleep_state
  BY <1>9, Zenon DEF Life!uacpi_prepare_for_wake_from_sleep_state
<1>10. CASE Life!uacpi_wake_from_sleep_state
  BY <1>10, Zenon DEF Life!uacpi_wake_from_sleep_state
<1> QED BY <1>1, <1>2, <1>3, <1>4, <1>5, <1>6, <1>7, <1>8, <1>9, <1>10

LEMMA MeetKeepsOrder ==
    ASSUME DOMAIN s = LifeFields, DeviceInv, NEW sta, Life!do_sta_ini(sta)
    PROVE  DeviceInv'
<1> DEFINE d == s.at
           old == s.sta
           run == s.started
           next == IF sta = "absent" THEN Life!NextPeer(d) ELSE d + 1
<1>1. /\ s'.sta = [e \in DOMAIN old \cup {d} |-> IF e = d THEN sta ELSE old[e]]
      /\ s'.started = (IF sta = "present" THEN Append(run, d) ELSE run)
      /\ s'.at = next /\ d \in Life!Devices
  BY DEF LifeFields, Life!do_sta_ini, Life!Devices
<1>2. /\ DOMAIN old \subseteq Life!Devices /\ run \in Seq(Nat) /\ d \in Nat
      /\ \A e \in DOMAIN old : e < d
      /\ \A i \in 1 .. Len(run) : run[i] \in DOMAIN old
      /\ \A i, j \in 1 .. Len(run) : i < j => run[i] < run[j]
      /\ \A e \in DOMAIN old : old[e] = "present" => \E j \in 1 .. Len(run) : run[j] = e
      /\ \A e \in DOMAIN old : old[e] = "absent" =>
             /\ \A f \in DOMAIN old : Life!Below(f, e) => f = e
             /\ \A f \in Life!Devices : d <= f => ~Life!Below(f, e)
  BY DEF DeviceInv
<1>3. next \in Nat /\ d < next /\ (sta = "absent" => \A f \in Life!Devices : next <= f => ~Life!Below(f, d))
  BY <1>1, <1>2, PeerIsBehind
<1>4. PICK new : new = s'.sta
  OBVIOUS
<1>5. DOMAIN new = DOMAIN old \cup {d} /\ new[d] = sta /\ (\A e \in DOMAIN old : new[e] = old[e]) /\ d \notin DOMAIN old
  BY <1>1, <1>2, <1>4
<1>6. PICK went : went = s'.started
  BY SMTT(30)
<1>7. /\ went \in Seq(Nat)
      /\ \A i \in 1 .. Len(run) : i \in 1 .. Len(went) /\ went[i] = run[i]
      /\ \A i \in 1 .. Len(went) : i \in 1 .. Len(run) \/ (sta = "present" /\ i = Len(run) + 1 /\ went[i] = d)
      /\ sta = "present" => Len(run) + 1 \in 1 .. Len(went) /\ went[Len(run) + 1] = d
  BY <1>1, <1>2, <1>6
<1>8. \A f \in Life!Devices : f \in Nat
  BY <1>2 DEF Life!Devices
<1> HIDE DEF d, old, run, next
<1>9. \A e \in DOMAIN new : e < next
  <2> SUFFICES ASSUME NEW e \in DOMAIN new PROVE e < next
    OBVIOUS
  <2>1. e \in Nat /\ (e < d \/ e = d)
    BY <1>1, <1>2, <1>5, <1>8, Zenon
  <2> QED BY <1>2, <1>3, <2>1
<1>10. \A i \in 1 .. Len(went) : went[i] \in DOMAIN new
  BY <1>2, <1>5, <1>7, SMTT(30)
<1>11. \A i, j \in 1 .. Len(went) : i < j => went[i] < went[j]
  <2> SUFFICES ASSUME NEW i \in 1 .. Len(went), NEW j \in 1 .. Len(went), i < j PROVE went[i] < went[j]
    OBVIOUS
  <2>0. Len(run) \in Nat /\ i \in Nat /\ j \in Nat
    BY <1>2, <1>7
  <2>1. i \in 1 .. Len(run)
    BY <1>7, <2>0, SMTT(30)
  <2>2. CASE j \in 1 .. Len(run)
    BY <1>2, <1>7, <2>1, <2>2
  <2>3. CASE went[j] = d
    <3>1. went[i] = run[i] /\ run[i] \in DOMAIN old
      BY <1>2, <1>7, <2>1
    <3> QED BY <1>2, <2>3, <3>1
  <2> QED BY <1>7, <2>2, <2>3
<1>12. ASSUME NEW e \in DOMAIN new, new[e] = "present" PROVE \E j \in 1 .. Len(went) : went[j] = e
  <2>1. CASE e \in DOMAIN old
    <3>1. PICK j \in 1 .. Len(run) : run[j] = e
      BY <1>2, <1>5, <1>12, <2>1, SMTT(30)
    <3> QED BY <1>7, <3>1, SMTT(30)
  <2>2. CASE e = d
    BY <1>5, <1>7, <1>12, <2>2, SMTT(30)
  <2> QED BY <1>5, <2>1, <2>2
<1>13. ASSUME NEW e \in DOMAIN new, new[e] = "absent"
       PROVE  /\ \A f \in DOMAIN new : Life!Below(f, e) => f = e
              /\ \A f \in Life!Devices : next <= f => ~Life!Below(f, e)
  <2>1. CASE e \in DOMAIN old
    <3>1. old[e] = "absent"
      BY <1>5, <1>13, <2>1
    <3>2. ASSUME NEW f \in DOMAIN new, Life!Below(f, e) PROVE f = e
      <4>1. CASE f \in DOMAIN old
        BY <1>2, <2>1, <3>1, <3>2, <4>1, SMTT(30)
      <4>2. CASE f = d
        BY <1>1, <1>2, <2>1, <3>1, <3>2, <4>2, SMTT(30)
      <4> QED BY <1>5, <4>1, <4>2, SMTT(30)
    <3>3. ASSUME NEW f \in Life!Devices, next <= f PROVE ~Life!Below(f, e)
      <4>1. d <= f
        BY <1>2, <1>3, <1>8, <3>3
      <4> QED BY <1>2, <2>1, <3>1, <4>1
    <3> QED BY <3>2, <3>3, SMTT(30)
  <2>2. CASE e = d
    <3>1. sta = "absent"
      BY <1>5, <1>13, <2>2
    <3>2. ASSUME NEW f \in DOMAIN new, Life!Below(f, d) PROVE f = d
      <4>1. f \in Life!Devices /\ d \in Life!Devices
        BY <1>1, <1>2, <1>5, <3>2, SMTT(30)
      <4>2. d <= f
        BY <3>2, <4>1, BelowIsAfter, Zenon
      <4> QED BY <1>2, <1>5, <1>8, <4>1, <4>2, SMTT(30)
    <3> QED BY <1>3, <2>2, <3>1, <3>2
  <2> QED BY <1>5, <2>1, <2>2
<1>14. DOMAIN new \subseteq Life!Devices
  BY <1>1, <1>2, <1>5
<1>15. s'.at = next /\ s'.sta = new /\ s'.started = went
  BY <1>1, <1>4, <1>6
<1> QED BY <1>3, <1>7, <1>9, <1>10, <1>11, <1>12, <1>13, <1>14, <1>15, Zenon DEF DeviceInv

LEMMA DeviceInvInit == ASSUME Life!Init PROVE DeviceInv
<1>1. s.at = 0 /\ s.sta = <<>> /\ s.started = <<>>
  BY DEF Life!Init
<1> QED BY <1>1, SMTT(30) DEF DeviceInv

LEMMA DeviceInvStep ==
    ASSUME DOMAIN s = LifeFields, DeviceInv, [Life!Next]_s PROVE DeviceInv'
<1>1. CASE UNCHANGED DevicePart
  <2>1. UNCHANGED <<s.at, s.sta, s.started>>
    BY <1>1 DEF DevicePart
  <2> QED BY <2>1, Zenon DEF DeviceInv
<1>2. CASE UNCHANGED s
  BY <1>1, <1>2, Zenon DEF DevicePart
<1>3. CASE Life!uacpi_namespace_initialize
  <2>1. s'.sta = s.sta /\ s'.started = s.started /\ (s'.at = s.at \/ (s.at = 0 /\ s'.at = 1))
    BY <1>3 DEF LifeFields, Life!uacpi_namespace_initialize
  <2>2. CASE s'.at = s.at
    BY <1>1, <2>1, <2>2, Zenon DEF DevicePart
  <2>3. CASE s.at = 0 /\ s'.at = 1
    <3>1. DOMAIN s.sta = {}
      <4>1. \A e \in Life!Devices : ~(e < 0)
        BY DEF Life!Devices
      <4> QED BY <2>3, <4>1, Zenon DEF DeviceInv
    <3>2. 1 \in Nat
      OBVIOUS
    <3> QED BY <2>1, <2>3, <3>1, <3>2, Zenon DEF DeviceInv
  <2> QED BY <2>1, <2>2, <2>3
<1> QED
  BY <1>1, <1>2, <1>3, MeetKeepsOrder, OthersKeepDevices, Zenon DEF Life!Next

LEMMA DevicesOK == ASSUME DeviceInv PROVE Life!DevicesInOrder
<1> DEFINE run == s.started
           old == s.sta
<1>1. /\ DOMAIN old \subseteq Life!Devices /\ run \in Seq(Nat) /\ DOMAIN run = 1 .. Len(run) /\ Len(run) \in Nat
      /\ \A i \in 1 .. Len(run) : run[i] \in DOMAIN old /\ run[i] \in Nat
      /\ \A i, j \in 1 .. Len(run) : i < j => run[i] < run[j]
      /\ \A e \in DOMAIN old : old[e] = "present" => \E j \in 1 .. Len(run) : run[j] = e
      /\ \A e \in DOMAIN old : old[e] = "absent" => \A f \in DOMAIN old : Life!Below(f, e) => f = e
  BY SMTT(30) DEF DeviceInv
<1> HIDE DEF run, old
<1>2. ASSUME NEW i \in 1 .. Len(run), NEW j \in 1 .. Len(run), j # i PROVE run[j] # run[i]
  <2>1. i \in Nat /\ j \in Nat
    BY <1>1
  <2>2. i < j \/ j < i
    BY <1>2, <2>1
  <2>3. run[i] < run[j] \/ run[j] < run[i]
    BY <1>1, <2>2
  <2> QED BY <1>1, <2>3
<1>3. ASSUME NEW i \in 1 .. Len(run), NEW e \in DOMAIN old, Life!Below(run[i], e), e # run[i]
      PROVE  old[e] # "absent" /\ (old[e] = "present" => \E j \in 1 .. i - 1 : run[j] = e)
  <2>1. old[e] # "absent"
    BY <1>1, <1>3, Zenon
  <2>2. ASSUME old[e] = "present" PROVE \E j \in 1 .. i - 1 : run[j] = e
    <3>1. PICK j \in 1 .. Len(run) : run[j] = e
      BY <1>1, <2>2, Zenon
    <3>2. e <= run[i]
      BY <1>1, <1>3, BelowIsAfter
    <3>3. i \in Nat /\ j \in Nat /\ run[i] \in Nat /\ run[j] \in Nat /\ i # j
      BY <1>1, <1>3, <3>1
    <3>4. ~(i < j)
      <4>1. i < j => run[i] < run[j]
        BY <1>1
      <4> QED BY <3>1, <3>2, <3>3, <4>1
    <3>5. j \in 1 .. i - 1
      BY <3>3, <3>4, SMTT(30)
    <3> QED BY <3>1, <3>5
  <2> QED BY <2>1, <2>2
<1> QED BY <1>1, <1>2, <1>3, Zenon DEF Life!DevicesInOrder, run, old

-----------------------------------------------------------------------------
(* Sleep *)

\* These are the types of some state, which is this one unless its package holds no number.
GivenFor(types, state) ==
    \E other \in States : /\ other = state \/ Life!NoNumber(s.fw.sx[state])
                          /\ ~Life!NoNumber(s.fw.sx[other]) /\ types = Life!TypesIn(s.fw.sx[other])
Given(types) == \E other \in States : ~Life!NoNumber(s.fw.sx[other]) /\ types = Life!TypesIn(s.fw.sx[other])

SleepInv ==
    /\ s.asked \in States \cup {0} /\ s.slept \in States \cup {0}
    /\ s.fw.reduced => s.gpes = "off"
    /\ s.level # "finalized" => s.asked = 0 /\ s.slept = 0
    /\ s.level # "early" => s.last = Life!INVALID \/ Given(s.last)
    /\ s.asked # 0 /\ s.slept = 0 => s.last = Life!INVALID \/ GivenFor(s.last, s.asked)
    /\ s.power = "asleep" => s.slept # 0
    /\ s.slept # 0 /\ s.power # "on" =>
           GivenFor(s.cnt, s.slept) /\ s.gpes = IF s.fw.reduced THEN "off" ELSE "wake"
    /\ s.level = "finalized" /\ s.power = "on" /\ s.slept = 0 /\ ~s.failed /\ ~s.fw.reduced =>
           s.gpes = "runtime"

\* What _Sx says, as it is read
LEMMA TypesRead ==
    ASSUME NEW w, NEW state, NEW old, w.sx[state] \in Seq(Int)
    PROVE  LET found == Life!get_slp_type_for_state(w, state, old)
               p == w.sx[state]
           IN  \/ ~found.ok /\ found.types = Life!INVALID
               \/ found.ok /\ Life!NoNumber(p) /\ found.types = old
               \/ found.ok /\ ~Life!NoNumber(p) /\ found.types = Life!TypesIn(p)
<1> DEFINE p == w.sx[state]
           found == Life!get_slp_type_for_state(w, state, old)
<1>1. CASE Len(p) = 0
  BY <1>1, SMTT(30) DEF Life!get_slp_type_for_state
<1>2. CASE Len(p) = 1
  <2>1. p[1] \in Int
    BY <1>2
  <2>2. found = [ok |-> TRUE, types |-> IF p[1] < 0 THEN old ELSE <<p[1] % 256, (p[1] \div 256) % 256>>]
    BY <1>2 DEF Life!get_slp_type_for_state
  <2>3. Life!TypesIn(p) = <<p[1] % 256, (p[1] \div 256) % 256>>
    BY <1>2, SMTT(30) DEF Life!TypesIn
  <2> QED BY <1>2, <2>2, <2>3 DEF Life!NoNumber
<1>3. CASE Len(p) # 0 /\ Len(p) # 1
  <2>1. found = IF p[1] < 0 \/ p[2] < 0 THEN [ok |-> FALSE, types |-> Life!INVALID]
                ELSE [ok |-> TRUE, types |-> <<p[1] % 256, p[2] % 256>>]
    BY <1>3 DEF Life!get_slp_type_for_state
  <2>2. Life!TypesIn(p) = <<p[1] % 256, p[2] % 256>> /\ ~Life!NoNumber(p)
    BY <1>3 DEF Life!TypesIn, Life!NoNumber
  <2>3. \/ found.ok = FALSE /\ found.types = Life!INVALID
        \/ found.ok = TRUE /\ found.types = <<p[1] % 256, p[2] % 256>>
    BY <2>1
  <2> HIDE DEF found
  <2> QED BY <2>2, <2>3, Zenon DEF found
<1> QED BY <1>1, <1>2, <1>3, Zenon

LEMMA InvalidIsRefused == \E i \in 1 .. 2 : Life!INVALID[i] > Life!MaxType
<1>1. Life!INVALID[1] = 255 /\ 1 \in 1 .. 2
  BY DEF Life!INVALID
<1> QED BY <1>1 DEF Life!MaxType

\* Before sleep is possible the steps of the s cycle leave it alone.
LEMMA EarlyKeepsSleep ==
    ASSUME LifeType, GivenBack, SleepInv,
           \/ Life!uacpi_initialize \/ Life!uacpi_namespace_load \/ Life!uacpi_namespace_initialize
           \/ \E sta \in {"present", "functioning", "absent", "error"} : Life!do_sta_ini(sta)
           \/ Life!uacpi_state_reset \/ Life!handle_sci
    PROVE  SleepInv'
<1> DEFINE Goal ==
        /\ UNCHANGED <<s.fw, s.asked, s.slept, s.gpes, s.power, s.cnt, s.failed>>
        /\ \/ s'.level = s.level /\ s'.last = s.last
           \/ s.level # "finalized" /\ s'.level \notin {"early", "finalized"} /\ s'.last = Life!INVALID
           \/ s.level # "finalized" /\ s'.level = "early"
           \/ s.level \notin {"early", "finalized"} /\ s'.level \notin {"early", "finalized"} /\ s'.last = s.last
<1>1. DOMAIN s = LifeFields /\ (s.plan # <<>> => s.level = "subsystem")
  BY DEF LifeType, GivenBack
<1>2. ASSUME Life!uacpi_initialize PROVE Goal
  <2> DEFINE all == Life!Subsystems(s.fw)
             some(n) == [s EXCEPT !.level = "subsystem", !.boots = s.boots + 1,
                                     !.held = s.held \cup Life!Taken(all, n),
                                     !.last = Life!INVALID, !.s0 = Life!INVALID]
  <2>1. PICK n \in 0 .. Len(all) : \/ s' = [some(n) EXCEPT !.plan = Life!Reset]
                                    \/ s' = Life!enter_acpi_mode_initial(some(n))
    BY <1>2, Zenon DEF Life!uacpi_initialize
  <2>2. PICK st : st = some(n)
    OBVIOUS
  <2>3. /\ DOMAIN st = LifeFields /\ st.level = "subsystem" /\ st.last = Life!INVALID
        /\ st.fw = s.fw /\ st.asked = s.asked /\ st.slept = s.slept /\ st.gpes = s.gpes
        /\ st.power = s.power /\ st.cnt = s.cnt /\ st.failed = s.failed
    BY <1>1, <2>2, SMTT(30) DEF LifeFields
  <2>4. s.level # "finalized"
    BY <1>2, Zenon DEF Life!uacpi_initialize
  <2>5. ASSUME s' = [st EXCEPT !.plan = Life!Reset] PROVE Goal
    BY <2>3, <2>4, <2>5 DEF LifeFields
  <2>6. ASSUME s' = Life!enter_acpi_mode_initial(st) PROVE Goal
    BY <2>3, <2>4, <2>6, SMTT(30) DEF LifeFields, Life!enter_acpi_mode_initial, Life!enter_mode, Life!set_mode
  <2> QED BY <2>1, <2>2, <2>5, <2>6, Zenon
<1>3. ASSUME Life!uacpi_namespace_load PROVE Goal
  BY <1>1, <1>3, ZenonT(60) DEF LifeFields, Life!uacpi_namespace_load
<1>4. ASSUME Life!uacpi_namespace_initialize PROVE Goal
  BY <1>1, <1>4 DEF LifeFields, Life!uacpi_namespace_initialize
<1>5. ASSUME NEW sta, Life!do_sta_ini(sta) PROVE Goal
  BY <1>1, <1>5 DEF LifeFields, Life!do_sta_ini
<1>6. ASSUME Life!uacpi_state_reset PROVE Goal
  <2> DEFINE now == Head(s.plan)
             rest == [s EXCEPT !.plan = Tail(s.plan)]
  <2>1. s.level = "subsystem"
    BY <1>1, <1>6 DEF Life!uacpi_state_reset
  <2>2. \/ s' = rest
        \/ s' = Life!enter_mode(rest, TRUE)
        \/ s' = [rest EXCEPT !.level = "early", !.wasLegacy = FALSE, !.last = <<0, 0>>, !.s0 = <<0, 0>>]
        \/ \E x : s' = [rest EXCEPT !.held = rest.held \ {x}]
    BY <1>6, Zenon DEF Life!uacpi_state_reset
  <2>3. /\ DOMAIN rest = LifeFields /\ rest.level = s.level /\ rest.last = s.last
        /\ rest.fw = s.fw /\ rest.asked = s.asked /\ rest.slept = s.slept /\ rest.gpes = s.gpes
        /\ rest.power = s.power /\ rest.cnt = s.cnt /\ rest.failed = s.failed
    BY <1>1 DEF LifeFields
  <2> HIDE DEF rest
  <2>4. CASE s' = rest
    BY <2>3, <2>4, SMTT(30)
  <2>5. CASE s' = Life!enter_mode(rest, TRUE)
    BY <2>3, <2>5, SMTT(30) DEF LifeFields, Life!enter_mode, Life!set_mode
  <2>6. CASE s' = [rest EXCEPT !.level = "early", !.wasLegacy = FALSE, !.last = <<0, 0>>, !.s0 = <<0, 0>>]
    BY <2>1, <2>3, <2>6, SMTT(30) DEF LifeFields
  <2>7. ASSUME NEW x, s' = [rest EXCEPT !.held = rest.held \ {x}] PROVE Goal
    BY <2>3, <2>7, SMTT(30) DEF LifeFields
  <2> QED BY <2>2, <2>4, <2>5, <2>6, <2>7, Zenon
<1>7. ASSUME Life!handle_sci PROVE Goal
  BY <1>1, <1>7 DEF LifeFields, Life!handle_sci
<1>8. Goal
  BY <1>2, <1>3, <1>4, <1>5, <1>6, <1>7, Zenon
<1> QED BY <1>8, ZenonT(60) DEF SleepInv, Given, GivenFor

LEMMA SleepInvInit == ASSUME Life!Init PROVE SleepInv
<1>1. PICK w \in Firmwares :
          s = [fw |-> w, level |-> "early", held |-> {}, plan |-> <<>>, boots |-> 0, late |-> FALSE,
                  legacy |-> w.legacy, wasLegacy |-> FALSE, at |-> 0, sta |-> <<>>, started |-> <<>>,
                  last |-> <<0, 0>>, s0 |-> <<0, 0>>, cnt |-> <<0, 0>>, gpes |-> "off", power |-> "on",
                  asked |-> 0, slept |-> 0, failed |-> FALSE]
  BY Zenon DEF Life!Init
<1>2. s.level = "early" /\ s.asked = 0 /\ s.slept = 0 /\ s.gpes = "off" /\ s.power = "on"
  BY <1>1
<1> QED BY <1>2, Zenon DEF SleepInv

LEMMA FinalizeKeepsSleep ==
    ASSUME LifeType, SleepInv, Life!uacpi_finalize_gpe_initialization PROVE SleepInv'
<1>1. /\ UNCHANGED <<s.fw, s.asked, s.slept, s.last, s.power, s.cnt, s.failed>>
      /\ s.level = "initialized" /\ s'.level = "finalized"
      /\ s'.gpes = IF s.fw.reduced THEN s.gpes ELSE "runtime"
  BY DEF LifeType, LifeFields, Life!uacpi_finalize_gpe_initialization
<1> QED BY <1>1, Zenon DEF SleepInv, Given, GivenFor

LEMMA PrepareKeepsSleep ==
    ASSUME LifeType, SleepInv, NEW state \in States, Life!uacpi_prepare_for_sleep_state(state)
    PROVE  SleepInv'
<1> DEFINE found == Life!get_slp_type_for_state(s.fw, state, s.last)
<1>1. /\ UNCHANGED <<s.fw, s.level, s.slept, s.gpes, s.power, s.cnt, s.failed>>
      /\ s.level = "finalized" /\ s.slept = 0 /\ s'.last = found.types
      /\ s'.asked = 0 \/ (found.ok /\ s'.asked = state)
  BY ZenonT(60) DEF LifeType, LifeFields, Life!uacpi_prepare_for_sleep_state
<1>2. s.fw.sx[state] \in Seq(Int)
  BY LifeAssumption DEF LifeType
<1>3. \/ ~found.ok /\ found.types = Life!INVALID
      \/ found.ok /\ Life!NoNumber(s.fw.sx[state]) /\ found.types = s.last
      \/ found.ok /\ ~Life!NoNumber(s.fw.sx[state]) /\ found.types = Life!TypesIn(s.fw.sx[state])
  BY <1>2, TypesRead
<1>4. s.last = Life!INVALID \/ Given(s.last)
  BY <1>1, Zenon DEF SleepInv
<1> HIDE DEF found
<1>5. found.types = Life!INVALID \/ GivenFor(found.types, state)
  BY <1>3, <1>4, Zenon DEF Given, GivenFor
<1>6. found.types = Life!INVALID \/ Given(found.types)
  BY <1>5, Zenon DEF Given, GivenFor
<1> QED BY <1>1, <1>5, <1>6, ZenonT(60) DEF SleepInv, Given, GivenFor

LEMMA EnterKeepsSleep ==
    ASSUME LifeType, SleepInv, NEW state \in States, Life!uacpi_enter_sleep_state(state)
    PROVE  SleepInv'
<1>1. DOMAIN s = LifeFields /\ s.slept = 0 /\ s.asked = state /\ state # 0
  BY LifeAssumption DEF LifeType, Life!uacpi_enter_sleep_state
<1>2. s.level = "finalized" /\ (s.last = Life!INVALID \/ GivenFor(s.last, state))
  BY <1>1, Zenon DEF SleepInv
<1>3. CASE s' = [s EXCEPT !.asked = 0]
  <2>1. /\ UNCHANGED <<s.fw, s.level, s.slept, s.gpes, s.last, s.power, s.cnt, s.failed>>
        /\ s'.asked = 0
    BY <1>1, <1>3 DEF LifeFields
  <2> QED BY <2>1, Zenon DEF SleepInv, Given, GivenFor
<1>4. ASSUME ~(\E i \in 1 .. 2 : s.last[i] > Life!MaxType),
             \/ s.fw.reduced /\ Life!enter_sleep_state_hw_reduced(state)
             \/ ~s.fw.reduced /\ Life!enter_sleep_state_hw_full(state)
      PROVE  SleepInv'
  <2>1. GivenFor(s.last, state)
    BY <1>2, <1>4, InvalidIsRefused, Zenon
  <2>2. UNCHANGED <<s.fw, s.level, s.last>>
    BY <1>1, <1>4, ZenonT(60) DEF LifeFields, Life!enter_sleep_state_hw_reduced, Life!enter_sleep_state_hw_full
  <2>3. \/ /\ s'.asked = 0 /\ s'.slept = 0 /\ s'.power = s.power /\ s'.failed = TRUE
           /\ s.fw.reduced => s'.gpes = s.gpes
        \/ /\ s'.asked = s.asked /\ s'.slept = state /\ s'.cnt = s.last /\ s'.power \in {"off", "asleep"}
           /\ s'.gpes = IF s.fw.reduced THEN s.gpes ELSE "wake"
    BY <1>1, <1>4, Zenon DEF LifeFields, Life!enter_sleep_state_hw_reduced, Life!enter_sleep_state_hw_full
  <2> QED BY <1>1, <1>2, <2>1, <2>2, <2>3, ZenonT(60) DEF SleepInv, Given, GivenFor
<1> QED BY <1>3, <1>4, Zenon DEF Life!uacpi_enter_sleep_state

LEMMA WakeKeepsSleep ==
    ASSUME LifeType, SleepInv,
           \/ Life!Wake \/ Life!uacpi_prepare_for_wake_from_sleep_state \/ Life!uacpi_wake_from_sleep_state
           \/ Life!reboot
    PROVE  SleepInv'
<1>1. DOMAIN s = LifeFields
  BY DEF LifeType
<1>2. CASE Life!Wake
  <2>1. /\ UNCHANGED <<s.fw, s.level, s.asked, s.slept, s.gpes, s.last, s.cnt, s.failed>>
        /\ s.power = "asleep" /\ s'.power = "on"
    BY <1>1, <1>2 DEF LifeFields, Life!Wake
  <2> QED BY <2>1, Zenon DEF SleepInv, Given, GivenFor
<1>3. CASE Life!uacpi_prepare_for_wake_from_sleep_state
  <2>1. /\ UNCHANGED <<s.fw, s.level, s.slept, s.gpes, s.last, s.power, s.failed>>
        /\ s.power = "on" /\ s.slept # 0 /\ s'.asked = 0
    BY <1>1, <1>3, ZenonT(60) DEF LifeFields, Life!uacpi_prepare_for_wake_from_sleep_state, Life!Idle
  <2> QED BY <2>1, Zenon DEF SleepInv, Given, GivenFor
<1>4. CASE Life!uacpi_wake_from_sleep_state
  <2>1. /\ UNCHANGED <<s.fw, s.level, s.asked, s.power, s.cnt>>
        /\ s.power = "on" /\ s.asked = 0 /\ s'.slept = 0 /\ s'.last = Life!INVALID
        /\ \/ s'.gpes = (IF s.fw.reduced THEN s.gpes ELSE "runtime") /\ s'.failed = s.failed
           \/ ~s.fw.reduced /\ s'.failed = TRUE
    BY <1>1, <1>4, ZenonT(60) DEF LifeFields, Life!uacpi_wake_from_sleep_state, Life!Idle
  <2> QED BY <2>1, Zenon DEF SleepInv, Given, GivenFor
<1>5. CASE Life!reboot
  <2>1. /\ UNCHANGED <<s.fw, s.level, s.asked, s.slept, s.gpes, s.last, s.cnt, s.failed>>
        /\ s.slept = 0 /\ s'.power = "reset"
    BY <1>1, <1>5 DEF LifeFields, Life!reboot
  <2> QED BY <2>1, Zenon DEF SleepInv, Given, GivenFor
<1> QED BY <1>2, <1>3, <1>4, <1>5

LEMMA SleepInvStep == ASSUME ResetInv, SleepInv, [Life!Next]_s PROVE SleepInv'
<1>1. LifeType /\ GivenBack
  BY DEF ResetInv
<1>2. CASE UNCHANGED s
  BY <1>2, Zenon DEF SleepInv, Given, GivenFor
<1> QED
  BY <1>1, <1>2, EarlyKeepsSleep, FinalizeKeepsSleep, PrepareKeepsSleep, EnterKeepsSleep, WakeKeepsSleep, Zenon
     DEF Life!Next

-----------------------------------------------------------------------------

\* For any firmware, tree of devices and number of attempts: wherever initialisation fails, the reset
\* gives back all that was taken and restores the mode, in an order that an SCI in between survives
\* (uacpi_state_reset, uacpi_deinitialize_events); devices start once, after those above them, and
\* never below one that is absent (do_sta_ini); and the machine sleeps with the types its firmware
\* gives and the GPEs for wake (uacpi_enter_sleep_state).
THEOREM LifeIsInOrder == LifeSpec => []LifeInOrder
<1> DEFINE LifeInv == ResetInv /\ DeviceInv /\ SleepInv
<1>1. LifeInit => LifeInv
  BY ResetInvInit, DeviceInvInit, SleepInvInit DEF LifeInit
<1>2. LifeInv /\ [LifeNext]_<<part, s>> => LifeInv'
  <2>1. ResetInv => DOMAIN s = LifeFields
    BY DEF ResetInv, LifeType
  <2>2. [LifeNext]_<<part, s>> => [Life!Next]_s
    BY DEF LifeNext
  <2> QED BY <2>1, <2>2, ResetInvStep, DeviceInvStep, SleepInvStep, Zenon
<1>3. LifeInv => LifeInOrder
  <2> SUFFICES ASSUME LifeInv PROVE LifeInOrder
    OBVIOUS
  <2>1. Life!ResetUndoes
    BY Zenon DEF ResetInv, GivenBack, SciHasBlocks, ModeKept, Stays, Life!ResetUndoes
  <2>2. Life!DevicesInOrder
    BY DevicesOK
  <2>3. Life!SleepsAsPrepared
    BY Zenon DEF SleepInv, GivenFor, Life!SleepsAsPrepared
  <2> QED BY <2>1, <2>2, <2>3 DEF LifeInOrder
<1> QED BY <1>1, <1>2, <1>3, PTL DEF LifeSpec
=============================================================================
