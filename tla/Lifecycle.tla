------------------------------ MODULE Lifecycle -----------------------------
(***************************************************************************)
(* The life of uACPI in the kernel: initialisation and its failures           *)
(* (uacpi/uacpi.c), the switch between legacy and ACPI mode, the first visit  *)
(* to every device, sleep and wake (uacpi/sleep.c), reboot (cpu/power.c).     *)
(*                                                                           *)
(* held is what uACPI has taken from the host: locks, objects, the interrupt  *)
(* of the SCI.  Any allocation may fail, and any access to a register.  A     *)
(* reset gives back one thing after the other, and an SCI may come between.   *)
(* legacy, cnt, gpes and power are the hardware: its mode, the sleep types in *)
(* PM1_CNT, the GPEs enabled, and whether it runs.                            *)
(***************************************************************************)
EXTENDS Integers, Sequences

CONSTANTS
    Firmwares,  \* [legacy, smi, obeys, reduced, removes, sx]: the mode at boot, whether there is an
                \* SMI_CMD and it is obeyed, reduced hardware, whether the host removes a handler
                \* when asked to, and the package in \_Sx for each state: a number, or -1 for an
                \* element that is none
    States,     \* the sleep states used
    Parent,     \* the device above each one, numbered in the order of the walk; 0 for none
    MaxBoots    \* how often initialisation is tried

VARIABLE s

INVALID == <<255, 255>>
MaxType == 7

Init ==
    \E fw \in Firmwares :
        s = [fw |-> fw, level |-> "early", held |-> {}, plan |-> <<>>, boots |-> 0, late |-> FALSE,
             legacy |-> fw.legacy, wasLegacy |-> FALSE, at |-> 0, sta |-> <<>>, started |-> <<>>,
             last |-> <<0, 0>>, s0 |-> <<0, 0>>, cnt |-> <<0, 0>>, gpes |-> "off", power |-> "on",
             asked |-> 0, slept |-> 0, failed |-> FALSE]

-----------------------------------------------------------------------------
(* What each subsystem takes, in order, and gives back *)

uacpi_initialize_tables == <<"tables", "table_mutex">>
uacpi_deinitialize_tables == <<"tables", "table_mutex">>
uacpi_initialize_registers == <<"reg_lock">>
uacpi_deinitialize_registers == <<"reg_lock">>
uacpi_initialize_events_early(fw) == IF fw.reduced THEN <<>> ELSE <<"gpe_lock", "event_lock">>
uacpi_initialize_events(fw) ==
    IF fw.reduced THEN <<>>
    ELSE <<"gpe_blocks", "sci", "global_lock_event", "global_lock_spinlock", "global_lock_handler">>
BugDeinit == <<"gpe_blocks", "sci", "global_lock_handler", "gpe_lock", "event_lock">>
uacpi_deinitialize_events == <<"sci", "gpe_blocks", "global_lock_handler", "gpe_lock", "event_lock">>
uacpi_initialize_opregion == <<"opregion_lock">>
uacpi_deinitialize_opregion == <<"opregion_lock">>
uacpi_initialize_interfaces == <<"interface_mutex">>
uacpi_deinitialize_interfaces == <<"interface_mutex">>
uacpi_initialize_namespace == <<"namespace_lock", "root_object", "global_lock_mutex", "nodes">>
uacpi_deinitialize_namespace == <<"nodes", "root_object", "global_lock_mutex", "namespace_lock">>
uacpi_initialize_notify == <<"notify_mutex">>
uacpi_deinitialize_notify == <<"notify_mutex">>

Subsystems(fw) ==
    uacpi_initialize_tables \o uacpi_initialize_registers \o uacpi_initialize_events_early(fw)
    \o uacpi_initialize_opregion \o uacpi_initialize_interfaces \o uacpi_initialize_namespace
    \o uacpi_initialize_notify

Reset ==
    uacpi_deinitialize_namespace \o uacpi_deinitialize_interfaces \o uacpi_deinitialize_events
    \o uacpi_deinitialize_notify \o uacpi_deinitialize_opregion \o uacpi_deinitialize_tables \o <<"mode">>
    \o uacpi_deinitialize_registers \o <<"global_lock_event", "global_lock_spinlock", "context">>

-----------------------------------------------------------------------------
(* Modes *)

\* Without SMI_CMD the machine is taken to be in ACPI mode.
read_mode(st) == st.fw.smi /\ st.legacy

\* SMI_CMD asks the firmware to change the mode, which it does within five seconds, or not.
set_mode(st, legacy) == IF st.fw.smi /\ st.fw.obeys THEN [st EXCEPT !.legacy = legacy] ELSE st

enter_mode(st, legacy) == IF st.fw.reduced \/ read_mode(st) = legacy THEN st ELSE set_mode(st, legacy)

enter_acpi_mode_initial(st) ==
    LET after == enter_mode(st, FALSE)
    IN  [after EXCEPT !.wasLegacy = after.legacy # st.legacy]

-----------------------------------------------------------------------------
(* Initialisation *)

\* The first n of the things that a subsystem takes
Taken(all, n) == {all[i] : i \in 1 .. n}

Idle == s.plan = <<>> /\ s.power = "on"

\* All of it, or the steps up to an allocation that fails
uacpi_initialize ==
    /\ Idle /\ s.level = "early" /\ s.boots < MaxBoots
    /\ LET all == Subsystems(s.fw)
       IN  \E n \in 0 .. Len(all) :
               LET some == [s EXCEPT !.level = "subsystem", !.boots = @ + 1, !.held = @ \cup Taken(all, n),
                                     !.last = INVALID, !.s0 = INVALID]
               IN  s' = IF n < Len(all) THEN [some EXCEPT !.plan = Reset] ELSE enter_acpi_mode_initial(some)

\* The tables are loaded, with or without errors, and events set up.  The machine may have no
\* global lock; a DSDT that is missing and any other failure are fatal.
uacpi_namespace_load ==
    /\ Idle /\ s.level = "subsystem"
    /\ LET all == uacpi_initialize_events(s.fw)
       IN  \/ s' = [s EXCEPT !.plan = Reset]
           \/ \E n \in 0 .. Len(all) :
                  LET some == [s EXCEPT !.held = @ \cup Taken(all, n)]
                  IN  \/ n < Len(all) /\ s' = [some EXCEPT !.plan = Reset]
                      \/ n >= Len(all) - 1 /\ s' = [some EXCEPT !.level = "loaded"]

\* d is top, or below it: in every set that holds top and the devices below its members
Devices == 1 .. Len(Parent)
Below(d, top) ==
    \A S \in SUBSET Devices : top \in S /\ (\A e \in Devices : Parent[e] \in S => e \in S) => d \in S

\* The first device that comes after d and is not below it
NextPeer(d) ==
    LET later == {e \in d + 1 .. Len(Parent) + 1 : e > Len(Parent) \/ ~Below(e, d)}
    IN  CHOOSE e \in later : \A f \in later : e <= f

\* _STA is evaluated, then _INI if the device is there; an error of _STA goes on below it.
do_sta_ini(sta) ==
    /\ Idle /\ s.level = "loaded" /\ s.at \in 1 .. Len(Parent)
    /\ s' = [s EXCEPT !.sta = [e \in DOMAIN @ \cup {s.at} |-> IF e = s.at THEN sta ELSE @[e]],
                      !.started = IF sta = "present" THEN Append(@, s.at) ELSE @,
                      !.at = IF sta = "absent" THEN NextPeer(s.at) ELSE s.at + 1]

uacpi_namespace_initialize ==
    /\ Idle /\ s.level = "loaded"
    /\ \/ s.at = 0 /\ s' = [s EXCEPT !.at = 1]
       \/ s.at > Len(Parent) /\ s' = [s EXCEPT !.level = "initialized"]

\* The last call of acpi_init
uacpi_finalize_gpe_initialization ==
    /\ Idle /\ s.level = "initialized"
    /\ s' = [s EXCEPT !.level = "finalized", !.gpes = IF s.fw.reduced THEN @ ELSE "runtime"]

\* One step of a reset.  The context holds the last of it, and the level.
uacpi_state_reset ==
    /\ s.plan # <<>>
    /\ LET now == Head(s.plan)
           rest == [s EXCEPT !.plan = Tail(@)]
       IN  s' = CASE now = "mode" -> IF s.wasLegacy THEN enter_mode(rest, TRUE) ELSE rest
                  [] now = "sci" -> IF s.fw.removes THEN [rest EXCEPT !.held = @ \ {"sci"}] ELSE rest
                  [] now = "context" ->
                         [rest EXCEPT !.level = "early", !.wasLegacy = FALSE, !.last = <<0, 0>>, !.s0 = <<0, 0>>]
                  [] OTHER -> [rest EXCEPT !.held = @ \ {now}]

\* handle_sci looks through the GPE blocks that it was installed with.
handle_sci ==
    /\ "sci" \in s.held /\ s.power = "on"
    /\ s' = [s EXCEPT !.late = @ \/ "gpe_blocks" \notin s.held]

-----------------------------------------------------------------------------
(* Sleep *)

\* The package in \_Sx: two bytes, or one number of two bytes.  A single element that is not
\* a number is no error, and leaves the types that were there.
get_slp_type_for_state(fw, state, old) ==
    LET p == fw.sx[state]
    IN  CASE Len(p) = 0 -> [ok |-> FALSE, types |-> INVALID]
          [] Len(p) = 1 -> [ok |-> TRUE, types |-> IF p[1] < 0 THEN old ELSE <<p[1] % 256, (p[1] \div 256) % 256>>]
          [] OTHER -> IF p[1] < 0 \/ p[2] < 0 THEN [ok |-> FALSE, types |-> INVALID]
                      ELSE [ok |-> TRUE, types |-> <<p[1] % 256, p[2] % 256>>]

\* asked is the state that the host goes on to enter, 0 if the preparation failed.
uacpi_prepare_for_sleep_state(state) ==
    /\ Idle /\ s.level = "finalized" /\ s.slept = 0
    /\ LET found == get_slp_type_for_state(s.fw, state, s.last)
           ready == [s EXCEPT !.last = found.types, !.s0 = get_slp_type_for_state(s.fw, 0, s.s0).types]
       IN  \/ ~found.ok /\ s' = [s EXCEPT !.last = found.types, !.asked = 0]
           \/ found.ok /\ \E pts \in BOOLEAN : s' = [ready EXCEPT !.asked = IF pts THEN state ELSE 0]

\* The way to sleep: clear WAK_STS, disable the GPEs, clear them, enable those for wake, read
\* PM1_CNT, write the types, then with SLP_EN.  Any of the accesses may fail.  Beyond S3 the machine
\* is off, or does not react within ten seconds.
enter_sleep_state_hw_full(state) ==
    \/ \E gpes \in {"mixed", "off", "wake"} : s' = [s EXCEPT !.gpes = gpes, !.asked = 0, !.failed = TRUE]
    \/ s' = [s EXCEPT !.cnt = s.last, !.gpes = "wake", !.slept = state, !.power = IF state > 3 THEN "off" ELSE "asleep"]
    \/ state > 3 /\ s' = [s EXCEPT !.cnt = s.last, !.gpes = "wake", !.asked = 0, !.failed = TRUE]

\* There are no GPEs, and one register for type and enable bit, which is polled until the machine wakes.
enter_sleep_state_hw_reduced(state) ==
    \/ s' = [s EXCEPT !.asked = 0, !.failed = TRUE]
    \/ s' = [s EXCEPT !.cnt = s.last, !.slept = state, !.power = IF state > 3 THEN "off" ELSE "asleep"]

uacpi_enter_sleep_state(state) ==
    /\ Idle /\ s.asked = state /\ s.slept = 0
    /\ IF \E i \in 1 .. 2 : s.last[i] > MaxType THEN s' = [s EXCEPT !.asked = 0]
       ELSE IF s.fw.reduced THEN enter_sleep_state_hw_reduced(state) ELSE enter_sleep_state_hw_full(state)

\* Something wakes the machine, and WAK_STS is set.
Wake == s.power = "asleep" /\ s' = [s EXCEPT !.power = "on"]

\* The types of S0 are written if they are known; failure is ignored.
uacpi_prepare_for_wake_from_sleep_state ==
    /\ Idle /\ s.slept # 0 /\ s.asked # 0
    /\ \E ok \in BOOLEAN : s' = [s EXCEPT !.asked = 0, !.cnt = IF s.s0 # INVALID /\ ok THEN s.s0 ELSE @]

\* The sleep types are forgotten; all GPEs are disabled, then those for running enabled.
uacpi_wake_from_sleep_state ==
    /\ Idle /\ s.slept # 0 /\ s.asked = 0
    /\ LET awake == [s EXCEPT !.last = INVALID, !.slept = 0]
       IN  \/ s' = [awake EXCEPT !.gpes = IF s.fw.reduced THEN @ ELSE "runtime"]
           \/ \E gpes \in {"mixed", "off"} : ~s.fw.reduced /\ s' = [awake EXCEPT !.gpes = gpes, !.failed = TRUE]

\* The reset register of the FADT resets the machine, or nothing happens within a second.
uacpi_reboot == IF s.level = "early" THEN {"on"} ELSE {"on", "reset"}

\* ... and if so the keyboard controller does, or a triple fault.
reboot == Idle /\ s.slept = 0 /\ \E power \in uacpi_reboot : s' = [s EXCEPT !.power = "reset"]

Next ==
    \/ uacpi_initialize \/ uacpi_namespace_load \/ uacpi_namespace_initialize
    \/ \E sta \in {"present", "functioning", "absent", "error"} : do_sta_ini(sta)
    \/ uacpi_finalize_gpe_initialization \/ uacpi_state_reset \/ handle_sci
    \/ \E state \in States : uacpi_prepare_for_sleep_state(state) \/ uacpi_enter_sleep_state(state)
    \/ Wake \/ uacpi_prepare_for_wake_from_sleep_state \/ uacpi_wake_from_sleep_state \/ reboot

Spec == Init /\ [][Next]_s

-----------------------------------------------------------------------------
(* Properties *)

\* Wherever initialisation fails, the reset gives back all that was taken and leaves the machine
\* in the mode it was found in; and no SCI runs on GPE blocks that are gone, if the host removes
\* the handler when it is asked to.
ResetUndoes ==
    /\ s.fw.removes => ~s.late
    /\ s.level = "early" => s.held \subseteq (IF s.fw.removes THEN {} ELSE {"sci"}) /\ s.legacy = s.fw.legacy

\* A device is started once, after the devices above it that are there, and never below one that is
\* neither present nor functioning.
DevicesInOrder ==
    \A i \in DOMAIN s.started : LET d == s.started[i] IN
        /\ \A j \in DOMAIN s.started : j # i => s.started[j] # d
        /\ \A e \in DOMAIN s.sta : Below(d, e) /\ e # d =>
               /\ s.sta[e] # "absent"
               /\ s.sta[e] = "present" => \E j \in 1 .. i - 1 : s.started[j] = e

\* The bytes in a package of \_Sx
TypesIn(p) == LET n == IF Len(p) = 1 THEN <<p[1], p[1] \div 256>> ELSE <<p[1], p[2]>> IN <<n[1] % 256, n[2] % 256>>
NoNumber(p) == Len(p) = 1 /\ p[1] < 0

\* The machine sleeps with the types that the firmware gives for the state the host asked for, or for
\* another one if they are no number, and with the GPEs for wake; whenever it is not on the way to sleep or back, those for running are enabled,
\* unless an access to a register has failed.
SleepsAsPrepared ==
    /\ s.slept # 0 /\ s.power # "on" =>
           /\ \E state \in States : /\ state = s.slept \/ NoNumber(s.fw.sx[s.slept])
                                    /\ ~NoNumber(s.fw.sx[state]) /\ s.cnt = TypesIn(s.fw.sx[state])
           /\ s.gpes = IF s.fw.reduced THEN "off" ELSE "wake"
    /\ s.level = "finalized" /\ s.power = "on" /\ s.slept = 0 /\ ~s.failed /\ ~s.fw.reduced => s.gpes = "runtime"
=============================================================================
