--------------------------------- MODULE Pci --------------------------------
(***************************************************************************)
(* The table of PCI drivers and the scan that starts them                    *)
(* (drivers/x86/pci.c).  A function is <<bus, device, function>>.            *)
(***************************************************************************)
EXTENDS Integers, Sequences

CONSTANTS
    Buses, Devices, Functions, \* 256, 32 and 8 in the code
    Classes,                   \* pairs of class and subclass
    MaxDevices, MaxDrivers     \* lengths of the two tables

VARIABLE s

Places == (0 .. Buses - 1) \X (0 .. Devices - 1) \X (0 .. Functions - 1)

Init ==
    \E present \in SUBSET Places, class \in [Places -> Classes] :
        s = [present |-> present, class |-> class, drivers |-> <<>>, devices |-> <<>>,
             at |-> <<0, 0, 0>>, scanning |-> FALSE, dropped |-> FALSE,
             started |-> [c \in (1 .. MaxDrivers) \X Places |-> 0]]

\* A driver registers before the scan; a full table drops it silently.
reg(class) ==
    /\ ~s.scanning /\ s.at = <<0, 0, 0>>
    /\ s' = IF Len(s.drivers) < MaxDrivers THEN [s EXCEPT !.drivers = Append(@, class)]
            ELSE [s EXCEPT !.dropped = TRUE]

\* Every driver of the class is called, also for a device the table has no room for;
\* started counts how often the driver in a slot was called for a function.
Called(f) == {i \in DOMAIN s.drivers : s.drivers[i] = s.class[f]} \X {f}
Calls(f) == [c \in DOMAIN s.started |-> s.started[c] + (IF c \in Called(f) THEN 1 ELSE 0)]
Bug__pci_launch(f) ==
    IF Len(s.devices) < MaxDevices
    THEN [s EXCEPT !.devices = Append(@, f), !.started = Calls(f)] ELSE s
__pci_launch(f) ==
    [s EXCEPT !.devices = IF Len(@) < MaxDevices THEN Append(@, f) ELSE @, !.started = Calls(f)]

\* The three loops: functions are looked at behind a present function 0 only.
After(f) ==
    IF f[3] + 1 < Functions /\ <<f[1], f[2], 0>> \in s.present THEN <<f[1], f[2], f[3] + 1>>
    ELSE IF f[2] + 1 < Devices THEN <<f[1], f[2] + 1, 0>>
    ELSE <<f[1] + 1, 0, 0>>

initworkspace ==
    /\ s.at[1] < Buses
    /\ s' = [(IF s.at \in s.present THEN __pci_launch(s.at) ELSE s) EXCEPT
               !.at = After(s.at), !.scanning = TRUE]

Next == (\E c \in Classes : reg(c)) \/ initworkspace

Spec == Init /\ [][Next]_s

-----------------------------------------------------------------------------

\* When the scan is over, a driver has been started once for every function of its
\* class behind a present function 0, and for nothing else.
StartedOnce ==
    s.at[1] = Buses =>
        \A i \in DOMAIN s.drivers, f \in Places :
            s.started[<<i, f>>]
            = (IF {f, <<f[1], f[2], 0>>} \subseteq s.present /\ s.class[f] = s.drivers[i] THEN 1 ELSE 0)
=============================================================================
