CONSTANTS
    KBD_BUF = 2
    LineSize = 2
    Keys = {"shift", "caps", "letter", "enter", "back"}
    Parts = {"typist", "interrupts", "timer", "paging", "nvme", "ext2", "pci", "terminal"}
    Madts <- MCMadts
    MaxEntries = 4
    IrqSlots = {0, 1}
    Pins <- MCPins
    Handlers = {"g", "h"}
    Periods = {2, 3}
    MaxSleep = 2
    MaxWait = 4
    MaxTicks = 4
    Width = 2
    Depth = 4
    PageBytes = 2
    Frames <- MCFrames
    Ram <- MCRam
    Hhdm = 8
    KernelVirt = 14
    KernelPhys = 0
    RoPages = 1
    RwPages = 1
    MaxPhys = 6
    N = 3
    Lbas = {0}
    Data = {x, y}
    MaxPages = 1
    Base = 4
    OldInode = 1
    OldFirst = 2
    DescSize = 1
    Direct = 2
    Disks <- MCDisks
    MaxMounts = 1
    Buses = 1
    Devices = 2
    Functions = 2
    Classes = {"nvme", "vga"}
    MaxDevices = 2
    MaxDrivers = 2
SYMMETRY Swap
SPECIFICATION MCSpec
INVARIANTS  InterruptsSafe TimerRestored TranslationAgrees SuccessIsTrue
      StartedOnce 
\* The walk over a bad MADT, a controller that fails and a scan that is over stop
CHECK_DEADLOCK FALSE
