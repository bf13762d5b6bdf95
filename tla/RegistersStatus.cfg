CONSTANTS
    Threads = {1}
    Parts = {"registers"}
    Device = d
    IrqOff = TRUE
    Aml = {"a", "b"}
    Api = {}
    MaxDepth = 2
    MaxSpins = 3
    MaxSeq = 2
    Waits = TRUE
    Regs = {"PM1_STS", "PM1_EN", "PM1_CNT", "RESET"}
    Bits = {"sci_en", "slp_typ", "trigger", "rsvd"}
    MaxMaps = 2
    Events <- MCEventIds
    Irqs = {1, 2}
    Sci = 1
    Devices = {"d1", "d2"}
    Gpe = gpe
    Registers = {"r1", "r2"}
    Emptying = FALSE
    Gpes = {0}
    MaxUsers = 2
    MaxWork = 2
    MaskCalls = {"enable", "disable", "finish", "install", "uninstall", "mask", "unmask"}
    HandlerCalls = {"enable", "disable", "finish", "install", "uninstall"}
SPECIFICATION MCSpec
INVARIANT OthersStayPending
