CONSTANTS
    Parts = {"deep"}
    FrameLimit = 8
    FrameSlots = 2
    Firmwares <- MCFirmwares
    States <- MCStates
    Parent <- MCParent
    MaxBoots = 2
SPECIFICATION MCSpec
INVARIANT PointersRefreshed
\* The program ends
CHECK_DEADLOCK FALSE
