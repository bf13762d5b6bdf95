CONSTANTS
    Parts = {"tables", "regions", "names", "life", "code", "mutexes", "fields"}
    FrameLimit = 3
    FrameSlots = 4
    Firmwares <- MCFirmwares
    States <- MCStates
    Parent <- MCParent
    MaxBoots = 2
SPECIFICATION MCSpec
INVARIANTS TablesKept    CodeIsFollowed  FieldsExact
\* Programs, loads and jobs end, and so does a machine that is switched off
CHECK_DEADLOCK FALSE
