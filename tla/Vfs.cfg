CONSTANTS
    MAX_FILES = 4
    MAX_DATABLOCKS = 3
    INITIAL_CAPACITY = 5
    U32 = 16
    SIZE_MAX1 = 2
    Names = {a, b}
    Contents <- MCContents
SPECIFICATION Spec
INVARIANTS ReadsBack 
PROPERTY OtherFilesKept
\* after a write outside the arrays the model stops
CHECK_DEADLOCK FALSE
