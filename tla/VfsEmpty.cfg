CONSTANTS
    MAX_FILES = 4
    MAX_DATABLOCKS = 3
    INITIAL_CAPACITY = 5
    U32 = 16
    SIZE_MAX1 = 8
    Names = {a, b}
    Contents <- MCContentsWithEmpty
SPECIFICATION Spec
INVARIANT ReadsBack
\* after a write outside the arrays the model stops
CHECK_DEADLOCK FALSE
