CONSTANTS
    Base = 1048576
    TotalPages = 7
    BitmapPages = 1
    CleanPages = 3
    Sizes = {1, 4096, 4097, 12288}
SPECIFICATION PmmFairSpec
INVARIANTS OwnedApart FirstFit
PROPERTY AllocReturns
