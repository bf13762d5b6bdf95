CONSTANTS
    HeapStart = 4
    HeapSize = 52
    Meta = 8
    Sizes = {0, 9, 21}
SPECIFICATION Spec
INVARIANTS LiveApart LiveHasBlock LinksConsistent ContentsKept HeapInOrder
