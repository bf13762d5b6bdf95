CONSTANTS
    HeapStart = 4
    HeapSize = 72
    Meta = 8
    Sizes = {3}
SPECIFICATION Spec
PROPERTY FreeReleases
