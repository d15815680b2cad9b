\* The sizes of the code; two blocks, one of them not at a page boundary.
SPECIFICATION Spec
CONSTANTS
    PageSize = 4096
    PageOffset = 1073741824
    ImageSize = 360960
    Blocks = {1073745920, 1090519072}
INVARIANTS
    MappedHeld
    RingInMapping
    DmaSafe
PROPERTIES
    NoClobber
