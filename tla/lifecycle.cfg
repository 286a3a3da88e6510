SPECIFICATION LiveSpec
CONSTANTS
    c1 = c1
    Collections <- OneCollection
    Options <- AllSetups
    BufferCap = 1
    MaxEvents = 1
    MaxRare = 1
INVARIANTS
    TypeOK
    LeavesNoRow
    RequestKept
    ChangesKept
PROPERTIES
    StopEndsStart
    CloseEndsStart
    Rejoins
    Served
    Flushed
    Unwound
