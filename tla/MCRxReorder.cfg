SPECIFICATION Spec
CONSTANTS
    Win = 2
    Bufs = 4
    SeqMax = 20
    FirstReal = 17
    MaxReal = 34
    MaxWork = 2
    Overflow = TRUE
INVARIANTS
    ReorderSound
    OrderKept
CHECK_DEADLOCK FALSE
