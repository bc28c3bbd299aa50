SPECIFICATION Spec
CHECK_DEADLOCK FALSE
CONSTANTS
    e1 = e1
    e2 = e2
    Exceptions <- MCExceptions
    NoActive = NoActive
    None = None
    MaxOpened = 4
    MaxDepth = 6
    Odd = {"leaves_try"}
INVARIANT CleanupOnce
