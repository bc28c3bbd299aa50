SPECIFICATION Spec
CHECK_DEADLOCK FALSE
CONSTANTS
    Lines = 2
    MaxFiles = 3
    MaxFrames = 3
    MaxStreams = 4
    Odd = {}
INVARIANTS
    TypeOK
    LinesOnce
PROPERTY ImplementsDescriptor
