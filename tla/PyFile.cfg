SPECIFICATION Spec
CHECK_DEADLOCK FALSE
CONSTANTS
    g1 = g1
    g2 = g2
    Programs <- MCPrograms
    p1 = p1
    p2 = p2
    Paths <- MCPaths
    MaxHandles = 2
    MaxLines = 2
    Missing = Missing
    Idle = Idle
    Odd = {}
SYMMETRY Interchangeable
INVARIANT TypeOK
PROPERTY ImplementsOpenFiles
