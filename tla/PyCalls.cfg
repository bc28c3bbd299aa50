SPECIFICATION Spec
CHECK_DEADLOCK FALSE
CONSTANTS
    lib = lib
    other = other
    Names <- MCNames
    None = None
    MaxRecursionDepth = 2
    MaxInstructions = 7
    MaxObjects = 3
INVARIANTS
    TypeOK
    CountersExact
    WorkOnce
    AwaitersAgree
    ExhaustedIsFinal
    ModuleOnce
    CompletionsAttempted
PROPERTY RunEnds
