SPECIFICATION Spec
CONSTANTS
  MaxCommands = 5
  MaxLoopIterations = 1
  MaxTotalLoopIterations = 1
  MaxFunctionDepth = 1
  MaxNestingDepth = 4
  Constructs = {"subst"}
  Signals = {"ERR"}
  Faults = {}
  MaxScript = 2
  MaxHeight = 0
  MaxLevels = 1
  MaxCalls = 1
INVARIANT HandlerNotReentered
CHECK_DEADLOCK FALSE
