SPECIFICATION Spec
CONSTANTS
  MaxCommands = 2
  MaxLoopIterations = 2
  MaxTotalLoopIterations = 2
  MaxFunctionDepth = 1
  MaxNestingDepth = 1
  Constructs = {"seq", "and", "or", "pipe", "if", "while", "for", "func", "test"}
  Signals = {}
  Faults = {"cancelled", "denied"}
  MaxScript = 2
  MaxHeight = 1
  MaxLevels = 2
  MaxCalls = 1
PROPERTY CallsReturn
CHECK_DEADLOCK FALSE
