SPECIFICATION Spec
CONSTANTS
  MaxCommands = 2
  MaxLoopIterations = 1
  MaxTotalLoopIterations = 1
  MaxFunctionDepth = 1
  MaxNestingDepth = 3
  Constructs = {"for", "seq", "subshell", "func", "eval", "alias", "isolated", "subst"}
  Signals = {"EXIT", "ERR", "DEBUG"}
  Faults = {"timedout", "syntax", "denied"}
  MaxScript = 1
  MaxHeight = 1
  MaxLevels = 1
  MaxCalls = 2
INVARIANTS TypeOK DepthsBalanced ScopesBalanced FlagsHonest StatusReported
CHECK_DEADLOCK FALSE
