CONSTANTS
  n0 = n0  n1 = n1  n2 = n2  n3 = n3
  Node = {n0, n1, n2, n3}
  Root = n0
  Tmp = n1
  tmp = tmp a = a
  Name = {tmp, a}
  TmpName = tmp
  LongName = {}
  Absent = Absent
  PathLen = 2
  Target <- RootTarget
  MaxFileBytes = 1
  MaxTotalBytes = 2
  MaxFiles = 2
  MaxDepth = 2
  MaxSymlinkHops = 1
  StackDepth = 4
  MaxAliasedMoves = 1
SPECIFICATION Spec
INVARIANT NoSubtreeDetached
CHECK_DEADLOCK FALSE
