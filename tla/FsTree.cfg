CONSTANTS
  n0 = n0  n1 = n1  n2 = n2  n3 = n3
  Node = {n0, n1, n2, n3}
  Root = n0
  Tmp = n1
  tmp = tmp a = a
  Name = {tmp, a}
  TmpName = tmp
  LongName = {}
  Absent = Absent
  PathLen = 3
  Target <- MCTarget
  MaxFileBytes = 1
  MaxTotalBytes = 1
  MaxFiles = 2
  MaxDepth = 2
  MaxSymlinkHops = 1
  StackDepth = 4
  MaxAliasedMoves = 1
SPECIFICATION Spec
INVARIANTS TypeOK TreeShape AllReachable AccountingExact QuotaHolds
PROPERTIES FailureKeepsTree ImplementsPathTree
CHECK_DEADLOCK FALSE
