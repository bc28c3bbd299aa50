CONSTANTS
  s1 = s1 s2 = s2
  Script = {s1, s2}
  n1 = n1 n2 = n2
  BrowserName = {n1}
  b1 = b1 b2 = b2 b3 = b3
  Browser = {b1, b2}
  c1 = c1 c2 = c2 c3 = c3
  Context = {}
  None = None
  MaxContexts = 1
  Around = {"dispose"}
SPECIFICATION FairSpec
PROPERTY WaiterAnswered
CHECK_DEADLOCK FALSE
