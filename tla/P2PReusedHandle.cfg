SPECIFICATION Spec
CONSTANTS
  c1 = c1
  c2 = c2
  N = 2
  Handles = {c1}
  Groups <- MCMoreGroups
  Reuse = TRUE
  Sizes = {1}
  Buffers = {1}
  MaxCalls = 3
INVARIANT SentAsLogged
