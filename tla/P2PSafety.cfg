SPECIFICATION Spec
CONSTANTS
  c1 = c1
  c2 = c2
  N = 2
  Handles = {c1, c2}
  Groups <- MCGroups
  Reuse = FALSE
  Sizes = {1}
  Buffers = {1, 2}
  MaxCalls = 3
SYMMETRY Symmetry
INVARIANTS
  TypeOK
  SentTrue
  Balanced
