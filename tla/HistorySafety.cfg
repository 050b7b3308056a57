SPECIFICATION Spec
CONSTANTS
  Main = 2
  Worker = 3
  Helpers <- MCHelpers
  NodeCalls <- MCNodeCalls
  MaxStep = 3
INVARIANTS
  TypeOK
  RowsMatchSteps
  HwtSentOnce
