SPECIFICATION Spec
CONSTANTS
  Main = 1
  Worker = 2
  Helpers <- MCHelpers
  Omp <- MCOmp
  FirstValues <- MCFirstValues
  Callers <- MCCallers
  MaxCalls = 3
  MaxScans = 2
  MaxLives = 1
INVARIANTS
  CallsCounted
  NoReentry
  NoSelfLock
  ReportsKept
  AnnouncedInOrder
PROPERTY ImplementsRegistry
