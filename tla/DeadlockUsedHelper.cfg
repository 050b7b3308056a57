SPECIFICATION Spec
CONSTANTS
  h1 = h1
  h2 = h2
  Main = main
  Helpers <- MCHelpers
  Spaced = {}
  Duration = 2
  MaxFaults = 2
SYMMETRY Symmetry
INVARIANT StuckReportedAsDocumented
