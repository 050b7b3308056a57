SPECIFICATION Spec
CONSTANTS
  Options <- MCErrorOptions
  CtorSignals = FALSE
INVARIANT JoinSafeAlways
