SPECIFICATION FairSpec
CONSTANTS
  Options <- MCOptions
  CtorSignals = FALSE
INVARIANTS
  TypeOK
  SummaryAfterWorker
  MembersOutliveWorker
  JoinSafe
PROPERTIES
  ImplementsSession
  ShutdownEnds
  HandledSignalEnds
  AbortHonoured
