CONSTANTS
  MaxRuns = 2
  MaxAsked = 2
  HistorySize = 3
  QueueSize = 2
  Scenes <- EachScene
SPECIFICATION Spec
INVARIANTS ChatOK UndisturbedAccepted
PROPERTIES OutcomeKept AllEnds
CHECK_DEADLOCK FALSE
