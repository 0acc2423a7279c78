CONSTANTS
  Items = 5
  Concurrency = 2
  GiveUp = 3
  Cancels = TRUE
SPECIFICATION Spec
INVARIANTS PipelineOK
PROPERTIES Delivers PassEnds
CHECK_DEADLOCK FALSE
