CONSTANTS
  t1 = t1
  t2 = t2
  t3 = t3
  t4 = t4
  Tasks = {t1, t2, t3, t4}
  NoTask = NoTask
  Bare = {t4}
  Nesting = {t3}
  MaxGiveUps = 2
  MaxErrors = 1
SPECIFICATION Spec
INVARIANTS OneAtATime
PROPERTIES Whole Answers
CHECK_DEADLOCK FALSE
