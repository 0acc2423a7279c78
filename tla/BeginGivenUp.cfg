CONSTANTS
  t1 = t1
  t2 = t2
  t3 = t3
  t4 = t4
  Tasks = {t1, t2, t4}
  NoTask = NoTask
  Bare = {t4}
  Nesting = {}
  MaxGiveUps = 1
  MaxErrors = 0
SPECIFICATION Spec
INVARIANT BeginAlone
CHECK_DEADLOCK FALSE
