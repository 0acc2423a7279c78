CONSTANTS
  u1 = u1
  u2 = u2
  Uploads = {u1, u2}
  Archive = Archive
  Fresh = Fresh
  Nothing = Nothing
  NoFile = NoFile
  Torn = Torn
  MaxRows = 1
  MaxCrashes = 2
  MaxErrors = 1
SPECIFICATION Spec
INVARIANTS DirectoryOK Erased CopyFirst
PROPERTIES KeepsPromises ResetHappens
CHECK_DEADLOCK FALSE
