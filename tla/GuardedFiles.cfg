CONSTANTS
  FileIds = {f1, f2}
  Docs = {d1, d2, d3}
  NoDoc = NoDoc
  NoFile = NoFile
  MaxTouches = 2
  MaxFaults = 1
SPECIFICATION Spec
SYMMETRY Alike
INVARIANTS TypeOK OneFrameAfterSwitchOff
PROPERTIES GuardedReplace ReplacesWhatItSaw SelectedGoesByRaceOnly
