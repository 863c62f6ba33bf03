SPECIFICATION Spec
CONSTANTS
  Writers = {w1, w2}
  MaxSaves = 2
  MaxEdits = 2
  MaxCrashes = 0
  MaxRevision = 5
  Events <- ServerFaults
PROPERTIES NoSilentOverwrite ConflictsAreReal
CHECK_DEADLOCK FALSE
