SPECIFICATION Spec
CONSTANTS
  Writers = {w1}
  MaxSaves = 2
  MaxEdits = 0
  MaxCrashes = 0
  MaxRevision = 3
  Events = {"overlap"}
INVARIANT ConfirmedIsUploaded
CHECK_DEADLOCK FALSE
