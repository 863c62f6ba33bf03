SPECIFICATION Spec
CONSTANTS
  Writers = {w1}
  MaxSaves = 2
  MaxEdits = 0
  MaxCrashes = 1
  MaxRevision = 4
  Events <- SingleSaves
INVARIANTS SavedContentSurvives ConfirmedIsUploaded
PROPERTY ServerNeverGoesBack
CHECK_DEADLOCK FALSE
