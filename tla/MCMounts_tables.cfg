SPECIFICATION Spec
CONSTANTS
  MountIds = {m1, m2}
  Drives = {d}
  Drive <- OneDrive
  Callers = {command}
  Loops = {l1, l2}
  NoMount = none
  ReAuthentication = TRUE
  MaxInstances = 2
  MaxSaves = 1
INVARIANTS SignedOutIsUnmounted TablesAgree SavedIsQueued
SYMMETRY Interchangeable
CHECK_DEADLOCK FALSE
