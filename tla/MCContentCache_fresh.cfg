SPECIFICATION Spec
CONSTANTS
  Readers = {r1}
  MaxVersion = 2
  MaxRestarts = 1
INVARIANTS TagNotNewer LoadedIsCurrent
CHECK_DEADLOCK FALSE
