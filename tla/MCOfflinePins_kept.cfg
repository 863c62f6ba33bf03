SPECIFICATION PinsSpec
CONSTANTS
  A = A
  B = B
  f = f
  g = g
  Folders = {A, B}
  Files = {f, g}
  Parent <- Place
  Pinnable = {A, B}
  NoItem = NoItem
  Budget = 1
  MaxEvents = 2
INVARIANTS TypeOK KeptIsProtected EvictionSparesKept HealthCountsAll
CONSTRAINTS Unsevered OneWithoutRow
SYMMETRY Interchangeable
CHECK_DEADLOCK FALSE
