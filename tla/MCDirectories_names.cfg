SPECIFICATION Spec
CONSTANTS
  Items = {i1, i2}
  Locals = {l1}
  Folders = {f1, f2}
  Names = {n1}
  Threads = {t1, t2}
  None = None
  MaxChanges = 1
  MaxJobs = 2
SYMMETRY Interchangeable
INVARIANTS RowsConverge ListingsConverge DeletedStaysDeleted
CHECK_DEADLOCK FALSE
