SPECIFICATION Spec
CONSTANTS
  Handles = {h1, h2}
  MaxLen = 2
  MaxChanges = 2
  Lengths = {1}
SYMMETRY Symmetry
INVARIANTS TypeOK UnsavedWritesKept BufferIsTheFile SavesAreMeant
CHECK_DEADLOCK FALSE
